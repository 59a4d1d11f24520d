# A verification project for the bike planner

This directory holds TLA+ models of the bike planner, TLC configurations that
check them on small instances, and proofs about them for TLAPS. Paths below are
relative to the root of the repository.

- [1. The system](#1-the-system)
- [2. The modules](#2-the-modules)
- [3. What is checked](#3-what-is-checked)
- [4. What is proved](#4-what-is-proved)
- [5. Disagreements found](#5-disagreements-found)
- [6. What is not modelled](#6-what-is-not-modelled)
- [7. Plan](#7-plan)

## 1. The system

A user asks a chat pane in the browser for a multi-day bike tour. A FastAPI
server runs LLM agents that call routing tools; routes come from precomputed
shortest-path data which an offline pipeline builds from OpenStreetMap.

| Part | Code | State it keeps | Operations | Talks to |
|---|---|---|---|---|
| Chat pane | `web/public/chat.js` | `history`, the in-flight request, lines and pins per segment, saved sessions in localStorage | send, stream frames, reset, save, load, export GPX | `POST /chat` over SSE |
| Map UI | `web/public/app.js` | current route per profile, layers, toggles | route form, layer toggles | HTTP API |
| Chat endpoint and tool loop | `api/app/chat.py` | one conversation per request: messages, round, pending tool calls | stream a round, run a tool in a worker thread, answer it, stop at the cap | LLM API, tools |
| Coordinator | `api/app/multiagent.py` | plan, per-segment results, semaphore, queue | supervise, fan out, forward, merge, enrichment follow-up | one tool loop per agent |
| Enrichment | `api/app/enrichment.py` | lodging and transit jobs over a semaphore and a queue | fan out one agent per overnight and per pair | tool loops |
| Request log | `api/app/tracing.py` | one trace per agent run | start, round, tool call, end | stderr |
| Tools | `api/app/tools.py` | `_ROUTE_CACHE`, `_ROUTE_KM_CACHE`, station index | route, split, stations, rail, booking links | trunk router, rail router, database |
| Trunk router | `api/app/trunk_router.py` | profile data, LRU store of trunks | Dijkstra over the city graph, walk trunks, snap to roads | NPZ files, PostGIS |
| Local router | `api/app/local_dijkstra.py` | none across calls | bounded Dijkstra around an endpoint | PostGIS |
| Rail router | `api/app/rail_router.py` | rail graph | shortest rail path | files |
| HTTP API | `api/app/main.py`, `settings.py`, `db.py`, `pois.py`, `geo.py` | loaded settings | REST endpoints | all of the above |
| MCP server | `mcp_server/` | region table | pick a backend by region, forward the call | API or a local package |
| Rebuild | `run_full_rebuild.sh`, `pgrouting/pipeline_status.py` | stage outputs on disk and in the database | check freshness, run stage, stop and restart the API | every pipeline script |
| Chain graph | `pgrouting/chain/` | anchors, proximity graph, pruned edges | select, connect, augment with ferries, filter, refilter | PostGIS, files |
| SPT and paired trunks | `pgrouting/spt/`, `pgrouting/paired/` | shortest-path trees, NPZ trunks | compute, export, adapt, prune | files |
| Cost and scenicness | `pgrouting/cost/`, `pgrouting/scenicness/` | per-way scores | compute | PostGIS, rasters |
| Ingest | `pgrouting/ingest/`, `ingest/` | source tables | import | OSM, DEM, GTFS |

### How a plan is made

`POST /chat` dispatches in `_run_chat`. A fresh request starts a *supervisor*
agent, which ends by calling `finalize_segment_plan`. The coordinator announces
every segment, then creates one asyncio task per segment. A task waits for the
semaphore, iterates its agent's stream with a timeout, puts every frame on one
shared queue, records the result (or a failed placeholder), asks for a precise
route, and queues a commit frame, an end frame and a sentinel. The coordinator
forwards frames until it has counted one sentinel per task and then merges the
results. Each agent is the same loop, `_run_chat_inner`: ask the model, stream
its text, run its tool calls in worker threads, answer them, repeat up to a cap.
The chat pane reads the frames, draws a committed segment at once, and appends
the whole answer to its history when the stream ends.

### How a route is found

`route()` runs Dijkstra over the cities of the chain graph, gets the start onto
the first trunk (a shortest-path tree, or a search on the roads), walks one
trunk per leg and may skip legs when a later terminus lies on the trunk it is
on. The answer goes into the route cache; the tools that split a route into days
or look for stations along it read it from there, perhaps on behalf of another
client. The MCP server puts one such server behind each region.

### How the data is made

`ingest_pbf` streams OSM files into staging tables and resolves them into `ways`
and its vertices. `ingest_dem_ctas` and `recompute_cost` fill columns, the
former by swapping a whole copy of the table in. `select_anchors_bottom_up`
picks cities and piers; `crow_flies_chain_graph` (or `build_way_graph`, from
roads) joins neighbouring ones, `augment_way_city_graph_with_ferries` appends
crossings, `build_chain_graph_proximity` drops pairs that pass a third anchor.
Each anchor gets a polygon and a shortest-path tree inside it, each pair a
trunk: the rows of one tree that lead into the other. Trunks are pruned to what
a router can walk. `run_full_rebuild.sh` runs it all in order and skips what is
current.

### What is hard about it

- Many tasks share one queue, one semaphore and one results table; agents time
  out, raise, or return nothing; the client may leave at any point and nothing
  cancels the tasks.
- Worker threads cannot be cancelled: a tool may finish after its loop is gone.
- The browser aborts a stream in one event and handles the abort in a later one.
- Caches shared by worker threads are not locked.
- The rebuild may be killed in any stage and is resumed from what lies on disk;
  so may every long script, which then goes on from its staging tables.
- Stages rely on what the stage before left out: a trunk on a frontier the tree
  computed, a pruned trunk on the termini of its neighbours.

### What makes each part correct

- *Tool loop*: requests the model API accepts, paired tool frames, a bounded
  number of rounds, a trace that tells what the client saw.
- *Coordinator*: a segment's frames in order and one ending each, no permit
  lost, merge after the last frame, one section per segment in order.
- *Chat pane*: a history that matches the conversation, a map of one plan,
  sessions that load, an input that comes back.
- *Enrichment*: the same fan-out contract; agents for exactly what was asked.
- *Route cache*: a tool that builds on a route gets that route.
- *Routers*: every leg ridden or reported, pieces that meet, no target missed,
  shortest rail spines, days that add up.
- *Ingest and tables*: what was staged arrives, nothing is lost by a swap, costs
  keep both directions.
- *Chain graph*: anchors that are local maxima, roads and crossings that join,
  triangles that leave a way.
- *Trunks*: walks that end where the next tree takes over; pruning takes nothing
  a router walks.
- *Rebuild*: a stage counted current is complete; after a successful run the API
  serves what was built.

## 2. The modules

| Module | Models | State and actions |
|---|---|---|
| `AgentStream` | the contract of one agent's stream | open, acknowledged, then returned with its result, raised or cancelled |
| `ChatLoop` | `_run_chat_inner` and its wrappers | `pc` is where the generator is suspended; one action per stretch between two suspension points |
| `FanOut` | the contract of a fan-out, as the browser sees it | each job hidden, open, committed, ended; the whole joins when all ended |
| `Multiagent` | `run_multiagent_plan` and `_run_one` | coordinator position, plan, per-task position, permits, results, queue, sentinels, frames forwarded, merged sections |
| `Enrichment` | dispatch in `_run_chat`, `run_enrichment_followup`, `run_enrichment_stage` | the last message and the turn before it, request position, overnights, per-job task, permits, queue, sentinels |
| `Rebuild`, `MCRebuild` | `run_full_rebuild.sh`, `pipeline_status.py`, what the stage scripts read and write | files with their content and write order, one container per stage, the script's stage and phase, knobs, API, web copies |
| `RebuildProofs` | theorems about `Rebuild` | |
| `ChatClient` | `streamChat`, map slots, sessions | history, position of `streamChat`, the two Maps, GPX route, index and payloads |
| `ChatLoopProofs`, `MultiagentProofs`, `EnrichmentProofs`, `ChatClientProofs` | theorems about `ChatLoop`, `Multiagent`, `Enrichment`, `ChatClient` | |
| `TrunkRoute` | `route()` of `trunk_router.py` | chain of cities, trunks by leg, position and terminus, pieces walked, bridges reported; one action per way onto a trunk, leg, skip and last mile |
| `StageSplit` | `split_into_stages` | polyline, stops, the segment and cut at work, overnights; one action per cut |
| `LocalSearch` | `local_dijkstra_to_targets` | cells loaded, what is wanted, result; load, search the crop, search the whole |
| `RailSpine` | `rail_shortest_path`, `direct_rail_service` | timetables, heap, distances, parents; one action per heap entry |
| `RouteTools` | the route caches, the tools at them, the MCP dispatcher | two caches per backend, one call per client; one action between two moments another thread may run |
| `TrunkViews` | `/trunk/blob` and `/trunk/chains` | successor table, chain being drawn, visited; one action per vertex |
| `TrunkRouteProofs`, `RouteToolsProofs` | theorems about `TrunkRoute` and `TrunkViews`; about `RouteTools`, `StageSplit`, `RailSpine` and `RoadCost` | |
| `MCServing` | instances of the six algorithms above | `TrunkRoute`'s variables, and registers for the other five |
| `RoadIngest`, `MCIngest` | `ingest_pbf.py` | staging tables, vertices and ways with their indexes, step; one action per commit, kills and reruns |
| `RoadCost` | `cost.py`, `recompute_cost.py` | elevations, two columns per profile, tiles left; one action per tile, kills |
| `TableSwap` | the four scripts that fill or rewrite a table through a copy | table, copy, staging, script and step; one action per commit, kills, crashes of the database |
| `AnchorSelect` | `select_anchors_bottom_up.py` | places, mask, queue; one action per place and pass |
| `FerryChains` | `classify_piers.py`, `crow_flies_chain_graph.py`, `augment_way_city_graph_with_ferries.py` | ferry rows, anchors, edges, lengths found, queue; one action per sector, per vertex expanded, per pier |
| `VoronoiGraph` | `build_way_graph.py` | rows by tile, graph, labels, chain merged so far; one action per tile and step |
| `ProximityGraph` | `build_chain_graph_proximity.py` | pairs to look at, batch, kept and dropped; one action per target |
| `TrunkTrees` | `export_cells`, `compute_anchor_spt_polygons`, `compute_spts_polygon`, `adapt_polygon_to_paired`, `build_polygon_paired_db_v2`, `prune_paired_trunks` | ways, cells, trees, weighted graph, trunks built and pruned, pass; one action per stage and per city pruned |
| `ShortestWays` | what the programs take from SciPy | operators only |
| `Ranking` | a sort by a key: a finite set in the order of a relation | operators only |
| `PipelineProofs` | theorems about `TableSwap`, `AnchorSelect`, `RoadIngest`, `TrunkTrees`, `FerryChains`, `VoronoiGraph`, `ProximityGraph` and, for the searches they share, `LocalSearch` | |
| `MCPipeline` | instances of the eight stages above, `RoadIngest` to `TrunkTrees` | `TableSwap`'s variables, and registers for the other seven |

`ChatLoop` is shown to implement `AgentStream`, and `Multiagent` is written
against `AgentStream` only: a segment's agent streams frames, may submit, and
then returns with its result or fails. `Multiagent` is shown to implement
`FanOut`, and so is `Enrichment`, whose jobs are lodging searches and train
lookups that commit nothing; a request that asks, fails to extract or goes to
the planner is a fan-out that was refused. The server that `ChatClient` takes as its environment is what
`FanOut` lets through (starts, then commits in any order).

A message in `Enrichment` is the set of word classes that occur in it
(lodging, transit, both, preferences); the texts are free, so every combination
of classes is one a user can write. Of the turns before it the model keeps whether one
of them named preferences (`hinted`), which the code does not look at.

In `Rebuild` the script and every container are processes. A stage script is
what it must read, the file its chain edges come from and what it writes, in the
order of its source; it reads at its start, opens an output (which is then torn,
or a directory or database with part of its rows, and newer than everything
else) and closes it. The content of a file is the set of pairs of a stage and
the ingest that stage looked at to compute it, whether the chain graph behind it
has the ferry edges, and whether it is torn, partial or whole. Modification
times are the order of last writes, so two files never have the same time; where
the code compares, equal and newer count the same. Outputs that nothing reads
back (summaries, dropped edges, orphan markers, river piers) are left out. The
window between `unlink` and `copyfile` of the pruned database is one step with
the start of the copy. `docker compose` itself does not fail, except on a
container name in use. Ctrl-C ends the script nearly everywhere, but not where
`set -e` is off: the freshness check is the condition of an `if` and a check that is cut
off reads "not current" (`LookCutOff`), and the wipe before stage 8 ends in `|| true`
(`WipeCutOff`). `cut` remembers which of them were cut off in this rebuild.

`MCServing` and `MCPipeline` hold one component per behaviour: which of them is
chosen in the initial state, so one run checks all of them on the instances given
there. `MCServing` extends `TrunkRoute` and `MCPipeline` extends `TableSwap`, whose
constants their configurations give; the variables of the others lie in
registers. The components do not share state in
the program either, except through the files and tables whose contents each
module enumerates as its inputs.

The route modules put the land on a line or a small grid: a vertex is where it
lies, a distance a difference. In `VoronoiGraph` vertices are numbered and two of them
may lie in one place, so that a bridge may have no length. What a search over the roads or a tree finds is
computed (`ShortestWays`) where the stage's own result depends on it, and any
possible answer (`TrunkRoute`) where only what follows matters. The columns in `TableSwap` are those the
scripts' lists name and one that they do not. SciPy's
`csr_matrix` adds parallel entries up, and so does `Csr`. Where the order of
equals depends on a sort or a k-d tree, the choice is nondeterministic if
something could depend on it. Factors in `RoadCost` are hundredths rounded down,
the hyperbolic tangent a step function. A killed script loses what it has not
committed; a database crash empties unlogged tables.

What is abstracted everywhere: texts, tool arguments and results, narratives,
coordinates. A polyline is the plan it was drawn for, a segment result is its
status and its number of days, a message is its role and the tool calls it asks
for or answers.

Granularity follows the code's own: on the server's event loop and in the
browser, code between two awaits runs alone, so it is one action. Two details
deserve mention. An asyncio queue without a bound never suspends its `put`, so
the frames queued at the end of a task are queued in one step. And a tool runs
in a thread: in `ChatLoop` a cancelled loop leaves a `zombie` tool behind that
may still capture a submission.

Definitions marked *Slip* in the modules are plausible mistakes. They are used
by no specification; substituting one for the definition that follows it must
make TLC report the property it is paired with in `PROJECT.json`.

## 3. What is checked

| Run | Instance | Distinct states | Shows |
|---|---|---|---|
| `chat_loop` | 2 rounds, up to 2 tool calls per answer, conversations of up to 3 turns with any cache marks | 57 000 | requests well formed, at most 4 cache marks, tool frames paired and the trace in agreement with them, termination, refinement of `AgentStream` |
| `multiagent` | up to 3 segments numbered by any injection into 0..2, 2 permits, 1 frame per agent | 990 000 | story of each segment, merge after every frame, status agreement, merged plan |
| `multiagent_live` | 2 segments, 1 permit, results of 0 or 2 days | 13 000 | requests end, orphans end, refinement of `FanOut` |
| `chat_client` | 2 segments, 2 turns, 2 saves, an index of 1 | 1 700 000 | one plan on the map and in the export, answers follow questions, indexed sessions load, the input returns |
| `enrichment` | any message after any turn, with preferences named before or not, up to 2 overnights (2 lodging jobs, 1 transit job), 2 permits, 1 frame per agent | 438 000 | the agents are those asked for, requests end, refinement of `FanOut` |
| `rebuild` | 2 rebuilds (default, full, or keeping the trees), an ingest between them, one death or Ctrl-C at any step, also one that does not end the script | 1 650 000 | the pruner runs alone, a completed rebuild deploys a whole database, a full one replaces everything but the candidates, no stale tree, the dashboard is current |
| `serving` | each of six algorithms, see `MCServing` | 720 000 | legs accounted for, pieces that meet, days that tell the route, searches that miss nothing, tools that read the right route, shortest spines, two views of one trunk |
| `pipeline` | each of eight stages, see `MCPipeline` | 237 000 | staged edges arrive, costs in both directions, anchors that are local maxima, roads, crossings and triangles that stay joined, walks that arrive before and after pruning, swaps that lose nothing |
| `multiagent_crash` | 1 segment | | violation, see section 5 |
| `chat_client_load` | 1 segment, 2 turns, 1 save | | violation |
| `rebuild_ferries` | 1 default rebuild | | violation |
| `ingest_whole` | 2 countries, one ingest each | | violation |

*Why the bounds are enough.* Two rounds make a request that follows tool
results and a cap that cuts a run short; two calls per round distinguish order.
Three segments over two permits give a waiting task, a finishing order different
from the plan's and a day offset that crosses a failed segment. Two overnights
are the fewest with a pair between them, so both kinds of agents compete for the
two permits. One extra frame
per agent is enough to interleave with its own end and with others. Two segments
over one permit make every wait depend on another task's end. An index of one
with two saves forces the eviction that the code performs at thirty.

A second rebuild is the one that resumes; one mishap is a crash for it to resume
from, or a container of the first to run beside it.

The instances of `MCServing` and `MCPipeline` are chosen so that each branch is
taken (TLC's coverage shows every action of every component firing). A line of
four cities with two stop lists has chains with a leg to skip, to truncate and
to report; polylines of up to four points over five places ride back and forth, by up to
four stops that they may pass, pass twice or miss; two clients with three calls put an
insert between any two steps of a scan, and one of their routes is from a city to
itself. Two
kills leave an ingest or a swap in any step and again in any step of its rerun;
the job lists of `RoadIngest` hold one file, several, a missing one, an empty
one and a second ingest. Two parallel roads with every subset of six links
between them, over five cities in tiles of four, give trees that share, touch
and miss one another's polygons; some of the trees are deeper than `MAX_CLIMB`, which is
5 here and 8192 in the code. On the main roads two of the vertices lie in one place. Ferry rows are any subset of a strait with a
way round it, a harbour shorter than a usable row, and a closed ferry. What the
small grids cannot show is said in section 6.

*Fairness.* The tool loop: every await of it returns, because the SDK client has
a timeout and tools are bounded computations. The coordinator and `Acquire`: the
event loop runs what is ready. A task's end: `SEGMENT_TIMEOUT_S` (`ENRICHMENT_TIMEOUT_S`) cancels a
stalled agent, and the precise route has a timeout of its own. Nothing is asked
of the frames themselves. The chat pane: only that an unanswered fetch is given
up by the browser, that the idle watchdog fires and that a rejected promise runs
its catch clause; nothing is asked of the server.

`Rebuild`, `MCServing` and `MCPipeline` state no liveness and have no fairness:
loops over finite input end, and a killed script is run again by hand.

*Deadlock.* Every one of these programs comes to an end (the request is
answered, the user stops typing), so the runs do not check for deadlock; the
liveness properties say what has to be reached instead.

## 4. What is proved

TLAPS proves the following for every value of the constants that satisfies the
named assumptions; a run checks the same formula on a small instance wherever a
property is named. Each theorem follows from an inductive invariant, which TLC
checked on the run's instance before it was proved; the properties themselves
are not inductive, and what had to be added to them is said below.

| Module | Theorem | Statement |
|---|---|---|
| `MultiagentProofs` | `TypeCorrect` | `Spec => []TypeOK` |
| | `PermitsSafe` | `Spec => []PermitsConserved` |
| | `MergeIsLast` | `Spec => []MergeAfterEveryFrame` |
| | `StoryIsTold` | `Spec => []StoryOfSegment` |
| | `BubblesTellTheResult` | `UniqueIdx => (Spec => []StatusAgrees)` |
| | `FinalPlanIsWhole` | `UniqueIdx => (Spec => []MergedPlanComplete)` |
| | `CoordinatorIsFanOut` | `Spec => Browser!Safety` |
| `ChatLoopProofs` | `LoopTypeCorrect` | `Spec => []TypeOK` |
| | `RequestsAccepted` | `Spec => []RequestsWellFormed` |
| | `BudgetKept` | `Spec => []BreakpointBudget` |
| | `StreamToldTruly` | `Spec => []TraceTellsTheStream` |
| | `LoopImplementsStream` | `Spec => Stream!Init /\ [][Stream!Next]_(Stream!streamVars)` |
| `ChatClientProofs` | `ClientTypeCorrect` | `Spec => []TypeOK` |
| | `MapIsOfOnePlan` | `Spec => []OnePlanOnMap` |
| | `AnswersStayWithQuestions` | `Spec => []AnswersFollowTheirQuestion` |
| | `MenuSessionsLoad` | `Spec => []IndexedSessionsLoad` |
| `EnrichmentProofs` | `RequestTypeCorrect` | `Spec => []TypeOK` |
| | `AnswersTheMessage` | `Spec => []JobsMatchRequest` |
| | `EnrichmentIsFanOut` | `Spec => Browser!Safety` |
| `RebuildProofs` | `PrunerAlone` | `Spec => []PrunerRunsAlone` |
| | `RebuildTypeCorrect` | `Spec => []TypeOK` |
| | `DeploysWhole` | `Spec => []CompleteIsWhole` |
| | `FullRunIsNew` | `Spec => []FullRunReplaces` |
| | `TreesOfThesePolygons` | `Spec => NpzOfOnePolygonSet` |
| | `DashboardIsCurrent` | `Spec => WebShowsTheData` |
| `RouteToolsProofs` | `ToolsReadTheRoute` | `OneBackend => (Spec => []ReadYourRoutes)` |
| | `DaysAddUp` | `Spec => []DaysTellTheRoute` (of `StageSplit`) |
| | `SpinesAreShortest` | `Spec => []SpineIsShortest` (of `RailSpine`) |
| | `FullRunsPrice` | `NoneOnTheRim => (Spec => []ColumnsArePriced)` (of `RoadCost`) |
| `TrunkRouteProofs` | `LegsAreAccounted` | `Spec => []LegsAccounted` |
| | `RoutePiecesMeet` | `Spec => []PiecesMeet` |
| | `ChainsAreTheBlob` | `Spec => []ChainsDrawTheTrunk` (of `TrunkViews`) |
| `PipelineProofs` | `SwapsKeep` | `Spec => SwapsKeepTheTable` (of `TableSwap`) |
| | `AnchorsArePeaks` | `Spec => []AnchorsAreLocalMaxima` (of `AnchorSelect`) |
| | `StagedRowsArrive` | `Spec => []StagedEdgesArrive` (of `RoadIngest`) |
| | `SearchesAnswer` | `Spec => []SearchAnswers` (of `LocalSearch`) |
| | `BuiltWalksArrive` | `Spec => []WalksArrive` (of `TrunkTrees`) |
| | `PruningSpares` | `Spec => []PruningKeepsWalks` (of `TrunkTrees`) |
| | `CrossingsJoin` | `Spec => []CrossingsJoinTheChain` (of `FerryChains`) |
| | `RoadsKeepTogether` | `Spec => []RoadsStayJoined` (of `VoronoiGraph`) |
| | `TrianglesKeepTogether` | `Spec => []TrianglesLeaveAWay` (of `ProximityGraph`) |

*Assumptions.* `MultiagentAssumption`, `CapAssumption`, `ClientAssumption`,
`EnrichmentAssumption` and `RebuildAssumption` are ASSUMEs of their modules, so
TLC evaluates them on every run. They say that bounds are numbers and that sets
of segments and knobs are what the code lets them be. The modules of the two
joint runs name theirs as definitions (`RouteToolsAssumption`,
`StageSplitAssumption`, `TrunkRouteAssumption`, `TrunkViewsAssumption`,
`RailSpineAssumption`, `TableSwapAssumption`, `AnchorSelectAssumption`,
`RoadIngestAssumption`, `LocalSearchAssumption`, `TrunkTreesAssumption`,
`FerryChainsAssumption`, `VoronoiAssumption`, `ProximityAssumption`, `RoadCostAssumption`), which are
hypotheses of the theorems; `MCServing` and `MCPipeline` have TLC evaluate them for
their instances. Most say of which type a constant is. `ProximityAssumption` says two
things more: what can be ridden costs something (ways without a length are never
staged, and no cost factor is 0), and no vertex is near two settlements (they are more
than 10 km apart, and near is 5 km unless the environment says otherwise; with a
radius of more than half the spacing the theorem says nothing). Piers may be near
anything but a town. Three theorems need more:

- `UniqueIdx`: the supervisor numbers its segments apart. Results are kept by
  `segment_i` and nothing validates the numbers, so with a duplicate one
  segment's result replaces the other's; the run makes the same assumption.
- `OneBackend`: all tools' calls for one request go to one MCP backend. Without
  it the theorem is false (see `split_into_stages` in section 5). The instance
  of the run has one backend.
- `NoneOnTheRim`: the easternmost vertex does not lie on a border between tiles.
  Without it the theorem is false (see `_iter_tiles` in section 5). The instance of
  the run has none there.

`LegsAccounted`, `PiecesMeet` and `SwapsKeepTheTable` are checked by the joint
runs as `TrunkRoute`'s and `TableSwap`'s own definitions. `ReadYourRoutes`,
`DaysTellTheRoute`, `SpineIsShortest`, `SearchAnswers`, `ChainsDrawTheTrunk`,
`AnchorsAreLocalMaxima`, `StagedEdgesArrive`, `WalksArrive`, `PruningKeepsWalks`,
`CrossingsJoinTheChain`, `RoadsStayJoined` and `TrianglesLeaveAWay` are checked for as long
as `which` chooses the instance, which is why `PROJECT.json` names no property for those
twelve theorems. `ColumnsArePriced` is the first half of `CostsKeepDirections`, which the
`pipeline` run checks.

### The coordinator

`MergeAfterEveryFrame` speaks of the moment when the coordinator has counted one
sentinel per task, so the invariant `IInv` must say what a sentinel stands for:

- `PlanInv`: tasks exist exactly for the plan's positions, once the coordinator
  is past announcing; the queue is empty before.
- `QueueInv`: items are about existing tasks; an end frame or a sentinel is
  about a finished task; behind an end frame of a segment only its sentinel is
  queued, behind its sentinel nothing.
- `EndInv`: a finished task's end frame is either queued, with its sentinel
  behind it, or the last frame forwarded about it.
- `CountInv`: the sentinels counted are as many as the finished tasks whose
  sentinel is no longer queued.

When the count reaches the number of tasks, every task is finished and no
sentinel is queued (`CountInv`, cardinalities), so every end was forwarded
(`EndInv`) and nothing can be queued behind it (`QueueInv`). `QueueFrame`,
`QueueFinish`, `QueueForward`, `QueueMoved` and `QueueUnchanged` state what the
shapes of step do to the queue, and the actions are instances of them.

The status and the merged plan need `PlanIInv`, which adds where a result comes
from: it is of the task that has left its agent (`ResultInv`), an end frame,
queued or forwarded, carries its status (`StatusInv`), and the sections written
so far are of the smallest numbers and follow each other without a gap
(`WrittenInv`).

The story and the refinement need `StoryIInv`. `AnnounceInv` ties what the
browser has seen of a segment to where the coordinator is, `StoryInv` says that
what is queued continues what was seen (a chunk, a commit or a failure finds the
segment open; an ok end finds it committed, or its commit queued in front), and
`ToldInv` that what was forwarded is itself the beginning of a story. A disconnect
keeps all three, so the story is told up to the frame where the client left, and a
segment whose task died has a story without an end: `StoryOfSegment` lets a story
break off but never continue wrongly.

### The tool loop

`IInv` of `ChatLoopProofs` follows a tool round: the newest answer's calls are
those answered so far followed by those still to run (`ConvInv`), so the user
turn that closes the round answers all of them in order, whichever failed. With
it go the shape of the stream (`PairInv`: an unanswered start is the newest frame,
and only while its tool runs; `EndInv`: `done` comes last, or before the result
alone), the trace (`TraceInv`: ended exactly in the final states, with the error
the stream shows) and who may leave a worker thread behind (`AgentInv`). The
breakpoint budget follows from the marks: after the shift exactly the newest
message has one. Marks that came with the client's history are gone from the first
request on.

### The chat pane

`MapInv` says what a running stream may still commit: segments of the plan that
is on the map, which is why a load, a save or a reset between two frames cannot mix
plans (a load aborts the stream, and the abort is handled in a later event).
`TurnInv` says that while a stream is read its question is the last turn.

### The enrichment

Like the coordinator's, with jobs for segments and nothing to commit.
`RequestInv` carries the dispatch's answer (what the message asks for, and that
preferences were there) to the moment the agents are announced. `JobsMatchRequest`
allows what the comment promises, preferences from an earlier message; the code asks
for them in the last one (section 5).

### The rebuild

The script looks at the freshness of stage 11 once to stop the API and once to
start the pruner, so the invariant must carry the answer from one look to the
other: `StoppedFirst` (past the first look a due pruner finds the API stopped) and
`OwnContainer` (a running container is the one the script waits for, hence none
writes between the looks). A look that is cut off tells nothing (`LookFacts`): the theorem
is about rebuilds whose second look was not, and that exception is a real one (section 5).

`DataIInv` is about what lies on disk. `Settled` says what a container at work
still has to write and what its input was read from. `NpzInv` follows the trees
of stage 8 from the wipe to the last file; `WholeInv` shows, stage by stage from 8
on, that what a stage leaves is whole or that the next one is due. It is where
the number under which `pipeline_status.py` reports stage 8 is needed (section 5).
`NewInv` says that a full run's outputs so far are of this ingest, up to the
candidate snapshot. `ServedInv` and `NewServed` carry both to the deployed copy. All of
these leave out rebuilds whose wipe before stage 8 was cut off (`Wiped`).

### Route tools, routes, swaps, anchors and ingest

`ToolsReadTheRoute`: an entry's key tells its request and its backend (`CacheInv`),
nothing is ever taken out (`AnsweredInv`), and a call that is owed a route finds
it at its first look, so it neither scans for another route of the same cities
nor asks for one of its own (`Served`). That keys tell requests apart is a lemma
about `RouteCacheKey`, under the assumption on `Requests`. A route from a city to itself is
found as well, but has one point, and whatever builds on it answers that it is too
short (`RouteTooShort`): such requests may be refused.

`DaysAddUp`: any polyline between two cities, any stops, on it or off it, any distance per
day. `StopsInv` has the stops behind as nights in their order, wherever cuts lie between
them. `DaysInv`: a night lies no earlier than the one before it unless its stop does, and
the last night is short of the stop ahead. That holds because a cut falls no later than
the end of its segment (`CutIs`): distance along a polyline never shrinks (`CumGrows`). So
only a day to a stop that lies behind rides backwards. When the route passes the stops in
their order, and none before its turn, the first vertex nearest to a stop is the one where
its turn comes; then no stop lies behind, and the nights reach from the first vertex to
the last.

`TrunkRoute`: `AccountInv` says that every leg behind is ridden once or skipped
once and that nothing is known of those ahead; `StandInv` that the walk stands at
the end of its last piece, which lies on the next trunk if the piece touches it,
and after a skip on the trunk ahead. `PiecesMeet` is inductive with them only. A
walk down a trunk is a chain of successors; vertices from which no such chain, or
more than one, leads to the root would contain a cycle (`WayExists`, `WayIsOne`).

`ChainsAreTheBlob`: any trunk of finitely many vertices. A chain follows the
successors through visited vertices (`Follows`), the one at work goes on where its
last vertex leads (`TailInv`), only its end may have a successor nobody has visited
(`ClosedInv`), and the edge from a visited vertex is on exactly one chain, the one at
work counted (`OnceInv`). At the end no leaf is left; that no vertex is left either is
`SourceExists`: of finitely many vertices on a trunk, one follows none of the others.

`SwapsKeep`: any rows, any size at which a copy or the staged values are taken
for whole, any number of kills and crashes. A swap says nothing about how its copy
came to be, so the invariant follows a copy through kills, for as long as `alone`
holds:

- `LoggedInv`: the table, a fill's copy and a copy that is about to be swapped in
  survive a crash of the database.
- `OwnerInv`: the copy at hand is of the running script, and the one a fill finds
  is a fill's.
- `StagingInv`: what is staged are rows of the table; when it is copied, either all
  that are due or more than `ENOUGH_STAGED`.
- `CopyInv`: a copy that is past its insert, and a fill's with any rows, has all of the
  table's rows and what they hold in the columns that the scripts list; a fill's also has
  every value staged or still to be staged, while a later fill stages them anew, too. This
  is what makes it safe to skip the insert on account of size alone.

Of a column that is on no list nothing is claimed: every swap empties it (section 5).

`AnchorsArePeaks`: any places, any three distances. The passes run over a line
in which each place stands once (`LineInv`). `PiersInv`: piers the first pass has
been at keep their distance, and one of them accounts for each that is gone.
`EatInv`: a pier in whose reach a town is still kept has yet to eat. `DropInv`:
whoever the last pass has been at was kept if and only if no neighbour comes
later in the order, and that counts the neighbours already dropped. `RankedIsOrder`
shows the sort to be an order of any finite set of places.

`StagedRowsArrive`: any ways, files, jobs, batch size and number of kills. The
indexes on `ways` are gone only while both staging tables hold data and `ways` has
rows (`LookupInv`): so the next run resumes at the resolve step, whichever job it is
given, and comes by the chunks again. It needs `BackedInv`, that no edge is staged
without nodes; a table of edges alone would be wiped with the indexes still
missing. `ChunkInv` says that what the chunks behind have held is in.

### The searches

`SpinesAreShortest`: any routes, stations, names and lengths. The invariant is the
one of Dijkstra's algorithm, for a heap in which overtaken entries stay. An anchor is
closed once no entry stands for its distance; a closed anchor has relaxed all of its
neighbours, none of which is then further than through it, and what is closed is no
further than what is open. Every distance is the length of a chain of rail legs, the
one its parents lead back along. So when the top of the heap is the destination, a
shorter chain would leave the closed anchors by an open one that is nearer than the
top.

What `ShortestWays` takes from SciPy is computed by recursive functions. The library's
induction theorems are out of the provers' reach, but a recursion over a *finite* set
is not: `Upward` says that a set of numbers with the first of a range, and the next of
each of its members, has the whole range; `RecursionIs` derives from it that a
recursion whose steps go down in some rank has one solution, and which. Its instances
are `SequenceIs` (one step after the other), `SpreadIs` (a set that grows comes to rest
within as many steps as there are elements, at the least closed set) and `FoldIs` (a
fold over a set). With them `CostsAddUp` reads a matrix and `WaysAre` a search: what
`Costs` reaches is what some way of the arcs reaches within the limit and within as
many hops as there are vertices, at the cost of the cheapest such way.

`SearchesAnswer`: any edges, start, targets and limit. `CropIsPart`: the crop has some
of the vertices and, between those it has, every edge. So the cost of two parallel
edges is the same in both matrices and a way in the crop is one in the whole
(`SearchesCompare`). That is all that a cropped answer promises: a target in reach, at
no less than its cost. The whole search is asked when the crop has nothing.

### The trunks

`BuiltWalksArrive`: any ways, chain graph, cell sizes and polygons, and any of the
predecessors that the searches may return. `TreesAreOk` has the trees' rows: a choice
of predecessors goes down in some rank (`KnownGoDown`), so tracing them ends, and it
ends at a source. A trunk's rows are the ancestors of those that lie in the next
city's polygon, hence closed under parents (`PairsArrive`), so a walk cannot leave
them before it is where the next tree takes over or at the seed. Were there a row
from which it does not end, the one of the least rank among them would have a parent
from which it does. The ancestors are followed for `MAX_CLIMB` rounds only. A walk of no more
ways than that is taken in whole (`ClimbReaches`), so if every vertex at which the tree
leaves its polygon has such a walk, the rows are closed and all of them arrive
(`Arrives`). A trunk with a deeper one (`TooDeep`) may be cut off; its walks still end,
but where nobody takes over (`CutOff`).

`PruningSpares`: any number of passes, in any state of the others. `TrunksInv`: a
pruned trunk has rows of the one that was built, and has the walk from every vertex
in which a trunk into its city still ends. A row that is left has the parent it had, so
trunks end in no new vertices as they are pruned, and a walk begun in one of the old
ones stays among what the pruner reaches (`PruningKeeps`).

### The crossings

`CrossingsJoin`: any ferry rows, piers and land, and any number of runs of stage 5 over
its own output. The search there is a queue that takes vertices back, not a heap.
`SweepInv` says what a queue like that keeps: a length is that of a ferry from a vertex
with a length, and a ferry that would still shorten one starts at a queued vertex. When
the queue is empty the lengths are those that no ferry improves and that ferries account
for, and `SearchIsExact` says that a search which goes far enough finds no others.
It goes far enough: a shortest way takes no ferry twice, so none is longer than all
water there is (`SettledIs`). Ferries run both ways, so a pier is away from each pier
that is away from it (`AwayIs`), and it does no harm that of two piers only the smaller
one emits their edge. `CrowInv` and `LandInv` keep what the sectors and the landings
have joined; every edge is added for a pair that had none, which leaves one per pair.

### The main roads

`RoadsKeepTogether`: any ways and tags, any anchors, tiles, gaps and limits. `RoadsOk`
has the subgraph at hand: finite, each edge between two numbered vertices and each road of
some length; a bridge has none where two vertices lie in one place. The
search from the snaps is limited to the length of all roads together, and a cheapest way
takes no edge twice, so the limit misses nothing (`LeastWithin`, `SearchSpreads`): of
two adjacent vertices both are reached or neither is. What `SearchReckons` says of a search
with bridges that cost nothing is that there are ranks which go down along the
predecessors, so tracing them ends all the same. Labels are handed on in the order of
distance; where each edge has a length a predecessor comes first, so all that is reached
is labelled, and the theorem claims no more than that: behind a bridge without length a
label may be missing (section 5). If the labels of two adjacent vertices differ the
edge is on the border, and the border between two anchors gets a chain edge (`ChainIs`),
so along a road each step stays with an anchor or goes by a chain edge to the next.
Merging may replace the edge of a pair by a cheaper one, but never drops the pair
(`MergeTileKeeps`). Which snaps are taken plays no part in it, so neither does the
union-find, whose labels need not be those of components (section 5).

### The triangles

`TrianglesKeepTogether`: any roads, anchors, discs and pairs to begin with, and any
order of the rounds. A pair is dropped for a third anchor because its cheapest way
comes near that anchor, and the two pieces are looked at in turn; what could go wrong is
that they are dropped in turn for the anchor they came from. `PiecesInv` keeps, for
each pair dropped for `c`, that `c` is an anchor and no pier, that both pieces are seen or
still to be seen, and `Split`: a cheapest way between the pair's discs is made up of
a way to `c`'s disc and one from it, of which a piece that ends at a settlement has a
length. `WaySplits` has this from the search: its limit takes away only what is dearer
(`LimitCuts`), and from each vertex of a way that is traced back one leads on at what
is left of the cost (`TracedAre`). `SeenInv` keeps that a pair which was seen is kept,
dropped or waits in a batch. When nothing waits, go down from a dropped pair to its
pieces (`PiecesAgree`): twice the length of the way between their discs plus the number
of piers among their ends gets smaller each time, for a piece may have no length only
where it leaves a pier behind. Length alone is not enough, nor is it for roads that
cost more one way than the other: a piece may have been looked at in the other
direction, and only where costs are even does that way cost the same (`RoutesBack`).

### The prices

`FullRunsPrice`: any edges, elevations, profiles and kills. An edge is at its price or in a
tile that is left (`TilesLeft`); a survey of elevations comes only between two runs and
takes back that any profile is up to date. At the beginning every edge lies in a tile
(`TilesCover`), which takes the rest of the section: whole parts of numbers, and that
the number of tiles, rounded up, is enough. It is not for a vertex on the rim.

### What the attempts showed

- The tiles of a full run were taken to cover the map. The proof stopped at the
  easternmost vertex, and TLC confirms it (`_iter_tiles` in section 5).

- The index of sessions was cut with `SubSeq(ids, 1, MaxIndex)`, which says
  nothing of a list that is shorter, although TLC evaluates it. `Newest` cuts as
  JavaScript's `slice` does.
- The rebuild compares modification times and nothing else; modelled as a list of
  files by age, most of the invariant was about list positions. It is now the
  relation "last written no later than", which is what the checks read.
- The distance along a polyline was a function of every polyline and every number,
  and said nothing past the end; it is now a function of the polyline's own
  vertices.
- `ChainsDrawTheTrunk` is false of an infinite trunk, which need not have a leaf:
  `TrunkViewsAssumption` has to say that the vertices are finitely many.
- The edges a file stages were sequences of sequences, filtered, flattened and sorted
  by recursion. They are now the hops of its ways, ranked by way and position
  (`EdgesIn`); TLC found both forms equal on ways with repeated, unlocated and missing
  nodes.
- The predecessors a search returns were any that lie on a cheapest way. With arcs of
  no cost two vertices could then be each other's, and a walk need not end; TLC's
  instances have no such arcs. SciPy sets a predecessor when a vertex is improved, so
  it never returns a cycle, and gives the sources none. `Parents` now says both.
- A stray value that equals a vertex, a row or a path would pass for one: the
  assumptions on `None` in `RailSpine`, `LocalSearch` and `TrunkTrees` came from proofs
  that failed without them. So did those of finiteness; the code's tables are finite.
- A union-find written with RECURSIVE operators hides the whole of `VoronoiGraph` from
  the provers. It is now a recursive function with as many steps as there are elements;
  TLC finds the same states.
- A story as a sequence filtered by segment hid that an item's place does not
  change when others are forwarded; it is now a set of moments.

### What is only model-checked

Liveness and the fairness halves of the three refinements (out of the prover's
reach): `PlanCompletes`, `OrphansFinish`, `ImplementsFanOut`,
`ImplementsAgentStream` and the other temporal properties of the chat. Of
`MCPipeline`: the second half of `CostsKeepDirections`, that prices are above zero, ways
back closed where they are closed in `ways`, and climbs dearer than descents. A price
is a product of six factors, which the model rounds to hundredths one after the other
in an order of choice, and what that may do to two close products is no question about
the code. The run tries each branch of the price.

## 5. Disagreements found

- **A dying segment task hangs the request** (`multiagent_crash`,
  `CrashesSurface`). Coordinates of overnights are looked up after the `try`
  block of `_run_one`; when the profile cannot be loaded the exception ends the
  task without its sentinel. The comment above the `gather` says that uncaught
  exceptions surface there; the loop before it never ends.
- **Loading a session while an answer streams drops a message of the loaded
  conversation** (`chat_client_load`, `PopTakesTheFailedTurn`). The catch clause
  of the aborted stream pops the history that was just loaded.
- **A default rebuild has no ferry edges** (`rebuild_ferries`,
  `FerriesAppended`). Stage 4 writes the graph and then its geojson; stage 5 is
  current when the geojson is not older than the graph, so it is skipped, and
  stage 6 snapshots the graph without ferries for all later rebuilds.
- **A second country loses its vertices** (`ingest_whole`, `IngestIsWhole`). The
  indexes an ingest created at its end are taken by the next one for the mark of
  a finished vertex insert, so the insert is skipped and every edge at a new
  vertex falls out of the inner joins.

Some more disagreements show in the models without a run of their own.

*In the chat.*

- The exported route and the comment above it: segments are appended in the
  order in which they complete, not in segment order (`chat.js:718-721`). In
  `ChatClient` the GPX route is a sequence in that order.
- "NEVER preemptively wipe the map", says the comment at the start of a request: "an
  iteration [...] replaces just that segment's slot and leaves the rest of the plan
  visible" (`chat.js:937-942`). Whatever is planned starts with a supervisor, and its
  `agent_start` clears the lines and pins of the plan before (`chat.js:251-262`, whose
  comment calls that a clean slate). So on a second turn all other segments disappear, and
  come back only if the supervisor plans them again. The two comments contradict each
  other. `OnePlanOnMap` states the latter, which is what the code does.
- "Preferences detected in the CURRENT user message OR anywhere in the prior conversation
  (so we don't re-ask if they mentioned it earlier)" (`multiagent.py:752-757`): only the last
  message of the user is scanned (`multiagent.py:612-621`, `:758`), so a user who asked for
  budget hostels two turns ago is asked again. `JobsMatchRequest` demands preferences in
  the last message or an earlier one, as the comment does; the question asked in vain is in
  the model (`AskPrefs`).
- The question for preferences offers "budget hostels" as a reply; those words
  are no booking trigger, so the planner starts over (`chat.py:245`,
  `multiagent.py:771-773`).

*In the rebuild.*

- A full rebuild starts from old candidates: stage 6 prefers the snapshot of an
  earlier rebuild to the graph just computed, and no knob removes it
  (`build_chain_graph_proximity.py:618`). `FullRunReplaces` excepts it.
- `pipeline_status.py` reports stage 8 under number 7, so the orchestrator never
  finds it current and repeats everything from there on, although "only stages
  whose outputs are stale (or missing) actually run" (`pgrouting/PIPELINE.md`).
  That repetition is what keeps a half-built trunk database, which the check of
  stage 10 takes for current, from being deployed: with stage 8 found under its
  number (`CheckCountingNpz`) it is deployed.
- "Orchestrator stops API before stage 11" (`run_full_rebuild.sh:60-62`, `:235-237`), for the
  two do not fit into memory. The script traps INT without an exit (`:86`), and looks at
  freshness in the condition of an `if` (`:138`, `:220`, `:238`, `:249`), so Ctrl-C during a look
  sends INTERRUPTED, reads "not current" and goes on. If everything is current (stage 8
  skipped by order), the first look at stage 11 leaves the API up; when the second is cut
  off the pruner starts beside it. `PrunerRunsAlone` excepts a second look that was cut
  off, and TLC finds it violated without the exception.
- Ctrl-C during the wipe before stage 8 goes on, too (`|| true`, `:225`), with the NPZ that are
  left: stage 8 keeps those it finds, so trees of an earlier rebuild, or a torn one, may be
  deployed. `CompleteIsWhole`, `NpzOfOnePolygonSet` and `FullRunReplaces` except such a wipe.

*In the route tools and routers.*

- A day may end where it began: `near[1] == overnight_idxs[-1]` compares a
  reference with an index (`tools.py:1080`).
- A stop is taken for the first vertex nearest to it (`tools.py:1050-1054`), whatever the
  order of the stops. Where a route passes a place before its turn, what it rides between
  the two visits is lost: by the places 0, 3, 2, 3 to 3 it ends at its second vertex, and the
  last kilometres are in no day. A round trip 0, 3, 0 ends at its first vertex: without a
  stop between, one day of 0 km; with one, a last day of a negative number of
  kilometres over an empty polyline (`tools.py:1065-1069`, `:1097-1098`). The tool is
  described as "Split a tour into daily stages" (`tools.py:407-408`). `DaysTellTheRoute` has the days add up
  where no stop is passed before its turn, and says of all others only that the stops are
  nights in their order and which days may ride backwards.
- `route_fast` answers for a city and itself, with one point (`trunk_router.py:323`), and
  caches that; splitting it, or looking for places and stations along it, is then an error
  ("len(poly) < 2", `tools.py:983`, `:1175`, `:1233`). `ReadYourRoutes` excepts these requests.
- `split_into_stages` carries no coordinates, so the dispatcher sends it to the
  default backend, whose cache may not hold the route (`dispatcher.py:46-53`).
  `ReadYourRoutes` is checked with one backend and proved under `OneBackend`.
- A cropped road search may answer with a longer way than the whole graph has;
  `SearchAnswers` promises a way, not the cheapest.

*In the pipeline.*

- A vertex on the eastern border of the last whole tile belongs to no tile of
  `recompute_cost`. The scripts never read `w.cost`, so a way that is open in
  the reverse direction only becomes open both ways in the profile columns, and
  an edge that becomes excluded keeps its old price.
- The same way in two country files, or a key twice in one chunk, makes the
  insert fail on every rerun (`InsertRefused`). A resume after a kill between
  two files resolves the staged file only. A node without a location is bridged,
  though the comment says that it breaks the chain.
- The table swaps copy a fixed list of columns into a table made `LIKE` the old one
  (`recompute_cost_views_ctas.py:181-199`, `:234-264`, `backfill_way_tags_to_ways.py:32-74`).
  `recompute_cost.py:298-300` adds two columns for any profile; those of a profile that the
  lists do not name are there after a swap, but NULL, and nothing reports it. So
  `SwapsKeepTheTable` speaks of the listed columns, and the model has one that is not.
- The survivors of the selection are called "equivalent to greedy Poisson-disk sampling
  with population as priority", and no disc of 15 km should be without an anchor "unless
  there is genuinely no settlement there" (`select_anchors_bottom_up.py:9-15`). Item 4 of the
  same docstring has what the code does: a settlement is dropped if a larger one lies
  within 15 km, also one that is dropped itself. Of three in a row, each near the next and
  each larger than the one before, the first two are dropped, although the third is far
  from the first, whose disc then has no anchor; Poisson-disk sampling keeps the first.
  `AnchorsAreLocalMaxima` is item 4.
- The table swaps take any copy of more than 100 million rows for their own: one
  left by the other script, possibly unlogged, or one from before an ingest. A
  staging table of more than 50 million rows is taken for the "full sample set"
  of the comment (`ingest_dem_ctas.py:44-47`). `SwapsKeepTheTable` is stated for
  runs between which nothing else touched the copy.
- `classify_piers.py:193` explains an unclassified pier by ways that are not
  rideable, but its query does not ask for that, and stage 5 asks for ways of
  100 m at least: a short harbour segment breaks a crossing that stage 2 counted
  as a sea. Two piers that are near one another are joined as the crow flies
  whether a ferry runs between them or not; stage 5 leaves such a pair alone and
  stage 6 keeps every pair of piers.
- `_compute_components` halves paths once and may leave several labels in one
  component, so that the snaps of an anchor all lie in one component though the
  docstring promises one for each (`build_way_graph.py:537-563`). The reader of
  cells in the same file uses `math`, which it does not import, so that
  path fails (`LoadCells`) and the database is what is left.
- `build_way_graph.py:721-723` promises that each vertex inherits its predecessor's label "in
  dist order". Vertices in one place are bridged by an edge of no length
  (`:429-461`), and among equal distances the order is that of the numbers: a vertex
  with a smaller number than its predecessor inherits the -1 that is still there, as does
  all behind it (`:724-736`), and its roads are left out of the border (`:745`). With roads from
  3 to 5 and from 4 to 9, vertices 4 and 5 in one place and anchors at the places 4 and 8, the
  two anchors are not joined. `RoadsStayJoined` is about labelled vertices, and says that
  where no such bridge is near all of them have a label.
- The ancestors of a trunk's rows are followed for 8192 rounds
  (`build_polygon_paired_db_v2.py:208-218`) and no warning is given when some are left. From
  rows that lie deeper the walk ends on the way to the seed, where nobody takes over.
  `WalksArrive` excepts trunks with a walk of more ways than that.
- `_iter_tiles` counts the tiles from the first border to the easternmost vertex,
  rounded up, and a tile leaves out its own eastern and northern border. A vertex whose
  longitude is the largest and a whole multiple of the tile size is therefore in no
  tile, and edges that start there keep a NULL price or the one of earlier elevations,
  though the comment says "each edge processed in exactly one tile"
  (`recompute_cost.py:154`, `:208-209`). The warning at the end counts NULLs only.
  Move a vertex of the instance there (12 for 14) and TLC finds `CostsKeepDirections`
  violated.
- With costs that differ by direction two pairs of anchors can be dropped for
  each other (`TrianglesLeaveAWay` is stated for even costs).

## 6. What is not modelled

`PROJECT.json` lists every component with its status. Left out for good:
rendering, raster and numeric scoring, GTFS and land-cover import, SQL, one-off
diagnostics and deprecated scripts: they have no control worth a model, or are
pure I/O. `pgrouting/main.py` calls the ingest and cost scripts in turn.

Within the modelled parts:

- the LRU store of trunks: its entries are immutable, so `TrunkRoute` takes it
  for a function; its statistics are counted without a lock;
- coordinates: the land is a line or a grid, so a polygon is an interval and a
  route crosses another only in a vertex;
- floating-point rounding, except where a comparison depends on it (rounding of
  the number of days, whole hundredths of a cost factor);
- the bounding boxes of `build_chain_graph_proximity`, its split of batches
  that are too large, and the limit of 20 000 vertices at which it stops tracing a way back
  (`build_chain_graph_proximity.py:351-364`): a longer way is judged by its last part only;
- publishing is one step: `cp -u`, cut off in the middle, may leave a torn copy that is newer
  than its source and is then not replaced;
- the text of a merged plan, and `_run_merge_stage`, which nothing calls;
- superseded variants of chain, tree and trunk scripts beside those that
  `run_full_rebuild.sh` runs.

## 7. Plan

Done: the chat (`ChatLoop`, `Multiagent`, `Enrichment`, `ChatClient` and the two
contracts), the rebuild, the algorithms of the API (`MCServing`) and of the
pipeline (`MCPipeline`), the proofs of section 4.

Next, in this order:

1. A proof of the second half of `CostsKeepDirections`, with factors that are not rounded.
2. Day renumbering of the merged text; the LRU store with its statistics.
3. `filter_chain_reachability` and `refilter_chain_edges` after `TrunkTrees`;
   the import of railway lines.
