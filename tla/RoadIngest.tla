----------------------------- MODULE RoadIngest -----------------------------
(***************************************************************************)
(* pgrouting/ingest/ingest_pbf.py: OSM files are streamed into staging     *)
(* tables, and these are resolved into ways_vertices_pgr and ways.  Every  *)
(* step commits, so that an ingest that was killed can be run again; it    *)
(* goes on with what it finds staged.                                      *)
(*                                                                         *)
(* The land is a line, a node the place where it lies.                     *)
(***************************************************************************)
EXTENDS Integers, Sequences, FiniteSets, Functions, FiniteSetsExt, Ranking

CONSTANTS
    Ways,           \* of OSM: [id, kind, nodes, oneway], the kind "bike" if
                    \* bike_edge_cost() prices it, "drivable" or "other"
    Located,        \* the nodes an index knows the place of
    Files,          \* the country files there are, with the ids in each
    JobLists,       \* what is ingested in turn: [pbfs, supplement]
    EDGE_BATCH,
    MaxKills        \* bound

RoadIngestAssumption ==
    /\ IsFiniteSet(Ways)
    /\ \A w \in Ways : w.id \in Nat /\ w.nodes \in Seq(Int) /\ w.oneway \in {-1, 0, 1}
    /\ \A v, w \in Ways : v.id = w.id => v = w
    /\ EDGE_BATCH \in Nat \ {0} /\ MaxKills \in Nat

VARIABLES
    pc,
    jobs,           \* the ingests left, the first at work
    todo,           \* its files left to stream
    nodes, staged,  \* tmp_nodes, a set; tmp_edges, a sequence; empty if dropped
    unique,         \* tmp_nodes_unique, the same
    vertices,       \* ways_vertices_pgr
    indexed,        \* both of its secondary indexes are there
    ways,           \* [way, src, dst, cost, reverse_cost]
    lookup,         \* whether ways has its indexes on source and target
    lo,             \* the first staged edge of the next chunk
    kills,
    owed            \* what the ingests that finished were asked for

vars == <<pc, jobs, todo, nodes, staged, unique, vertices, indexed, ways, lookup, lo,
          kills, owed>>
staging == <<nodes, staged, unique>>
graph == <<vertices, indexed, ways, lookup>>

---------------------------------------------------------------------------
(* One way *)

\* A bikeable way is taken for known in supplement mode.  One that is not is
\* kept if cars may use it, for the shape of the chain graph.
Kept(w, supplement) ==
    \/ w.kind = "bike" /\ ~supplement
    \/ w.kind = "drivable"

Cost(open) == IF open THEN 1 ELSE -1

\* The located nodes by their position in the way, and the node located next.
At(w) == {i \in DOMAIN w.nodes : w.nodes[i] \in Located}
Later(w, i) == {j \in At(w) : j > i}
Following(w, i) == w.nodes[Min(Later(w, i))]

\* Between each of them and the next, unless they lie in the same place.
Hops(w) == {i \in At(w) : Later(w, i) # {} /\ Following(w, i) # w.nodes[i]}
EdgeFrom(w, i) ==
    [way |-> w.id, src |-> w.nodes[i], dst |-> Following(w, i),
     cost |-> Cost(w.oneway # -1), reverse_cost |-> Cost(w.oneway # 1)]

\* A way of which only one node is located leaves nothing.
NodesOf(w) == IF \E i, j \in At(w) : i # j THEN {w.nodes[i] : i \in At(w)} ELSE {}

\* The ways of a file that its handler keeps, and where on them edges begin.
KeptWays(f, supplement) == {w \in Ways : w.id \in Files[f] /\ Kept(w, supplement)}
HopsIn(f, supplement) == UNION {{w} \X Hops(w) : w \in KeptWays(f, supplement)}

\* In the order of the file.
Before(g, h) == g[1].id < h[1].id \/ (g[1].id = h[1].id /\ g[2] < h[2])
EdgesIn(f, supplement) ==
    LET hops == HopsIn(f, supplement)
        sorted == Ranked(hops, {p \in hops \X hops : Before(p[1], p[2])})
    IN  [n \in DOMAIN sorted |-> EdgeFrom(sorted[n][1], sorted[n][2])]
NodesIn(f, supplement) == UNION {NodesOf(w) : w \in KeptWays(f, supplement)}

Key(e) == <<e.way, e.src, e.dst>>
Keys(rows) == {Key(e) : e \in rows}

---------------------------------------------------------------------------
(* The process *)

Init ==
    /\ pc = "start"
    /\ jobs \in JobLists
    /\ todo = <<>> /\ nodes = {} /\ staged = <<>> /\ unique = {}
    /\ vertices = {} /\ indexed = FALSE     \* schema.sql creates only one of them
    /\ ways = {} /\ lookup = TRUE
    /\ lo = 1 /\ kills = 0 /\ owed = {}

Running == pc \notin {"start", "dead", "done"}
StagedData == nodes # {} /\ staged # <<>>

\* Data in both of the staging tables is taken for all of it.
Resume ==
    /\ pc = "start" /\ StagedData
    /\ pc' = "resolve"
    /\ UNCHANGED <<jobs, todo, staging, graph, lo, kills, owed>>

CreateStaging ==
    /\ pc = "start" /\ ~StagedData
    /\ nodes' = {} /\ staged' = <<>>
    /\ todo' = Head(jobs).pbfs
    /\ pc' = "stream"
    /\ UNCHANGED <<jobs, unique, graph, lo, kills, owed>>

\* Committed file by file.
StreamPbf ==
    /\ pc = "stream" /\ todo # <<>> /\ Head(todo) \in DOMAIN Files
    /\ nodes' = nodes \cup NodesIn(Head(todo), Head(jobs).supplement)
    /\ staged' = staged \o EdgesIn(Head(todo), Head(jobs).supplement)
    /\ todo' = Tail(todo)
    /\ UNCHANGED <<pc, jobs, unique, graph, lo, kills, owed>>

MissingPbf ==
    /\ pc = "stream" /\ todo # <<>> /\ Head(todo) \notin DOMAIN Files
    /\ pc' = "dead" /\ todo' = <<>>
    /\ UNCHANGED <<jobs, staging, graph, lo, kills, owed>>

Streamed ==
    /\ pc = "stream" /\ todo = <<>>
    /\ pc' = "resolve"
    /\ UNCHANGED <<jobs, todo, staging, graph, lo, kills, owed>>

---------------------------------------------------------------------------
(* _resolve_into_final *)

NoNodes ==
    /\ pc = "resolve" /\ nodes = {}
    /\ pc' = "ways"
    /\ UNCHANGED <<jobs, todo, staging, graph, lo, kills, owed>>

\* Kept for the next run, which takes it as it is unless it is empty.
DedupNodes ==
    /\ pc = "resolve" /\ nodes # {}
    /\ unique' = IF unique = {} THEN nodes ELSE unique
    /\ pc' = "vertices"
    /\ UNCHANGED <<jobs, todo, nodes, staged, graph, lo, kills, owed>>

\* Both indexes there: the vertices are taken to be in.
SkipVertices ==
    /\ pc = "vertices" /\ indexed
    /\ pc' = "ways"
    /\ UNCHANGED <<jobs, todo, staging, graph, lo, kills, owed>>

DropVertexIndexes ==
    /\ pc = "vertices" /\ ~indexed
    /\ pc' = "insert_vertices"
    /\ UNCHANGED <<jobs, todo, staging, graph, lo, kills, owed>>

InsertVertices ==
    /\ pc = "insert_vertices"
    /\ vertices' = vertices \cup unique
    /\ pc' = "index_vertices"
    /\ UNCHANGED <<jobs, todo, staging, indexed, ways, lookup, lo, kills, owed>>

IndexVertices ==
    /\ pc = "index_vertices"
    /\ indexed' = TRUE
    /\ pc' = "ways"
    /\ UNCHANGED <<jobs, todo, staging, vertices, ways, lookup, lo, kills, owed>>

NoEdges ==
    /\ pc = "ways" /\ staged = <<>>
    /\ pc' = "drop"
    /\ UNCHANGED <<jobs, todo, staging, graph, lo, kills, owed>>

\* The inner joins: an edge with an end that is no vertex falls out.
Resolvable(i) == {staged[i].src, staged[i].dst} \subseteq vertices

\* ways_dedup_idx refuses a second row of a key.
Clash(is) == \E i, j \in is : i # j /\ Key(staged[i]) = Key(staged[j])

AllOfThem == {i \in DOMAIN staged : Resolvable(i)}

BulkInsert ==
    /\ pc = "ways" /\ staged # <<>> /\ ways = {}
    /\ ~Clash(AllOfThem)
    /\ ways' = {staged[i] : i \in AllOfThem}
    /\ pc' = "drop"
    /\ UNCHANGED <<jobs, todo, staging, vertices, indexed, lookup, lo, kills, owed>>

DropLookup ==
    /\ pc = "ways" /\ staged # <<>> /\ ways # {}
    /\ lookup' = FALSE
    /\ lo' = 1
    /\ pc' = "chunk"
    /\ UNCHANGED <<jobs, todo, staging, vertices, indexed, ways, kills, owed>>

\* Slip: the bounds of a chunk are taken to be open on both sides.
OpenChunk == {i \in (lo + 1)..(lo + EDGE_BATCH - 1) \cap DOMAIN staged :
                Resolvable(i) /\ Key(staged[i]) \notin Keys(ways)}

\* What of a chunk is not in yet.
Chunk == {i \in lo..(lo + EDGE_BATCH - 1) \cap DOMAIN staged :
                Resolvable(i) /\ Key(staged[i]) \notin Keys(ways)}

InsertChunk ==
    /\ pc = "chunk" /\ lo <= Len(staged) /\ ~Clash(Chunk)
    /\ ways' = ways \cup {staged[i] : i \in Chunk}
    /\ lo' = lo + EDGE_BATCH
    /\ UNCHANGED <<pc, jobs, todo, staging, vertices, indexed, lookup, kills, owed>>

\* A way that two files hold is staged twice; if both copies are met in one
\* statement the statement is refused, on this run and on every other.
InsertRefused ==
    /\ \/ pc = "ways" /\ staged # <<>> /\ ways = {} /\ Clash(AllOfThem)
       \/ pc = "chunk" /\ lo <= Len(staged) /\ Clash(Chunk)
    /\ pc' = "dead" /\ lo' = 1
    /\ UNCHANGED <<jobs, todo, staging, graph, kills, owed>>

IndexLookup ==
    /\ pc = "chunk" /\ lo > Len(staged)
    /\ lookup' = TRUE
    /\ lo' = 1
    /\ pc' = "drop"
    /\ UNCHANGED <<jobs, todo, staging, vertices, indexed, ways, kills, owed>>

Asked(job) == UNION {Keys(Range(EdgesIn(f, job.supplement))) :
                        f \in Range(job.pbfs) \cap DOMAIN Files}

DropStaging ==
    /\ pc = "drop"
    /\ nodes' = {} /\ staged' = <<>> /\ unique' = {}
    /\ owed' = owed \cup Asked(Head(jobs))
    /\ jobs' = Tail(jobs)
    /\ pc' = IF jobs' = <<>> THEN "done" ELSE "start"
    /\ UNCHANGED <<todo, graph, lo, kills>>

---------------------------------------------------------------------------
(* The environment *)

\* The machine pauses, or the database is killed.
Kill ==
    /\ Running /\ pc # "dead" /\ kills < MaxKills
    /\ kills' = kills + 1
    /\ pc' = "dead" /\ todo' = <<>> /\ lo' = 1
    /\ UNCHANGED <<jobs, staging, graph, owed>>

\* The same once more, or another.
Rerun ==
    /\ pc = "dead"
    /\ \/ UNCHANGED jobs
       \/ Len(jobs) > 1 /\ jobs' = Tail(jobs)
    /\ pc' = "start"
    /\ UNCHANGED <<todo, staging, graph, lo, kills, owed>>

Next ==
    \/ Resume \/ CreateStaging \/ StreamPbf \/ MissingPbf \/ Streamed
    \/ NoNodes \/ DedupNodes \/ SkipVertices \/ DropVertexIndexes \/ InsertVertices
    \/ IndexVertices \/ NoEdges \/ BulkInsert \/ DropLookup \/ InsertChunk
    \/ InsertRefused \/ IndexLookup \/ DropStaging \/ Kill \/ Rerun

Spec == Init /\ [][Next]_vars

---------------------------------------------------------------------------
(* What may be relied on *)

\* When the staging tables are dropped, each edge in them between two vertices
\* is in ways, and ways has its indexes again, whatever was interrupted and run
\* again before.
StagedEdgesArrive ==
    pc = "drop" =>
        /\ \A i \in DOMAIN staged : Resolvable(i) => Key(staged[i]) \in Keys(ways)
        /\ lookup

\* ingest_pbf.py:498-500 takes the two indexes for the mark of a clean vertex
\* insert, and run_per_country_ingest.sh:3-4 adds country after country this way.
\* All edges of the files that the finished ingests were asked for are in ways.
IngestIsWhole == owed \subseteq Keys(ways)
=============================================================================
