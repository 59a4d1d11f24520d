-------------------------------- MODULE Rebuild --------------------------------
(***************************************************************************)
(* run_full_rebuild.sh: the routing database is rebuilt in 14 stages, each *)
(* of the first 11 a script in a container that reads and writes files     *)
(* under data/.  Whether a stage runs is decided by pipeline_status.py     *)
(* from modification times, so a rebuild resumes from what lies on disk.   *)
(*                                                                         *)
(* A file is known by what the stages' outcome depends on: which stages    *)
(* looked at which ingest to compute it, whether the chain graph behind it *)
(* has the ferry edges, and whether it is whole.  Its modification time is *)
(* its place in the order of last writes.                                  *)
(*                                                                         *)
(* The script and each container are processes of their own.  A container  *)
(* may die anywhere; the script may be interrupted anywhere, and then its  *)
(* detached container runs on; and Ctrl-C in two of its commands does not  *)
(* end the script.                                                         *)
(***************************************************************************)
EXTENDS Naturals, Sequences, SequencesExt

CONSTANTS KnobSets,    \* the environments a rebuild may be started with
          MaxRuns,     \* bound: rebuilds started
          MaxIngests,  \* bound: ingests
          MaxMishaps   \* bound: containers that die plus interrupts

Stage == 1..11   \* the stages that run in a container

ASSUME RebuildAssumption ==
  /\ KnobSets \subseteq [resume : BOOLEAN, fresh : BOOLEAN,
                         force : SUBSET (1..14), skip : SUBSET (1..14)]
  /\ MaxRuns \in Nat /\ MaxIngests \in Nat \ {0} /\ MaxMishaps \in Nat

File == {"piers", "paved", "sea", "anchors", "graph", "graph_geo", "ferry_edges",
         "candidates", "orphans", "polys_json", "polys", "npz", "cities",
         "city_graph", "v2c", "v2d"}

VARIABLES
  ingest,   \* the last ingest into the database
  disk,     \* content of each file
  order,    \* <<f, g>>: f was last written no later than g
  link,     \* paired_trunks.db points at v2d
  box,      \* the container of each stage
  script,   \* where the script is
  knobs,    \* its environment
  outcome,  \* how it ended
  clean,    \* no container of an interrupted rebuild ran beside it
  api,      \* the API container and the database it opened
  web,      \* the copies under web/public/data
  cut,      \* what Ctrl-C cut off in this rebuild without ending it
  runs, mishaps

vars == <<ingest, disk, order, link, box, script, knobs, outcome, clean, api, web, cut,
          runs, mishaps>>
files == <<disk, order>>
run == <<knobs, clean, cut, runs>>
bounds == <<cut, runs, mishaps>>

-----------------------------------------------------------------------------
(* Files.                                                                   *)

State == {"missing", "torn", "partial", "whole"}
(* A source <<n, i>>: stage n (0: the ingest itself) looked at ingest i.     *)
Source == (0..11) \X (1..MaxIngests)
Content == [sources : SUBSET Source, ferries : BOOLEAN, state : State]
Missing == [sources |-> {}, ferries |-> FALSE, state |-> "missing"]

HasTime(f) == <<f, f>> \in order
Older(f, g) == f # g /\ <<f, g>> \in order
Touch(f) == {p \in order : p[1] # f /\ p[2] # f}
              \cup (({g \in File : HasTime(g)} \cup {f}) \X {f})

(* What can be opened and parsed.  Directories of NPZs and a trunk database *)
(* are read with whatever rows they have.                                   *)
Readable(f) == disk[f].state \in {"partial", "whole"} \/ f = "npz"

-----------------------------------------------------------------------------
(* The scripts: what each must read, the file its chain edges come from,    *)
(* and what it writes, in order.                                            *)

BuildPaved    == [reads |-> {}, chain |-> "none", writes |-> <<"paved">>]
ClassifyPiers == [reads |-> {"piers"}, chain |-> "none", writes |-> <<"sea">>]
SelectAnchors ==
  [reads |-> IF HasTime("sea") THEN {"sea"} ELSE {"piers"},
   chain |-> "none", writes |-> <<"anchors">>]
ChainLand ==
  [reads |-> {"anchors"}, chain |-> "none",
   writes |-> <<"graph", "graph_geo", "anchors">>]
ChainFerry ==
  [reads |-> {"anchors", "graph"}, chain |-> "ferries",
   writes |-> <<"ferry_edges", "graph", "graph_geo">>]
(* The candidates are a snapshot of the graph taken once and kept.          *)
ChainProximity ==
  LET source == IF HasTime("candidates") THEN "candidates" ELSE "graph"
  IN [reads |-> {"anchors", source} \cup {f \in {"ferry_edges"} : HasTime(f)},
      chain |-> source,
      writes |-> (IF HasTime("candidates") THEN <<>> ELSE <<"candidates">>)
                 \o <<"graph", "graph_geo", "orphans">>]
AnchorPolys ==
  [reads |-> {"anchors", "graph"}, chain |-> "graph",
   writes |-> <<"polys_json", "polys">>]
SptPolygon ==
  [reads |-> {"anchors", "polys_json"}, chain |-> "polys_json",
   writes |-> <<"npz">>]
AdaptPaired ==
  [reads |-> {"anchors", "npz", "graph"}, chain |-> "graph",
   writes |-> <<"cities", "city_graph">>]
BuildPaired ==
  [reads |-> {"cities", "city_graph", "npz"}, chain |-> "city_graph",
   writes |-> <<"v2c">>]
Prune ==
  [reads |-> {"v2c", "cities", "city_graph"}, chain |-> "v2c",
   writes |-> <<"v2d">>]

Script(n) == <<BuildPaved, ClassifyPiers, SelectAnchors, ChainLand, ChainFerry, ChainProximity,
               AnchorPolys, SptPolygon, AdaptPaired, BuildPaired, Prune>>[n]

(* These also read the database, raw OSM extracts or the cells exported     *)
(* from the database.                                                       *)
ReadsIngest == {1, 2, 3, 5, 6, 8}

(* What a script computes from what it read.  A torn NPZ is kept as it is.  *)
Computed(n) ==
  LET s == Script(n) IN
  [sources |-> {p \in Source : \/ \E f \in s.reads : p \in disk[f].sources
                               \/ n \in ReadsIngest /\ p = <<n, ingest>>},
   ferries |-> s.chain \in {"ferries"} \cup {f \in File : disk[f].ferries},
   state |-> CASE n = 8 /\ disk["npz"].state = "torn" -> "torn"
               [] \A f \in s.reads : disk[f].state = "whole" -> "whole"
               [] OTHER -> "partial"]

(* Slip: the knob does not reach the container.                             *)
KeptAnyway(f, fresh) == IF f \in {"npz", "v2c"} THEN disk[f].sources ELSE {}
(* NPZs that are there and trunks of a pair of cities that are in the       *)
(* database are kept, unless the database was asked to be fresh.            *)
Kept(f, fresh) == IF f = "npz" \/ (f = "v2c" /\ ~fresh) THEN disk[f].sources ELSE {}
Result(f, b) == [b.in EXCEPT !.sources = @ \cup Kept(f, b.fresh)]
(* While a file is being written.  The paved table is built in one          *)
(* transaction, and so are the trunks of a pair; the last NPZ may be torn.  *)
Unfinished(f, b) ==
  IF f = "paved" THEN disk[f]
  ELSE [Result(f, b) EXCEPT !.state = IF f = "v2c" THEN "partial" ELSE "torn"]

-----------------------------------------------------------------------------
(* pipeline_status.py.                                                      *)

NotOlder(out, upstream) == HasTime(out) /\ ~Older(out, upstream)

CheckFiles(n) ==
  CASE n = 1 -> HasTime("paved")
    [] n = 2 -> NotOlder("sea", "piers")
    [] n = 3 -> NotOlder("anchors", "sea")
    [] n = 4 -> NotOlder("graph", "anchors")
    [] n = 5 -> NotOlder("graph_geo", "graph")
    [] n = 6 -> NotOlder("orphans", "graph")
    [] n = 7 -> NotOlder("polys", "graph")
    [] n = 9 -> NotOlder("city_graph", "npz")
    [] n = 10 -> NotOlder("v2c", "city_graph")
    [] n = 11 -> NotOlder("v2d", "v2c")
    [] n = 12 -> link /\ ~Older("v2d", "v2c")

(* Slip: stage 8 is found under its number, and believed.                   *)
CheckCountingNpz(n) == IF n = 8 THEN disk["npz"] # Missing /\ NotOlder("npz", "polys") ELSE CheckFiles(n)
(* The status of stage 8 is reported as stage 7's: asked about stage 8, the *)
(* inspector knows no such stage.                                           *)
Check(n) == n # 8 /\ CheckFiles(n)

IsCurrent(n) ==
  \/ n \in knobs.skip
  \/ knobs.resume /\ n \notin knobs.force /\ Check(n)

-----------------------------------------------------------------------------
(* The containers.                                                          *)

Off == [at |-> "off", todo |-> <<>>, in |-> Missing, fresh |-> FALSE]
Running(n) == box[n].at \in {"started", "run", "writing"}
WebFile == {"anchors", "graph", "graph_geo", "polys"}

script_vars == <<script, knobs, outcome, clean, api, web, cut, runs>>

(* The script loads its inputs, or exits because one is absent or broken.   *)
ReadInputs(n) ==
  LET s == Script(n)
      ready == \A f \in s.reads : Readable(f)
  IN /\ box[n].at = "started"
     /\ box' = [box EXCEPT ![n] =
          IF ready THEN [@ EXCEPT !.at = "run", !.todo = s.writes, !.in = Computed(n)]
          ELSE [@ EXCEPT !.at = "failed"]]
     /\ UNCHANGED <<ingest, files, link, script_vars, mishaps>>

OpenOutput(n) ==
  LET f == Head(box[n].todo) IN
  /\ box[n].at = "run" /\ box[n].todo # <<>>
  /\ box' = [box EXCEPT ![n].at = "writing"]
  /\ disk' = [disk EXCEPT ![f] = Unfinished(f, box[n])]
  /\ order' = IF f = "paved" THEN order ELSE Touch(f)
  /\ UNCHANGED <<ingest, link, script_vars, mishaps>>

CloseOutput(n) ==
  LET f == Head(box[n].todo) IN
  /\ box[n].at = "writing"
  /\ box' = [box EXCEPT ![n].at = "run", ![n].todo = Tail(@)]
  /\ disk' = [disk EXCEPT ![f] = Result(f, box[n])]
  /\ order' = Touch(f)
  /\ UNCHANGED <<ingest, link, script_vars, mishaps>>

Exit(n) ==
  /\ box[n].at = "run" /\ box[n].todo = <<>>
  /\ box' = [box EXCEPT ![n].at = "ok"]
  /\ UNCHANGED <<ingest, files, link, script_vars, mishaps>>

(* Killed, out of memory, an exception.                                     *)
Dies(n) ==
  /\ Running(n)
  /\ mishaps < MaxMishaps /\ mishaps' = mishaps + 1
  /\ box' = [box EXCEPT ![n].at = "failed"]
  /\ UNCHANGED <<ingest, files, link, script_vars>>

-----------------------------------------------------------------------------
(* The script.                                                              *)

At(n, phase) == script = [stage |-> n, phase |-> phase]
Goto(n, phase) == script' = [stage |-> n, phase |-> phase]
Idle == At(0, "idle")
(* Stages 8 and 11 look twice: before what they prepare, and in stage().    *)
NextStage(n) == Goto(n + 1, IF n + 1 \in {8, 11} THEN "prepare" ELSE "check")

(* cp -u of what was written since the last call.                           *)
Publish == web' = [f \in WebFile |-> IF disk[f] = Missing THEN web[f] ELSE disk[f]]
(* Slip: nothing is published on the way out.                               *)
EndSilently(o) == Goto(0, "idle") /\ outcome' = o /\ UNCHANGED web
(* The EXIT trap publishes however the script ends.                         *)
End(o) == Goto(0, "idle") /\ outcome' = o /\ Publish

(* Ctrl-C has no exit in its trap.  The look is a condition, where set -e   *)
(* does not act: one that is cut off reads `not current' and the script     *)
(* goes on.  If the stage is not current the cut makes no difference.       *)
LookCutOff(n) ==
  /\ IsCurrent(n) /\ n \notin knobs.skip
  /\ mishaps < MaxMishaps /\ mishaps' = mishaps + 1
  /\ cut' = cut \cup {<<n, script.phase>>}
NotCurrent(n) == (~IsCurrent(n) /\ UNCHANGED <<cut, mishaps>>) \/ LookCutOff(n)
FoundCurrent(n) == IsCurrent(n) /\ UNCHANGED <<cut, mishaps>>

Start(k) ==
  /\ Idle
  /\ runs < MaxRuns /\ runs' = runs + 1
  /\ knobs' = k
  /\ outcome' = "none"
  /\ clean' = \A n \in Stage : ~Running(n)
  /\ cut' = {}
  /\ Publish
  /\ Goto(1, "check")
  /\ UNCHANGED <<ingest, files, link, box, api, mishaps>>

Skip(n) ==
  /\ At(n, "check") /\ IsCurrent(n)
  /\ NextStage(n)
  /\ UNCHANGED <<ingest, files, link, box, knobs, outcome, clean, api, web, bounds>>

Launch(n) ==
  /\ At(n, "check") /\ ~Running(n) /\ NotCurrent(n)
  /\ box' = [box EXCEPT ![n] = [Off EXCEPT !.at = "started", !.fresh = knobs.fresh]]
  /\ Goto(n, "wait")
  /\ UNCHANGED <<ingest, files, link, knobs, outcome, clean, api, web, runs>>

(* A container of that name is still there: docker refuses, set -e exits.   *)
NameTaken(n) ==
  /\ At(n, "check") /\ Running(n) /\ NotCurrent(n)
  /\ End("failed")
  /\ UNCHANGED <<ingest, files, link, box, knobs, clean, api, runs>>

StageOk(n) ==
  /\ At(n, "wait") /\ box[n].at = "ok"
  /\ box' = [box EXCEPT ![n] = Off]
  /\ Publish
  /\ NextStage(n)
  /\ UNCHANGED <<ingest, files, link, knobs, outcome, clean, api, bounds>>

StageFails(n) ==
  /\ At(n, "wait") /\ box[n].at = "failed"
  /\ box' = [box EXCEPT ![n] = Off]
  /\ End("failed")
  /\ UNCHANGED <<ingest, files, link, run, api, mishaps>>

(* Slip: the NPZs of an earlier rebuild stay.                               *)
WipeNothing ==
  /\ At(8, "prepare")
  /\ Goto(8, "check")
  /\ UNCHANGED <<ingest, files, link, box, knobs, outcome, clean, api, web, bounds>>

WipeNpz ==
  /\ At(8, "prepare")
  /\ IF IsCurrent(8) \/ disk["npz"] = Missing THEN UNCHANGED files
     ELSE disk' = [disk EXCEPT !["npz"] = Missing] /\ order' = Touch("npz")
  /\ Goto(8, "check")
  /\ UNCHANGED <<ingest, link, box, knobs, outcome, clean, api, web, bounds>>

(* find || true: Ctrl-C leaves what was not deleted yet, a torn one perhaps. *)
WipeCutOff ==
  /\ At(8, "prepare") /\ ~IsCurrent(8) /\ disk["npz"] # Missing
  /\ mishaps < MaxMishaps /\ mishaps' = mishaps + 1
  /\ cut' = cut \cup {<<8, "prepare">>}
  /\ \/ UNCHANGED files
     \/ /\ \E s \in {"torn", "partial"} :
               /\ s = "torn" => disk["npz"].state = "torn"
               /\ disk' = [disk EXCEPT !["npz"].state = s]
        /\ order' = Touch("npz")
  /\ Goto(8, "check")
  /\ UNCHANGED <<ingest, link, box, knobs, outcome, clean, api, web, runs>>

(* Slip: the API is stopped only by a rebuild that does not resume.         *)
StopApiOnFullRuns ==
  /\ At(11, "prepare")
  /\ api' = IF knobs.resume THEN api ELSE [api EXCEPT !.up = FALSE]
  /\ Goto(11, "check")
  /\ UNCHANGED <<ingest, files, link, box, knobs, outcome, clean, web, bounds>>

StopApi ==
  /\ At(11, "prepare")
  /\ \/ FoundCurrent(11) /\ UNCHANGED api
     \/ NotCurrent(11) /\ api' = [api EXCEPT !.up = FALSE]
  /\ Goto(11, "check")
  /\ UNCHANGED <<ingest, files, link, box, knobs, outcome, clean, web, runs>>

Symlink ==
  /\ At(12, "check")
  /\ \/ FoundCurrent(12) /\ UNCHANGED link
     \/ NotCurrent(12) /\ link' = TRUE
  /\ NextStage(12)
  /\ UNCHANGED <<ingest, files, box, knobs, outcome, clean, api, web, runs>>

(* The container is recreated whatever was skipped.                         *)
ApiRestart ==
  /\ At(13, "check")
  /\ api' = [up |-> TRUE, serves |-> IF link THEN disk["v2d"] ELSE Missing]
  /\ NextStage(13)
  /\ UNCHANGED <<ingest, files, link, box, knobs, outcome, clean, web, bounds>>

(* One route over the new database decides; without a database there is     *)
(* none.                                                                    *)
VerifyOk ==
  /\ At(14, "check") /\ api.up /\ api.serves # Missing
  /\ End("complete")
  /\ UNCHANGED <<ingest, files, link, box, run, api, mishaps>>

VerifyFails ==
  /\ At(14, "check")
  /\ End("failed")
  /\ UNCHANGED <<ingest, files, link, box, run, api, mishaps>>

(* Ctrl-C ends any other command the script waits for, and set -e the       *)
(* script.  The container is detached.                                      *)
Interrupted ==
  /\ ~Idle
  /\ mishaps < MaxMishaps /\ mishaps' = mishaps + 1
  /\ End("interrupted")
  /\ UNCHANGED <<ingest, files, link, box, run, api>>

(* The database is loaded anew between two rebuilds.                        *)
Ingest ==
  /\ Idle /\ runs > 0
  /\ ingest < MaxIngests /\ ingest' = ingest + 1
  /\ disk' = [disk EXCEPT !["piers"] = [sources |-> {<<0, ingest'>>}, ferries |-> FALSE, state |-> "whole"]]
  /\ order' = Touch("piers")
  /\ UNCHANGED <<link, box, script, run, outcome, api, web, mishaps>>

-----------------------------------------------------------------------------
Init ==
  /\ ingest = 1
  /\ disk = [f \in File |-> IF f = "piers" THEN [sources |-> {<<0, 1>>}, ferries |-> FALSE, state |-> "whole"]
                            ELSE Missing]
  /\ order = {<<"piers", "piers">>}
  /\ link = FALSE
  /\ box = [n \in Stage |-> Off]
  /\ script = [stage |-> 0, phase |-> "idle"]
  /\ knobs = [resume |-> TRUE, fresh |-> FALSE, force |-> {}, skip |-> {}]
  /\ outcome = "none" /\ clean = TRUE
  /\ api = [up |-> FALSE, serves |-> Missing]
  /\ web = [f \in WebFile |-> Missing]
  /\ cut = {}
  /\ runs = 0 /\ mishaps = 0

Container(n) == ReadInputs(n) \/ OpenOutput(n) \/ CloseOutput(n) \/ Exit(n) \/ Dies(n)
StageCall(n) == Skip(n) \/ Launch(n) \/ NameTaken(n) \/ StageOk(n) \/ StageFails(n)
Native == WipeNpz \/ WipeCutOff \/ StopApi \/ Symlink \/ ApiRestart \/ VerifyOk \/ VerifyFails

Next ==
  \/ \E k \in KnobSets : Start(k)
  \/ \E n \in Stage : StageCall(n) \/ Container(n)
  \/ Native
  \/ Interrupted
  \/ Ingest

Spec == Init /\ [][Next]_vars

-----------------------------------------------------------------------------
(* Properties.                                                              *)

TypeOK ==
  /\ ingest \in 1..MaxIngests
  /\ disk \in [File -> Content]
  /\ order \subseteq File \X File
  /\ link \in BOOLEAN
  /\ box \in [Stage -> [at : {"off", "started", "run", "writing", "ok", "failed"},
                        todo : Seq(File), in : Content, fresh : BOOLEAN]]
  /\ script \in [stage : 0..14, phase : {"idle", "prepare", "check", "wait"}]
  /\ knobs \in [resume : BOOLEAN, fresh : BOOLEAN, force : SUBSET (1..14), skip : SUBSET (1..14)]
  /\ outcome \in {"none", "complete", "failed", "interrupted"}
  /\ clean \in BOOLEAN
  /\ api \in [up : BOOLEAN, serves : Content]
  /\ web \in [WebFile -> Content]
  /\ cut \subseteq (1..14) \X {"prepare", "check"}
  /\ runs \in 0..MaxRuns /\ mishaps \in 0..MaxMishaps

Completed == Idle /\ outcome = "complete" /\ clean
Full == ~knobs.resume /\ knobs.fresh /\ knobs.skip = {}
(* Nothing was ingested since the last full rebuild.                        *)
FullyRebuilt == Completed /\ Full /\ <<1, ingest>> \in disk["paved"].sources

(* Ctrl-C did not leave trees for stage 8 to keep.                          *)
Wiped == <<8, "prepare">> \notin cut

(* The pruner and the API do not fit into memory together: as long as no    *)
(* container of an interrupted rebuild is about, the API is down while the  *)
(* pruner of this one runs.  Not so when the first look found stage 11      *)
(* current and Ctrl-C cut off the second: then the pruner starts beside the *)
(* API, after INTERRUPTED was sent.                                         *)
PrunerRunsAlone == (clean /\ At(11, "wait") /\ <<11, "check">> \notin cut) => ~api.up

(* Whatever died or was interrupted before, a rebuild that skips no stage   *)
(* by order and completes deploys a database with nothing missing from it,  *)
(* even though a half-written file is newer than what it was made from; but *)
(* not when the wipe before stage 8 was cut off, which keeps a torn NPZ.    *)
CompleteIsWhole ==
  (Completed /\ knobs.skip = {} /\ Wiped) => api.up /\ api.serves.state = "whole"

(* After stage 8 there is an NPZ for every anchor, each computed from the   *)
(* polygons and anchors on disk: unless the wipe was cut off, neither a     *)
(* rebuild that died here nor the one before an ingest leaves a tree behind.*)
NpzOfOnePolygonSet ==
  [][(clean /\ StageOk(8) /\ Wiped) =>
       /\ disk["npz"].state = "whole"
       /\ disk["npz"].sources \subseteq
            disk["polys_json"].sources \cup disk["anchors"].sources \cup {<<8, ingest>>}]_vars

(* RESUME=0 with BUILD_PAIRED_FRESH=1 makes up for every stale file but the *)
(* candidate snapshot: all else it deploys comes from this ingest, unless   *)
(* the wipe was cut off.                                                    *)
FullRunReplaces ==
  (FullyRebuilt /\ Wiped) =>
    api.serves.sources \subseteq (Source \cap ((0..11) \X {ingest})) \cup disk["candidates"].sources

(* However a rebuild ends, the dashboard shows the files the stages left.   *)
WebShowsTheData ==
  [][(~Idle /\ Idle') => \A f \in WebFile : disk[f] # Missing => web'[f] = disk[f]]_vars

-----------------------------------------------------------------------------
(* Statements of the documentation.                                         *)

(* The stage list has ferry edges appended in stage 5: a completed rebuild  *)
(* that skips nothing by order has them.                                    *)
FerriesAppended == (Completed /\ knobs.skip = {}) => disk["city_graph"].ferries
=============================================================================
