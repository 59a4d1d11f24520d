----------------------------- MODULE RebuildProofs -----------------------------
(***************************************************************************)
(* For every set of knobs and any number of rebuilds, ingests, deaths and  *)
(* interruptions: the pruner does not run beside the API, unless Ctrl-C    *)
(* cut off the look before it; and what a rebuild leaves behind, namely    *)
(* the copies the dashboard shows, the trees of stage 8, the database it   *)
(* deploys and what that was computed from.                                *)
(***************************************************************************)
EXTENDS Rebuild, FunctionTheorems, SequenceTheorems, TLAPS

-----------------------------------------------------------------------------
(* The pruner.  The script looks at the freshness of stage 11 twice: to     *)
(* stop the API and to start the pruner.  Unless the second is cut off, both *)
(* agree because nothing writes in between, and nothing writes because every *)
(* container that runs is the one the script waits for (OwnContainer).      *)

(* A container that runs is the one the script waits for.                   *)
OwnContainer == (clean /\ ~Idle) => \A n \in Stage : Running(n) => At(n, "wait")

(* Past the first look at stage 11, a pruner that is due finds the API      *)
(* stopped.                                                                 *)
StoppedFirst == (clean /\ At(11, "check") /\ ~IsCurrent(11)) => ~api.up

IInv ==
  /\ DOMAIN box = Stage
  /\ OwnContainer
  /\ StoppedFirst
  /\ PrunerRunsAlone

-----------------------------------------------------------------------------
(* What a step of a container leaves alone.                                 *)
LEMMA ContainerFrame ==
  ASSUME NEW n \in Stage, DOMAIN box = Stage, Container(n)
  PROVE  /\ DOMAIN box' = Stage
         /\ \A m \in Stage : Running(m)' => Running(m)
         /\ UNCHANGED <<script, knobs, clean, api, cut>>
         /\ Running(n)
<1>1. CASE ReadInputs(n)
  BY <1>1 DEF ReadInputs, Running, script_vars
<1>2. CASE OpenOutput(n)
  BY <1>2 DEF OpenOutput, Running, script_vars
<1>3. CASE CloseOutput(n)
  BY <1>3 DEF CloseOutput, Running, script_vars
<1>4. CASE Exit(n)
  BY <1>4 DEF Exit, Running, script_vars
<1>5. CASE Dies(n)
  BY <1>5 DEF Dies, Running, script_vars
<1> QED
  BY <1>1, <1>2, <1>3, <1>4, <1>5 DEF Container

(* Freshness depends on the knobs, the order of writes and the link.        *)
LEMMA FreshnessFrame ==
  ASSUME UNCHANGED <<knobs, order, link>>
  PROVE  IsCurrent(11)' <=> IsCurrent(11)
BY DEF IsCurrent, Check, CheckFiles, NotOlder, HasTime, Older

(* A look that is cut off is remembered, one that is not tells the truth,   *)
(* and a stage skipped by order is not looked at.                           *)
LEMMA LookFacts ==
  ASSUME NEW n, NEW phase, At(n, phase), NotCurrent(n)
  PROVE  /\ n \notin knobs.skip
         /\ cut' = cut \/ (IsCurrent(n) /\ cut' = cut \cup {<<n, phase>>})
         /\ ~IsCurrent(n) \/ <<n, phase>> \in cut'
BY DEF NotCurrent, LookCutOff, IsCurrent, At

(* Only a wipe that is cut off leaves trees for stage 8 to keep.            *)
LEMMA LooksKeepWiped ==
  ASSUME (\E n : Launch(n)) \/ StopApi \/ Symlink
  PROVE  Wiped' <=> Wiped
<1>1. PICK n, phase : /\ phase = "check" \/ n = 11
                      /\ At(n, phase) /\ (NotCurrent(n) \/ cut' = cut)
  <2>1. CASE \E n : Launch(n)
    BY <2>1 DEF Launch
  <2>2. CASE StopApi
    BY <2>2 DEF StopApi, FoundCurrent
  <2>3. CASE Symlink
    BY <2>3 DEF Symlink, FoundCurrent
  <2> QED
    BY <2>1, <2>2, <2>3
<1>2. CASE NotCurrent(n)
  <2>1. cut' = cut \/ cut' = cut \cup {<<n, phase>>}
    BY <1>1, <1>2, LookFacts
  <2>2. <<n, phase>> # <<8, "prepare">>
    BY <1>1
  <2> QED
    BY <2>1, <2>2 DEF Wiped
<1>3. CASE cut' = cut
  BY <1>3 DEF Wiped
<1> QED
  BY <1>1, <1>2, <1>3

(* The first state has the invariant.                                       *)
LEMMA InitIInv == Init => IInv
BY DEF Init, IInv, OwnContainer, StoppedFirst, PrunerRunsAlone, Idle, At, Running, Off, Stage

-----------------------------------------------------------------------------
(* A container's step.  Only the one the script waits for may move, so the  *)
(* script is not between its two looks.                                     *)
LEMMA ContainerStep ==
  ASSUME IInv, NEW n \in Stage, Container(n)
  PROVE  IInv'
<1>1. /\ DOMAIN box' = Stage
      /\ \A m \in Stage : Running(m)' => Running(m)
      /\ UNCHANGED <<script, knobs, clean, api, cut>>
      /\ Running(n)
  BY ContainerFrame DEF IInv
<1>2. OwnContainer'
  BY <1>1 DEF IInv, OwnContainer, Idle, At
<1>3. (clean /\ ~Idle) => At(n, "wait")
  BY <1>1 DEF IInv, OwnContainer
<1>4. StoppedFirst'
  <2> SUFFICES ASSUME clean, At(11, "check") PROVE FALSE
    BY <1>1 DEF StoppedFirst, At
  <2> QED
    BY <1>3 DEF At, Idle
<1>5. PrunerRunsAlone'
  BY <1>1 DEF IInv, PrunerRunsAlone, At
<1> QED
  BY <1>1, <1>2, <1>4, <1>5 DEF IInv

(* The script's call of a stage.                                            *)
LEMMA StageCallStep ==
  ASSUME IInv, NEW n \in Stage, StageCall(n)
  PROVE  IInv'
<1> USE DEF IInv, OwnContainer, StoppedFirst, PrunerRunsAlone
<1>1. CASE Skip(n)
  <2>1. ~At(11, "check")' /\ ~At(11, "wait")'
    BY <1>1 DEF Skip, NextStage, Goto, At, Stage
  <2>2. OwnContainer'
    BY <1>1 DEF Skip, Idle, At, Running, Stage
  <2> QED
    BY <1>1, <2>1, <2>2 DEF Skip
<1>2. CASE Launch(n)
  <2>1. script' = [stage |-> n, phase |-> "wait"] /\ UNCHANGED <<clean, api, knobs, order, link>>
    BY <1>2 DEF Launch, Goto, files
  <2>2. DOMAIN box' = Stage /\ \A m \in Stage : Running(m)' => m = n \/ Running(m)
    BY <1>2 DEF Launch, Running
  <2>3. clean => \A m \in Stage : ~Running(m)
    BY <1>2 DEF Launch, At, Idle, Stage
  <2>4. OwnContainer'
    BY <2>1, <2>2, <2>3 DEF At
  <2>5. PrunerRunsAlone'
    <3> SUFFICES ASSUME n = 11, clean, <<11, "check">> \notin cut' PROVE ~api.up
      BY <2>1 DEF At
    <3>1. At(11, "check") /\ NotCurrent(11)
      BY <1>2 DEF Launch
    <3>2. ~IsCurrent(11)
      BY <3>1, LookFacts
    <3> QED
      BY <3>1, <3>2
  <2>6. StoppedFirst'
    BY <2>1 DEF At
  <2> QED
    BY <2>2, <2>4, <2>5, <2>6
<1>3. CASE NameTaken(n)
  BY <1>3 DEF NameTaken, End, Goto, Idle, At
<1>4. CASE StageOk(n)
  <2>1. ~At(11, "check")' /\ ~At(11, "wait")'
    BY <1>4 DEF StageOk, NextStage, Goto, At, Stage
  <2>2. DOMAIN box' = Stage /\ \A m \in Stage : Running(m)' => m # n /\ Running(m)
    BY <1>4 DEF StageOk, Running, Off
  <2>3. OwnContainer'
    BY <1>4, <2>2 DEF StageOk, Idle, At, Stage
  <2> QED
    BY <2>1, <2>2, <2>3
<1>5. CASE StageFails(n)
  BY <1>5 DEF StageFails, End, Goto, Idle, At
<1> QED
  BY <1>1, <1>2, <1>3, <1>4, <1>5 DEF StageCall

(* The script's own steps.  StopApi is where the API goes down, on the same *)
(* freshness that StoppedFirst speaks of.                                   *)
LEMMA NativeStep ==
  ASSUME IInv, Native
  PROVE  IInv'
<1> USE DEF IInv, OwnContainer, StoppedFirst, PrunerRunsAlone
<1>1. CASE WipeNpz
  BY <1>1 DEF WipeNpz, Goto, Idle, At, Running
<1>2. CASE WipeCutOff
  BY <1>2 DEF WipeCutOff, Goto, Idle, At, Running
<1>3. CASE StopApi
  <2>1. IsCurrent(11)' <=> IsCurrent(11)
    BY <1>3, FreshnessFrame DEF StopApi, files
  <2>2. OwnContainer'
    BY <1>3 DEF StopApi, Goto, Idle, At, Running
  <2>3. ~IsCurrent(11) => ~api'.up
    <3> SUFFICES ASSUME ~IsCurrent(11) PROVE ~api'.up
      OBVIOUS
    <3>1. api' = [api EXCEPT !.up = FALSE]
      BY <1>3 DEF StopApi, FoundCurrent
    <3> QED
      BY <3>1
  <2> QED
    BY <1>3, <2>1, <2>2, <2>3 DEF StopApi, Goto, At
<1>4. CASE Symlink
  BY <1>4 DEF Symlink, NextStage, Goto, Idle, At, Running
<1>5. CASE ApiRestart
  BY <1>5 DEF ApiRestart, NextStage, Goto, Idle, At, Running
<1>6. CASE VerifyOk
  BY <1>6 DEF VerifyOk, End, Goto, Idle, At
<1>7. CASE VerifyFails
  BY <1>7 DEF VerifyFails, End, Goto, Idle, At
<1> QED
  BY <1>1, <1>2, <1>3, <1>4, <1>5, <1>6, <1>7 DEF Native

(* Every step keeps it.                                                     *)
LEMMA NextIInv == IInv /\ [Next]_vars => IInv'
<1> SUFFICES ASSUME IInv, [Next]_vars PROVE IInv'
  OBVIOUS
<1>1. CASE \E k \in KnobSets : Start(k)
  BY <1>1 DEF Start, IInv, OwnContainer, StoppedFirst, PrunerRunsAlone, Goto, Idle, At, Running
<1>2. CASE \E n \in Stage : StageCall(n) \/ Container(n)
  BY <1>2, ContainerStep, StageCallStep
<1>3. CASE Native
  BY <1>3, NativeStep
<1>4. CASE Interrupted
  BY <1>4 DEF Interrupted, IInv, OwnContainer, StoppedFirst, PrunerRunsAlone, End, Goto, Idle, At
<1>5. CASE Ingest
  BY <1>5 DEF Ingest, IInv, OwnContainer, StoppedFirst, PrunerRunsAlone, run, Idle, At
<1>6. CASE UNCHANGED vars
  <2>1. IsCurrent(11)' <=> IsCurrent(11)
    BY <1>6, FreshnessFrame DEF vars
  <2> QED
    BY <1>6, <2>1 DEF vars, IInv, OwnContainer, StoppedFirst, PrunerRunsAlone, Idle, At, Running
<1> QED
  BY <1>1, <1>2, <1>3, <1>4, <1>5, <1>6 DEF Next

(* The pruner runs alone: whatever the knobs and whatever died before, as   *)
(* long as no container of an interrupted rebuild is about and the look it  *)
(* was started on was not cut off.                                          *)
THEOREM PrunerAlone == Spec => []PrunerRunsAlone
<1>1. IInv => PrunerRunsAlone
  BY DEF IInv
<1> QED
  BY InitIInv, NextIInv, <1>1, PTL DEF Spec

-----------------------------------------------------------------------------
(* The data.  The invariants follow a rebuild through its stages.  What a   *)
(* stage has written is whole, or new, once its container is done; that     *)
(* lasts while the script waits for later ones because nothing but the      *)
(* container it waits for writes (OwnContainer); and a later stage is not   *)
(* taken for current, because the file it is made from has just been        *)
(* written.                                                                 *)

(* Where the script can be, and that it waits for a container it started.   *)
Shape ==
  /\ \/ Idle
     \/ \E n \in 1..14 : At(n, "check")
     \/ \E n \in {8, 11} : At(n, "prepare")
     \/ \E n \in Stage : At(n, "wait") /\ box[n].at # "off"
  /\ \A n \in Stage : box[n].at = "writing" => box[n].todo # <<>>

Typed == TypeOK /\ Shape

-----------------------------------------------------------------------------
(* What the stages write, and what the first stages leave.                  *)
Outputs(n) == <<{"paved"}, {"sea"}, {"anchors"}, {"graph", "graph_geo", "anchors"},
                {"ferry_edges", "graph", "graph_geo"},
                {"candidates", "graph", "graph_geo", "orphans"}, {"polys_json", "polys"},
                {"npz"}, {"cities", "city_graph"}, {"v2c"}, {"v2d"}>>[n]
Produced(k) == UNION {Outputs(m) : m \in {i \in Stage : i <= k}}
(* Files that are whole or cannot be read.                                  *)
Ground == {"piers", "paved", "sea", "anchors", "graph", "graph_geo", "ferry_edges",
           "candidates", "orphans", "polys_json", "polys"}

Working(n) == box[n].at \in {"run", "writing"}

(* A container writes what its stage writes; a script that reads only       *)
(* ground files has read whole ones; candidates about to be written add to  *)
(* what is known of them.                                                   *)
Work(n) ==
  /\ Working(n) => /\ ToSet(box[n].todo) \subseteq Outputs(n)
                   /\ n < 8 => box[n].in.state = "whole"
                   /\ "candidates" \in ToSet(box[n].todo) =>
                        disk["candidates"].sources \subseteq box[n].in.sources
  /\ box[n].at = "ok" => box[n].todo = <<>>
WorkInv == \A n \in Stage : Work(n)

Dated(sources) == sources \subseteq (0..11) \X (1..ingest)

FileInv ==
  /\ disk["piers"] = [sources |-> {<<0, ingest>>}, ferries |-> FALSE, state |-> "whole"]
  /\ \A f \in Ground : disk[f].state # "partial"
  /\ \A f \in File : ~HasTime(f) => disk[f] = Missing
  /\ \A f \in File : Dated(disk[f].sources)
  /\ \A n \in Stage : Dated(box[n].in.sources)

(* After a rebuild that was undisturbed no container runs.                  *)
Quiet == Completed => \A n \in Stage : ~Running(n)

-----------------------------------------------------------------------------
(* An undisturbed rebuild.                                                  *)
Live == clean /\ ~Idle
Done(n, f) == box[n].at \in {"run", "writing", "ok"} /\ f \notin ToSet(box[n].todo)

OfThesePolygons(sources) ==
  sources \subseteq disk["polys_json"].sources \cup disk["anchors"].sources \cup {<<8, ingest>>}

(* Unless the wipe was cut off, stage 8 starts from no trees, and writes    *)
(* trees of the polygons on disk.                                           *)
NpzInv ==
  /\ At(8, "wait") => 8 \notin knobs.skip
  /\ (clean /\ Wiped /\ 8 \notin knobs.skip /\ At(8, "check")) => disk["npz"] = Missing
  /\ (clean /\ Wiped /\ At(8, "wait")) =>
       /\ box[8].at = "started" => disk["npz"] = Missing
       /\ box[8].at \in {"run", "writing", "ok"} => OfThesePolygons(disk["npz"].sources)
       /\ Working(8) => OfThesePolygons(box[8].in.sources) /\ box[8].in.state = "whole"
       /\ Done(8, "npz") => disk["npz"].state = "whole"

(* The file a stage is dated by.                                            *)
DatedBy(n) == <<"npz", "city_graph", "v2c", "v2d">>[n - 7]
Late == 8..11

(* What the late stages of a rebuild that skips none have written is whole, *)
(* and the next one is due.                                                 *)
AllWhole(n) == \A f \in Outputs(n) : disk[f].state = "whole"
Making(n) ==
  /\ Working(n) => box[n].in.state = "whole"
  /\ \A f \in Outputs(n) : Done(n, f) => disk[f].state = "whole"
  /\ (n < 11 /\ Done(n, DatedBy(n))) => ~Check(n + 1)
WholeInv ==
  (Live /\ knobs.skip = {} /\ Wiped) =>
    /\ \A n \in Late : script.stage > n => AllWhole(n)
    /\ \A n \in Late : At(n, "wait") => Making(n)
    /\ \A n \in 9..11 : (script.stage = n /\ script.phase # "wait") => ~Check(n)
    /\ script.stage > 12 => link

ServedInv ==
  (((Live /\ script.stage = 14) \/ Completed) /\ knobs.skip = {} /\ Wiped) =>
     api.up /\ api.serves.state = "whole"

-----------------------------------------------------------------------------
(* A full rebuild.                                                          *)
New(sources) == sources \subseteq ((0..11) \X {ingest}) \cup disk["candidates"].sources

Renewing(n) ==
  /\ box[n].at \in {"started", "run", "writing"} => box[n].fresh
  /\ Working(n) => New(box[n].in.sources)
  /\ \A f \in Outputs(n) : Done(n, f) => New(disk[f].sources)
NewInv ==
  (Live /\ Full /\ Wiped) =>
    /\ \A f \in Produced(script.stage - 1) : New(disk[f].sources)
    /\ \A n \in Stage : At(n, "wait") => Renewing(n)
    /\ script.stage = 14 => New(api.serves.sources)

NewServed == (FullyRebuilt /\ Wiped) => New(api.serves.sources)

-----------------------------------------------------------------------------
(* Sequences of files.                                                      *)
LEMMA TailFacts ==
  ASSUME NEW S, NEW s \in Seq(S), s # <<>>
  PROVE  /\ Head(s) \in S /\ Tail(s) \in Seq(S)
         /\ ToSet(s) = {Head(s)} \cup ToSet(Tail(s))
<1>1. Head(s) \in S /\ Tail(s) \in Seq(S) /\ Len(s) \in Nat \ {0} /\ Len(Tail(s)) = Len(s) - 1
  OBVIOUS
<1>2. /\ DOMAIN s = 1..Len(s) /\ DOMAIN Tail(s) = 1..(Len(s) - 1)
      /\ \A i \in 1..(Len(s) - 1) : Tail(s)[i] = s[i + 1]
  BY <1>1
<1>3. \A i \in 1..Len(s) : s[i] \in {Head(s)} \cup ToSet(Tail(s))
  <2> SUFFICES ASSUME NEW i \in 1..Len(s), i # 1 PROVE s[i] \in ToSet(Tail(s))
    BY <1>1
  <2>1. i - 1 \in 1..(Len(s) - 1) /\ Tail(s)[i - 1] = s[i]
    BY <1>1, <1>2
  <2> QED
    BY <2>1, <1>2 DEF ToSet
<1>4. Head(s) \in ToSet(s)
  BY <1>1, <1>2 DEF ToSet
<1>5. ToSet(Tail(s)) \subseteq ToSet(s)
  <2> SUFFICES ASSUME NEW i \in 1..(Len(s) - 1) PROVE Tail(s)[i] \in ToSet(s)
    BY <1>2 DEF ToSet
  <2>1. i + 1 \in 1..Len(s) /\ Tail(s)[i] = s[i + 1]
    BY <1>1, <1>2
  <2> QED
    BY <2>1, <1>2 DEF ToSet
<1> QED
  BY <1>1, <1>2, <1>3, <1>4, <1>5 DEF ToSet

(* Nothing is in the empty tuple.                                           *)
LEMMA EmptyHasNone == ToSet(<<>>) = {}
BY DEF ToSet

(* What is in a tuple of one,                                               *)
LEMMA Tuple1 ==
  ASSUME NEW a
  PROVE  <<a>> \in Seq({a}) /\ ToSet(<<a>>) = {a}
BY DEF ToSet

(* of two,                                                                  *)
LEMMA Tuple2 ==
  ASSUME NEW a, NEW b
  PROVE  <<a, b>> \in Seq({a, b}) /\ ToSet(<<a, b>>) = {a, b}
BY DEF ToSet

(* of three                                                                 *)
LEMMA Tuple3 ==
  ASSUME NEW a, NEW b, NEW c
  PROVE  <<a, b, c>> \in Seq({a, b, c}) /\ ToSet(<<a, b, c>>) = {a, b, c}
BY DEF ToSet

(* and of four.                                                             *)
LEMMA Tuple4 ==
  ASSUME NEW a, NEW b, NEW c, NEW d
  PROVE  <<a, b, c, d>> \in Seq({a, b, c, d}) /\ ToSet(<<a, b, c, d>>) = {a, b, c, d}
<1>1. DOMAIN <<a, b, c, d>> = {1, 2, 3, 4}
  OBVIOUS
<1>2. ToSet(<<a, b, c, d>>) = {a, b, c, d}
  BY <1>1 DEF ToSet
<1> QED
  BY <1>2

(* Stage 5's outputs: the graph, then what follows it.                      *)
LEMMA OneAndThree ==
  ASSUME NEW a, NEW b, NEW c, NEW d
  PROVE  <<a>> \o <<b, c, d>> = <<a, b, c, d>>
<1> DEFINE s == <<a>> \o <<b, c, d>>
           t == <<a, b, c, d>>
<1>1. s \in Seq({a, b, c, d}) /\ t \in Seq({a, b, c, d})
  OBVIOUS
<1>2. Len(s) = 4 /\ Len(t) = 4
  OBVIOUS
<1>3. s[1] = a /\ s[2] = b /\ s[3] = c /\ s[4] = d
  OBVIOUS
<1>4. t[1] = a /\ t[2] = b /\ t[3] = c /\ t[4] = d
  OBVIOUS
<1>5. s = t
  <2> HIDE DEF s, t
  <2> QED
    BY <1>1, <1>2, <1>3, <1>4, SeqEqual
<1> QED
  BY <1>5

(* A sequence over a set is one over a greater set.                         *)
LEMMA SeqGrows ==
  ASSUME NEW S, NEW T, S \subseteq T, NEW s \in Seq(S)
  PROVE  s \in Seq(T)
OBVIOUS

(* What each script writes.                                                 *)
LEMMA Writes ==
  ASSUME NEW n \in Stage
  PROVE  /\ Script(n).writes \in Seq(Outputs(n))
         /\ ToSet(Script(n).writes) \subseteq Outputs(n)
         /\ \A f \in Outputs(n) \ ToSet(Script(n).writes) : f = "candidates" /\ HasTime(f)
         /\ "candidates" \in ToSet(Script(n).writes) => ~HasTime("candidates")
<1>1. CASE n = 1
  <2>1. Script(n).writes = <<"paved">> /\ Outputs(n) = {"paved"}
    BY <1>1 DEF Script, Outputs, BuildPaved
  <2> QED
    BY <2>1, Tuple1
<1>2. CASE n = 2
  <2>1. Script(n).writes = <<"sea">> /\ Outputs(n) = {"sea"}
    BY <1>2 DEF Script, Outputs, ClassifyPiers
  <2> QED
    BY <2>1, Tuple1
<1>3. CASE n = 3
  <2>1. Script(n).writes = <<"anchors">> /\ Outputs(n) = {"anchors"}
    BY <1>3 DEF Script, Outputs, SelectAnchors
  <2> QED
    BY <2>1, Tuple1
<1>4. CASE n = 4
  <2>1. /\ Script(n).writes = <<"graph", "graph_geo", "anchors">>
        /\ Outputs(n) = {"graph", "graph_geo", "anchors"}
    BY <1>4 DEF Script, Outputs, ChainLand
  <2> QED
    BY <2>1, Tuple3
<1>5. CASE n = 5
  <2>1. /\ Script(n).writes = <<"ferry_edges", "graph", "graph_geo">>
        /\ Outputs(n) = {"ferry_edges", "graph", "graph_geo"}
    BY <1>5 DEF Script, Outputs, ChainFerry
  <2> QED
    BY <2>1, Tuple3
<1>6. CASE n = 6
  <2>1. Outputs(n) = {"candidates", "graph", "graph_geo", "orphans"}
    BY <1>6 DEF Outputs
  <2>2. Script(n).writes = (IF HasTime("candidates") THEN <<>> ELSE <<"candidates">>)
                           \o <<"graph", "graph_geo", "orphans">>
    BY <1>6 DEF Script, ChainProximity
  <2>3. CASE HasTime("candidates")
    <3>1. Script(n).writes = <<"graph", "graph_geo", "orphans">>
      BY <2>2, <2>3
    <3>2. /\ Script(n).writes \in Seq({"graph", "graph_geo", "orphans"})
          /\ ToSet(Script(n).writes) = {"graph", "graph_geo", "orphans"}
      BY <3>1, Tuple3
    <3>3. Script(n).writes \in Seq(Outputs(n))
      BY <2>1, <3>2, SeqGrows
    <3> QED
      BY <2>1, <2>3, <3>2, <3>3
  <2>4. CASE ~HasTime("candidates")
    <3>1. Script(n).writes = <<"candidates", "graph", "graph_geo", "orphans">>
      BY <2>2, <2>4, OneAndThree
    <3>2. Script(n).writes \in Seq(Outputs(n)) /\ ToSet(Script(n).writes) = Outputs(n)
      BY <2>1, <3>1, Tuple4
    <3> QED
      BY <2>4, <3>2
  <2> QED
    BY <2>3, <2>4
<1>7. CASE n = 7
  <2>1. Script(n).writes = <<"polys_json", "polys">> /\ Outputs(n) = {"polys_json", "polys"}
    BY <1>7 DEF Script, Outputs, AnchorPolys
  <2> QED
    BY <2>1, Tuple2
<1>8. CASE n = 8
  <2>1. Script(n).writes = <<"npz">> /\ Outputs(n) = {"npz"}
    BY <1>8 DEF Script, Outputs, SptPolygon
  <2> QED
    BY <2>1, Tuple1
<1>9. CASE n = 9
  <2>1. Script(n).writes = <<"cities", "city_graph">> /\ Outputs(n) = {"cities", "city_graph"}
    BY <1>9 DEF Script, Outputs, AdaptPaired
  <2> QED
    BY <2>1, Tuple2
<1>10. CASE n = 10
  <2>1. Script(n).writes = <<"v2c">> /\ Outputs(n) = {"v2c"}
    BY <1>10 DEF Script, Outputs, BuildPaired
  <2> QED
    BY <2>1, Tuple1
<1>11. CASE n = 11
  <2>1. Script(n).writes = <<"v2d">> /\ Outputs(n) = {"v2d"}
    BY <1>11 DEF Script, Outputs, Prune
  <2> QED
    BY <2>1, Tuple1
<1> QED
  BY <1>1, <1>2, <1>3, <1>4, <1>5, <1>6, <1>7, <1>8, <1>9, <1>10, <1>11 DEF Stage

(* What each script reads.                                                  *)
LEMMA Reads ==
  ASSUME NEW n \in Stage
  PROVE  /\ Script(n).reads \subseteq Produced(n - 1) \cup {"piers", "candidates"}
         /\ Script(n).reads \subseteq File
         /\ n <= 8 => Script(n).reads \subseteq Ground
<1>1. Outputs(1) = {"paved"} /\ Outputs(2) = {"sea"} /\ Outputs(3) = {"anchors"}
  BY DEF Outputs
<1>2. /\ Outputs(4) = {"graph", "graph_geo", "anchors"}
      /\ Outputs(5) = {"ferry_edges", "graph", "graph_geo"}
      /\ Outputs(7) = {"polys_json", "polys"}
  BY DEF Outputs
<1>3. /\ Outputs(8) = {"npz"} /\ Outputs(9) = {"cities", "city_graph"}
      /\ Outputs(10) = {"v2c"}
  BY DEF Outputs
<1>4. \A m \in Stage : m <= n - 1 => Outputs(m) \subseteq Produced(n - 1)
  BY DEF Produced
<1> USE <1>1, <1>2, <1>3, <1>4 DEF Stage, File, Ground
<1>5. CASE n \in {1, 2, 3}
  BY <1>5 DEF Script, BuildPaved, ClassifyPiers, SelectAnchors
<1>6. CASE n = 4
  BY <1>6 DEF Script, ChainLand
<1>7. CASE n = 5
  BY <1>7 DEF Script, ChainFerry
<1>8. CASE n = 6
  BY <1>8 DEF Script, ChainProximity
<1>9. CASE n = 7
  BY <1>9 DEF Script, AnchorPolys
<1>10. CASE n = 8
  BY <1>10 DEF Script, SptPolygon
<1>11. CASE n = 9
  BY <1>11 DEF Script, AdaptPaired
<1>12. CASE n = 10
  BY <1>12 DEF Script, BuildPaired
<1>13. CASE n = 11
  BY <1>13 DEF Script, Prune
<1> QED
  BY <1>5, <1>6, <1>7, <1>8, <1>9, <1>10, <1>11, <1>12, <1>13

(* A stage writes files.                                                    *)
LEMMA OutputsAreFiles ==
  ASSUME NEW n \in Stage
  PROVE  Outputs(n) \subseteq File
BY DEF Stage, Outputs, File

-----------------------------------------------------------------------------
(* The type invariant, with where the script can be.                        *)
LEMMA ComputedSources ==
  ASSUME NEW n \in Stage, NEW source \in Computed(n).sources
  PROVE  /\ source \in Source
         /\ (\E f \in Script(n).reads : source \in disk[f].sources) \/ source = <<n, ingest>>
BY DEF Computed

(* What a stage computes is a content.                                      *)
LEMMA ComputedType ==
  ASSUME TypeOK, NEW n \in Stage
  PROVE  Computed(n) \in Content
<1>4. Computed(n).sources \in SUBSET Source
  BY ComputedSources
<1>5. Computed(n).ferries \in BOOLEAN /\ Computed(n).state \in State
  BY DEF Computed, State
<1>6. Computed(n) = [sources |-> Computed(n).sources, ferries |-> Computed(n).ferries,
                     state |-> Computed(n).state]
  BY DEF Computed
<1> QED
  BY <1>4, <1>5, <1>6 DEF Content

(* So is what it closes or leaves torn.                                     *)
LEMMA KeptType ==
  ASSUME TypeOK, NEW n \in Stage, NEW f \in File
  PROVE  /\ Result(f, box[n]) \in Content
         /\ Unfinished(f, box[n]) \in Content
<1>1. box[n].in \in Content /\ disk[f] \in Content
  BY DEF TypeOK
<1>2. Kept(f, box[n].fresh) \subseteq Source
  BY <1>1 DEF Kept, Content
<1>3. Result(f, box[n]) \in Content
  BY <1>1, <1>2 DEF Result, Content
<1> QED
  BY <1>1, <1>3 DEF Unfinished, Content, State

(* A write orders files.                                                    *)
LEMMA TouchType ==
  ASSUME TypeOK, NEW f \in File
  PROVE  Touch(f) \subseteq File \X File
BY DEF TypeOK, Touch

(* The first state is well-typed.                                           *)
LEMMA InitTyped == Init => Typed
<1> SUFFICES ASSUME Init PROVE Typed
  OBVIOUS
<1>1. Missing \in Content
  BY DEF Missing, Content, State
<1>2. [sources |-> {<<0, 1>>}, ferries |-> FALSE, state |-> "whole"] \in Content
  BY RebuildAssumption DEF Content, State, Source
<1>3. disk \in [File -> Content] /\ web \in [WebFile -> Content]
  BY <1>1, <1>2 DEF Init
<1>4. box \in [Stage -> [at : {"off", "started", "run", "writing", "ok", "failed"},
                        todo : Seq(File), in : Content, fresh : BOOLEAN]]
  BY <1>1 DEF Init, Off
<1>5. order \subseteq File \X File
  BY DEF Init, File
<1> QED
  <2>1. ingest \in 1..MaxIngests /\ runs \in 0..MaxRuns /\ mishaps \in 0..MaxMishaps
    BY RebuildAssumption DEF Init
  <2>2. /\ script \in [stage : 0..14, phase : {"idle", "prepare", "check", "wait"}]
        /\ knobs \in [resume : BOOLEAN, fresh : BOOLEAN, force : SUBSET (1..14), skip : SUBSET (1..14)]
        /\ api \in [up : BOOLEAN, serves : Content]
    BY <1>1 DEF Init
  <2>3. TypeOK
    BY <1>3, <1>4, <1>5, <2>1, <2>2 DEF Init, TypeOK
  <2>4. Shape
    BY DEF Init, Shape, Idle, At, Off
  <2> QED
    BY <2>3, <2>4 DEF Typed

(* A step of a container keeps types.                                       *)
LEMMA ContainerTyped ==
  ASSUME Typed, NEW n \in Stage, Container(n)
  PROVE  Typed'
<1> DEFINE Boxes == [at : {"off", "started", "run", "writing", "ok", "failed"},
                     todo : Seq(File), in : Content, fresh : BOOLEAN]
<1>1. box \in [Stage -> Boxes] /\ box[n] \in Boxes
  BY DEF Typed, TypeOK
<1>0. \A m \in Stage : box[m].at = "writing" => box[m].todo # <<>>
  BY DEF Typed, Shape
<1>2. /\ box' \in [Stage -> Boxes] /\ \A m \in Stage : box[m].at # "off" => box'[m].at # "off"
      /\ \A m \in Stage : box'[m].at = "writing" => box'[m].todo # <<>>
      /\ disk' \in [File -> Content] /\ order' \subseteq File \X File
      /\ mishaps' \in 0..MaxMishaps /\ UNCHANGED <<ingest, link, script_vars>>
  <2>1. CASE ReadInputs(n)
    <3>1. Script(n).writes \in Seq(File)
      BY Writes, OutputsAreFiles, SeqGrows
    <3>2. Computed(n) \in Content
      BY ComputedType DEF Typed
    <3> QED
      BY <1>0, <1>1, <2>1, <3>1, <3>2 DEF ReadInputs, Typed, TypeOK, files
  <2>2. CASE OpenOutput(n)
    <3>1. Head(box[n].todo) \in File
      BY <1>0, <1>1, <2>2, TailFacts DEF OpenOutput
    <3>2. Unfinished(Head(box[n].todo), box[n]) \in Content
      BY <3>1, KeptType DEF Typed
    <3>3. order' \subseteq File \X File
      BY <2>2, <3>1, TouchType DEF OpenOutput, Typed, TypeOK
    <3> QED
      BY <1>0, <1>1, <2>2, <3>1, <3>2, <3>3 DEF OpenOutput, Typed, TypeOK
  <2>3. CASE CloseOutput(n)
    <3>0. box[n].todo # <<>>
      BY <2>3 DEF CloseOutput, Typed, Shape
    <3>1. Head(box[n].todo) \in File /\ Tail(box[n].todo) \in Seq(File)
      BY <1>1, <3>0, TailFacts
    <3>2. Result(Head(box[n].todo), box[n]) \in Content
      BY <3>1, KeptType DEF Typed
    <3>3. order' \subseteq File \X File
      BY <2>3, <3>1, TouchType DEF CloseOutput, Typed
    <3>4. box' = [box EXCEPT ![n] = [@ EXCEPT !.at = "run", !.todo = Tail(box[n].todo)]]
      BY <2>3, <1>1 DEF CloseOutput
    <3>5. box' \in [Stage -> Boxes] /\ \A m \in Stage : m # n => box'[m] = box[m]
      BY <1>1, <3>1, <3>4
    <3>6. box'[n].at = "run"
      BY <1>1, <3>4
    <3>7. disk' \in [File -> Content]
      BY <2>3, <3>1, <3>2 DEF CloseOutput, Typed, TypeOK
    <3> QED
      <4>1. /\ \A m \in Stage : box[m].at # "off" => box'[m].at # "off"
            /\ \A m \in Stage : box'[m].at = "writing" => box'[m].todo # <<>>
        BY <1>0, <3>5, <3>6
      <4>2. mishaps' \in 0..MaxMishaps /\ UNCHANGED <<ingest, link, script_vars>>
        BY <2>3 DEF CloseOutput, Typed, TypeOK
      <4> QED
        BY <3>3, <3>5, <3>7, <4>1, <4>2
  <2>4. CASE Exit(n)
    BY <1>0, <1>1, <2>4 DEF Exit, Typed, TypeOK, files
  <2>5. CASE Dies(n)
    <3>1. mishaps' \in 0..MaxMishaps
      BY <2>5, RebuildAssumption DEF Dies, Typed, TypeOK
    <3>2. /\ disk' \in [File -> Content] /\ order' \subseteq File \X File
          /\ UNCHANGED <<ingest, link, script_vars>>
      BY <2>5 DEF Dies, Typed, TypeOK, files
    <3> QED
      BY <1>0, <1>1, <2>5, <3>1, <3>2 DEF Dies
  <2> QED
    BY <2>1, <2>2, <2>3, <2>4, <2>5 DEF Container
<1>3. TypeOK'
  BY <1>2 DEF Typed, TypeOK, script_vars
<1>4. Shape'
  BY <1>2 DEF Typed, Shape, script_vars, Idle, At
<1> QED
  BY <1>3, <1>4 DEF Typed

(* Where the script goes, and what it may leave to the dashboard.           *)
LEMMA PublishType ==
  ASSUME TypeOK, Publish
  PROVE  web' \in [WebFile -> Content]
BY DEF TypeOK, Publish, WebFile, File

(* Going on to the next stage keeps the script's shape.                     *)
LEMMA NextStageShape ==
  ASSUME NEW n \in 1..13, NextStage(n),
         \A m \in Stage : box'[m].at = "writing" => box'[m].todo # <<>>
  PROVE  /\ Shape'
         /\ script' \in [stage : 0..14, phase : {"idle", "prepare", "check", "wait"}]
<1>1. script' = [stage |-> n + 1, phase |-> IF n + 1 \in {8, 11} THEN "prepare" ELSE "check"]
  BY DEF NextStage, Goto
<1>2. n + 1 \in 1..14
  OBVIOUS
<1>3. CASE n + 1 \in {8, 11}
  BY <1>1, <1>2, <1>3 DEF Shape, At, Idle
<1>4. CASE n + 1 \notin {8, 11}
  BY <1>1, <1>2, <1>4 DEF Shape, At, Idle
<1> QED
  BY <1>3, <1>4

(* A look at a stage keeps types.                                           *)
LEMMA LookTyped ==
  ASSUME Typed, NEW n \in 1..14, NEW phase \in {"prepare", "check"}, At(n, phase),
         NotCurrent(n) \/ FoundCurrent(n)
  PROVE  cut' \subseteq (1..14) \X {"prepare", "check"} /\ mishaps' \in 0..MaxMishaps
<1>1. CASE UNCHANGED <<cut, mishaps>>
  BY <1>1 DEF Typed, TypeOK
<1>2. CASE LookCutOff(n)
  <2>1. cut' = cut \cup {<<n, phase>>} /\ mishaps < MaxMishaps /\ mishaps' = mishaps + 1
    BY <1>2 DEF LookCutOff, At
  <2> QED
    BY <2>1, RebuildAssumption DEF Typed, TypeOK
<1> QED
  BY <1>1, <1>2 DEF NotCurrent, FoundCurrent

(* A container that does not exist is a container.                          *)
LEMMA OffType ==
  ASSUME TypeOK
  PROVE  Off \in [at : {"off", "started", "run", "writing", "ok", "failed"},
                  todo : Seq(File), in : Content, fresh : BOOLEAN]
<1>1. Missing \in Content
  BY DEF Missing, Content, State
<1> QED
  BY <1>1 DEF Off

(* The script's step at a stage keeps types.                                *)
LEMMA StageCallTyped ==
  ASSUME Typed, NEW n \in Stage, StageCall(n)
  PROVE  Typed'
<1>0. \A m \in Stage : box[m].at = "writing" => box[m].todo # <<>>
  BY DEF Typed, Shape
<1>1. CASE Skip(n)
  <2>1. n \in 1..13 /\ NextStage(n) /\ UNCHANGED box
    BY <1>1 DEF Skip, Stage
  <2>2. Shape' /\ script' \in [stage : 0..14, phase : {"idle", "prepare", "check", "wait"}]
    BY <1>0, <2>1, NextStageShape
  <2>3. TypeOK'
    BY <1>1, <2>2 DEF Skip, Typed, TypeOK, files, bounds
  <2> QED
    BY <2>2, <2>3 DEF Typed
<1>2. CASE Launch(n)
  <2>1. knobs.fresh \in BOOLEAN
    BY DEF Typed, TypeOK
  <2>2. box' \in [Stage -> [at : {"off", "started", "run", "writing", "ok", "failed"},
                            todo : Seq(File), in : Content, fresh : BOOLEAN]]
    <3>1. [Off EXCEPT !.at = "started", !.fresh = knobs.fresh]
            \in [at : {"off", "started", "run", "writing", "ok", "failed"},
                 todo : Seq(File), in : Content, fresh : BOOLEAN]
      BY <2>1, OffType DEF Typed
    <3> QED
      BY <1>2, <3>1 DEF Launch, Typed, TypeOK
  <2>3. /\ box'[n].at = "started" /\ \A m \in Stage : m # n => box'[m] = box[m]
        /\ script' = [stage |-> n, phase |-> "wait"]
    BY <1>2 DEF Launch, Goto, Off, Typed, TypeOK
  <2>4. TypeOK'
    <3>1. script' \in [stage : 0..14, phase : {"idle", "prepare", "check", "wait"}]
      BY <2>3 DEF Stage
    <3>2. cut' \subseteq (1..14) \X {"prepare", "check"} /\ mishaps' \in 0..MaxMishaps
      BY <1>2, LookTyped DEF Launch, Stage
    <3> QED
      BY <1>2, <2>2, <3>1, <3>2 DEF Launch, Typed, TypeOK, files
  <2>5. Shape'
    BY <1>0, <2>3 DEF Shape, At
  <2> QED
    BY <2>4, <2>5 DEF Typed
<1>3. CASE NameTaken(n)
  <2>1. cut' \subseteq (1..14) \X {"prepare", "check"} /\ mishaps' \in 0..MaxMishaps
    BY <1>3, LookTyped DEF NameTaken, Stage
  <2>2. TypeOK'
    BY <1>3, <2>1, PublishType DEF NameTaken, End, Typed, TypeOK, files, Goto
  <2>3. Shape'
    BY <1>0, <1>3 DEF NameTaken, End, Shape, Goto, Idle, At
  <2> QED
    BY <2>2, <2>3 DEF Typed
<1>4. CASE StageOk(n)
  <2>1. /\ box' \in [Stage -> [at : {"off", "started", "run", "writing", "ok", "failed"},
                                todo : Seq(File), in : Content, fresh : BOOLEAN]]
        /\ \A m \in Stage : m # n => box'[m] = box[m]
        /\ box'[n].at = "off"
    BY <1>4, OffType DEF StageOk, Typed, TypeOK, Off
  <2>2. Shape' /\ script' \in [stage : 0..14, phase : {"idle", "prepare", "check", "wait"}]
    <3>1. n \in 1..13 /\ NextStage(n)
      BY <1>4 DEF StageOk, Stage
    <3> QED
      BY <1>0, <2>1, <3>1, NextStageShape
  <2>3. TypeOK'
    BY <1>4, <2>1, <2>2, PublishType DEF StageOk, Typed, TypeOK, files, bounds
  <2> QED
    BY <2>2, <2>3 DEF Typed
<1>5. CASE StageFails(n)
  BY <1>5, PublishType DEF StageFails, Off, Missing, Content, State, End, Typed, TypeOK, Shape, files, run, Goto, Idle, At
<1> QED
  BY <1>1, <1>2, <1>3, <1>4, <1>5 DEF StageCall

(* So do the stages the script runs itself.                                 *)
LEMMA NativeTyped ==
  ASSUME Typed, Native
  PROVE  Typed'
<1>1. CASE WipeNpz
  <2>1. Missing \in Content /\ "npz" \in File
    BY DEF Missing, Content, State, File
  <2>2. disk' \in [File -> Content]
    BY <1>1, <2>1 DEF WipeNpz, Typed, TypeOK, files
  <2>3. order' \subseteq File \X File
    BY <1>1, <2>1, TouchType DEF WipeNpz, Typed, TypeOK, files
  <2>4. TypeOK'
    BY <1>1, <2>2, <2>3 DEF WipeNpz, Typed, TypeOK, bounds, Goto
  <2>5. Shape'
    BY <1>1 DEF WipeNpz, Typed, Shape, Goto, At
  <2> QED
    BY <2>4, <2>5 DEF Typed
<1>2. CASE StopApi
  <2>1. api' \in [up : BOOLEAN, serves : Content]
    BY <1>2 DEF StopApi, Typed, TypeOK
  <2>2. cut' \subseteq (1..14) \X {"prepare", "check"} /\ mishaps' \in 0..MaxMishaps
    BY <1>2, LookTyped DEF StopApi
  <2>3. TypeOK'
    BY <1>2, <2>1, <2>2 DEF StopApi, Typed, TypeOK, files, Goto
  <2>4. Shape'
    BY <1>2 DEF StopApi, Typed, Shape, Goto, At
  <2> QED
    BY <2>3, <2>4 DEF Typed
<1>3. CASE Symlink
  <2>1. cut' \subseteq (1..14) \X {"prepare", "check"} /\ mishaps' \in 0..MaxMishaps
    BY <1>3, LookTyped DEF Symlink
  <2>2. link' \in BOOLEAN
    BY <1>3 DEF Symlink, Typed, TypeOK
  <2>3. TypeOK'
    BY <1>3, <2>1, <2>2 DEF Symlink, Typed, TypeOK, files, NextStage, Goto
  <2>4. Shape'
    BY <1>3 DEF Symlink, Typed, Shape, NextStage, Goto, At
  <2> QED
    BY <2>3, <2>4 DEF Typed
<1>7. CASE WipeCutOff
  <2>1. disk["npz"] \in Content /\ "npz" \in File
    BY DEF Typed, TypeOK, File
  <2>2. \A s \in {"torn", "partial"} : [disk["npz"] EXCEPT !.state = s] \in Content
    BY <2>1 DEF Content, State
  <2>3. disk' \in [File -> Content]
    BY <1>7, <2>2 DEF WipeCutOff, Typed, TypeOK, files
  <2>4. order' \subseteq File \X File
    BY <1>7, <2>1, TouchType DEF WipeCutOff, Typed, TypeOK, files
  <2>5. cut' \subseteq (1..14) \X {"prepare", "check"} /\ mishaps' \in 0..MaxMishaps
    BY <1>7, RebuildAssumption DEF WipeCutOff, Typed, TypeOK
  <2>6. TypeOK'
    BY <1>7, <2>3, <2>4, <2>5 DEF WipeCutOff, Typed, TypeOK, Goto
  <2>7. Shape'
    BY <1>7 DEF WipeCutOff, Typed, Shape, Goto, At
  <2> QED
    BY <2>6, <2>7 DEF Typed
<1>4. CASE ApiRestart
  BY <1>4 DEF ApiRestart, Missing, Content, State, Typed, TypeOK, Shape, File, files, bounds, NextStage, Goto, At
<1>5. CASE VerifyOk
  BY <1>5, PublishType DEF VerifyOk, End, Typed, TypeOK, Shape, files, run, Goto, Idle, At
<1>6. CASE VerifyFails
  BY <1>6, PublishType DEF VerifyFails, End, Typed, TypeOK, Shape, files, run, Goto, Idle, At
<1> QED
  BY <1>1, <1>2, <1>3, <1>4, <1>5, <1>6, <1>7 DEF Native

(* Every step keeps types.                                                  *)
LEMMA NextTyped == Typed /\ [Next]_vars => Typed'
<1> SUFFICES ASSUME Typed, [Next]_vars PROVE Typed'
  OBVIOUS
<1>1. ASSUME NEW k \in KnobSets, Start(k) PROVE Typed'
  BY <1>1, PublishType, RebuildAssumption DEF Start, Typed, TypeOK, Shape, files, Goto, Idle, At
<1>2. CASE \E n \in Stage : StageCall(n) \/ Container(n)
  BY <1>2, ContainerTyped, StageCallTyped
<1>3. CASE Native
  BY <1>3, NativeTyped
<1>4. CASE Interrupted
  <2>1. mishaps' \in 0..MaxMishaps
    BY <1>4, RebuildAssumption DEF Interrupted, Typed, TypeOK
  <2>2. TypeOK'
    BY <1>4, <2>1, PublishType DEF Interrupted, End, Typed, TypeOK, files, run, Goto
  <2>3. Shape'
    BY <1>4 DEF Interrupted, End, Typed, Shape, Goto, Idle, At
  <2> QED
    BY <2>2, <2>3 DEF Typed
<1>5. CASE Ingest
  <2>1. ingest' \in 1..MaxIngests
    BY <1>5, RebuildAssumption DEF Ingest, Typed, TypeOK
  <2>2. [sources |-> {<<0, ingest'>>}, ferries |-> FALSE, state |-> "whole"] \in Content
    BY <2>1 DEF Content, State, Source
  <2>3. disk' \in [File -> Content] /\ order' \subseteq File \X File
    BY <1>5, <2>2, TouchType DEF Ingest, Typed, TypeOK, File
  <2>4. TypeOK'
    BY <1>5, <2>1, <2>3 DEF Ingest, Typed, TypeOK, run
  <2>5. Shape'
    BY <1>5 DEF Ingest, Typed, Shape, Idle, At
  <2> QED
    BY <2>4, <2>5 DEF Typed
<1>6. CASE UNCHANGED vars
  BY <1>6 DEF vars, Typed, TypeOK, Shape, Idle, At
<1> QED
  BY <1>1, <1>2, <1>3, <1>4, <1>5, <1>6 DEF Next

-----------------------------------------------------------------------------
(* Modification times.                                                      *)
LEMMA TouchTimes ==
  ASSUME Typed, NEW f \in File, order' = Touch(f)
  PROVE  /\ \A g \in File : HasTime(g)' <=> (HasTime(g) \/ g = f)
         /\ \A g, h \in File : g # f /\ h # f => (Older(g, h)' <=> Older(g, h))
         /\ \A g \in File : g # f => (Older(g, f)' <=> HasTime(g))
         /\ \A g \in File : ~Older(f, g)'
BY DEF Touch, HasTime, Older, Typed, TypeOK

(* One write of a container: a file of its stage is begun or finished.      *)
Output(n, f) ==
  /\ f \in Outputs(n) /\ f \in ToSet(box[n].todo)
  /\ Working(n) /\ Working(n)'
  /\ \A m \in Stage : m # n => box'[m] = box[m]
  /\ box'[n].in = box[n].in /\ box'[n].fresh = box[n].fresh
  /\ ToSet(box'[n].todo) \subseteq ToSet(box[n].todo)
  /\ ToSet(box[n].todo) \subseteq {f} \cup ToSet(box'[n].todo)
  /\ \A g \in File : g # f => disk'[g] = disk[g]
  /\ disk'[f] \in {Result(f, box[n]), Unfinished(f, box[n])}
  /\ order' = Touch(f) \/ (order' = order /\ disk' = disk)
  /\ f \notin ToSet(box'[n].todo) => disk'[f] = Result(f, box[n]) /\ order' = Touch(f)
  /\ UNCHANGED <<ingest, link, script_vars, mishaps>>

(* Opening or closing an output writes one file of the stage.               *)
LEMMA OutputStep ==
  ASSUME Typed, WorkInv, NEW n \in Stage, OpenOutput(n) \/ CloseOutput(n)
  PROVE  \E f \in File : Output(n, f)
<1> DEFINE f == Head(box[n].todo)
<1>1. box[n].todo \in Seq(File) /\ box[n].todo # <<>> /\ Working(n)
  BY DEF Typed, TypeOK, Shape, OpenOutput, CloseOutput, Working
<1>2. /\ f \in File /\ Tail(box[n].todo) \in Seq(File)
      /\ ToSet(box[n].todo) = {f} \cup ToSet(Tail(box[n].todo))
  BY <1>1, TailFacts
<1>3. f \in Outputs(n) /\ f \in ToSet(box[n].todo)
  BY <1>1, <1>2 DEF WorkInv, Work
<1>4. CASE OpenOutput(n)
  <2>1. /\ \A m \in Stage : m # n => box'[m] = box[m]
        /\ box'[n].in = box[n].in /\ box'[n].fresh = box[n].fresh
        /\ box'[n].todo = box[n].todo /\ box'[n].at = "writing"
    BY <1>4 DEF OpenOutput, Typed, TypeOK
  <2>2. /\ \A g \in File : g # f => disk'[g] = disk[g]
        /\ disk'[f] = Unfinished(f, box[n])
        /\ disk' = [disk EXCEPT ![f] = Unfinished(f, box[n])]
    BY <1>2, <1>4 DEF OpenOutput, Typed, TypeOK
  <2>3. order' = Touch(f) \/ (order' = order /\ disk' = disk)
    <3>1. CASE f = "paved"
      <4>1. disk' = disk
        BY <1>2, <2>2, <3>1 DEF Unfinished, Typed, TypeOK
      <4> QED
        BY <1>4, <3>1, <4>1 DEF OpenOutput
    <3>2. CASE f # "paved"
      BY <1>4, <3>2 DEF OpenOutput
    <3> QED
      BY <3>1, <3>2
  <2>4. UNCHANGED <<ingest, link, script_vars, mishaps>>
    BY <1>4 DEF OpenOutput
  <2> HIDE DEF f
  <2> QED
    BY <1>1, <1>2, <1>3, <2>1, <2>2, <2>3, <2>4 DEF Output, Working
<1>5. CASE CloseOutput(n)
  <2>1. /\ \A m \in Stage : m # n => box'[m] = box[m]
        /\ box'[n].in = box[n].in /\ box'[n].fresh = box[n].fresh
        /\ box'[n].todo = Tail(box[n].todo) /\ box'[n].at = "run"
    <3>1. box' = [box EXCEPT ![n] = [@ EXCEPT !.at = "run", !.todo = Tail(box[n].todo)]]
      BY <1>5 DEF CloseOutput, Typed, TypeOK
    <3> QED
      BY <3>1 DEF Typed, TypeOK
  <2>2. /\ \A g \in File : g # f => disk'[g] = disk[g]
        /\ disk'[f] = Result(f, box[n])
    BY <1>2, <1>5 DEF CloseOutput, Typed, TypeOK
  <2>3. order' = Touch(f) /\ UNCHANGED <<ingest, link, script_vars, mishaps>>
    BY <1>5 DEF CloseOutput
  <2> HIDE DEF f
  <2> QED
    BY <1>1, <1>2, <1>3, <2>1, <2>2, <2>3 DEF Output, Working
<1> QED
  BY <1>4, <1>5

(* What is written: the sources of what was read, and for trees and trunks  *)
(* those of what was there.                                                 *)
LEMMA Written ==
  ASSUME Typed, NEW n \in Stage, NEW f \in File,
         NEW c \in {Result(f, box[n]), Unfinished(f, box[n])}
  PROVE  /\ c.sources \subseteq box[n].in.sources \cup disk[f].sources
         /\ box[n].in.sources \subseteq c.sources \/ f = "paved"
         /\ (f \notin {"paved", "npz"} /\ (f # "v2c" \/ box[n].fresh)) => c.sources = box[n].in.sources
         /\ c.state \in {box[n].in.state, disk[f].state, "torn"} \/ f \in {"npz", "v2c"}
         /\ Result(f, box[n]).state = box[n].in.state
         /\ f = "paved" => Result(f, box[n]).sources = box[n].in.sources
<1>1. box[n].in \in Content /\ disk[f] \in Content
  BY DEF Typed, TypeOK
<1>2. /\ Result(f, box[n]).sources = box[n].in.sources \cup Kept(f, box[n].fresh)
      /\ Result(f, box[n]).state = box[n].in.state
      /\ Result(f, box[n]) \in Content
  BY <1>1, KeptType DEF Result, Content, Typed
<1>3. /\ Kept(f, box[n].fresh) \subseteq disk[f].sources
      /\ (f # "npz" /\ (f # "v2c" \/ box[n].fresh)) => Kept(f, box[n].fresh) = {}
  BY DEF Kept
<1>4. f # "paved" =>
        /\ Unfinished(f, box[n]).sources = Result(f, box[n]).sources
        /\ Unfinished(f, box[n]).state = "torn" \/ f \in {"npz", "v2c"}
  BY <1>2 DEF Unfinished, Content
<1>5. f = "paved" => Unfinished(f, box[n]) = disk[f]
  BY DEF Unfinished
<1> QED
  BY <1>2, <1>3, <1>4, <1>5

-----------------------------------------------------------------------------
(* What is on disk, and what containers hold of it.                         *)
Backing == Typed /\ WorkInv /\ FileInv

(* Which stages write the files that matter below.                          *)
LEMMA OutputFacts ==
  ASSUME NEW n \in Stage
  PROVE  /\ "candidates" \in Outputs(n) => n = 6
         /\ "piers" \notin Outputs(n)
         /\ \A f \in Outputs(n) \cap Ground : n <= 7
         /\ n <= 7 => Outputs(n) \subseteq Ground
         /\ "npz" \in Outputs(n) => n = 8
         /\ Outputs(8) = {"npz"}
BY DEF Stage, Outputs, Ground

(* Reading either fails or fixes what the stage will write.                 *)
LEMMA ReadStep ==
  ASSUME NEW n \in Stage, ReadInputs(n), Typed
  PROVE  /\ box[n].at = "started"
         /\ \A m \in Stage : m # n => box'[m] = box[m]
         /\ \/ /\ box'[n].at = "failed" /\ box'[n].in = box[n].in
            \/ /\ box'[n].at = "run" /\ box'[n].in = Computed(n)
               /\ box'[n].todo = Script(n).writes /\ box'[n].fresh = box[n].fresh
               /\ \A f \in Script(n).reads : Readable(f)
         /\ UNCHANGED <<disk, order, ingest, link, script_vars, mishaps>>
BY DEF ReadInputs, Typed, TypeOK, files

(* Nothing is written, and what a container holds it held before.           *)
LEMMA BackingFrame ==
  ASSUME Backing, Typed', UNCHANGED <<disk, order, ingest>>,
         \A m \in Stage :
           \/ box'[m] = box[m]
           \/ /\ box'[m].at \in {"off", "started", "failed"}
              /\ box'[m].in.sources \subseteq box[m].in.sources
           \/ /\ box'[m].at = "ok" /\ box'[m].todo = <<>>
              /\ box'[m].in = box[m].in
  PROVE  Backing'
<1>1. WorkInv'
  BY DEF Backing, WorkInv, Work, Working
<1>2. FileInv'
  BY DEF Backing, FileInv, Dated, HasTime
<1> QED
  BY <1>1, <1>2 DEF Backing

(* A write keeps every content backed by what its stage read.               *)
LEMMA OutputBacking ==
  ASSUME Backing, Typed', NEW n \in Stage, NEW f \in File, Output(n, f)
  PROVE  Backing'
<1>1. f \in Outputs(n) /\ f # "piers"
  BY OutputFacts DEF Output
<1>2. /\ disk'[f].sources \subseteq box[n].in.sources \cup disk[f].sources
      /\ f = "candidates" => disk'[f].sources = box[n].in.sources
      /\ disk'[f].state \in {box[n].in.state, disk[f].state, "torn"} \/ f \in {"npz", "v2c"}
  BY Written DEF Output, Backing
<1>3. WorkInv'
  <2> SUFFICES ASSUME NEW m \in Stage PROVE Work(m)'
    BY DEF WorkInv
  <2>1. CASE m = n
    <3>1. Working(n) /\ Working(n)'
      BY DEF Output
    <3>2. box'[n].at # "ok"
      BY <3>1 DEF Working
    <3>3. "candidates" \in File
      BY DEF File
    <3> QED
      BY <1>2, <2>1, <3>1, <3>2, <3>3 DEF Output, Backing, WorkInv, Work
  <2>2. CASE m # n
    <3>1. box'[m] = box[m]
      BY <2>2 DEF Output
    <3>2. Working(m) => ("candidates" \in ToSet(box[m].todo) => f # "candidates")
      BY <1>1, <2>2, OutputFacts DEF Backing, WorkInv, Work
    <3>3. f # "candidates" => disk'["candidates"] = disk["candidates"]
      BY DEF Output, File
    <3> QED
      BY <3>1, <3>2, <3>3 DEF Backing, WorkInv, Work, Working
  <2> QED
    BY <2>1, <2>2
<1>4. FileInv'
  <2>1. disk'["piers"] = disk["piers"] /\ ingest' = ingest
    BY <1>1 DEF Output, File
  <2>2. ASSUME NEW g \in Ground PROVE disk'[g].state # "partial"
    <3>1. CASE g = f
      <4>1. n <= 7 /\ Working(n)
        BY <1>1, <3>1, OutputFacts DEF Output
      <4>2. box[n].in.state = "whole"
        BY <4>1 DEF Backing, WorkInv, Work, Stage
      <4>3. f \notin {"npz", "v2c"}
        BY <3>1 DEF Ground
      <4> QED
        BY <1>2, <3>1, <4>2, <4>3 DEF Backing, FileInv
    <3>2. CASE g # f
      BY <3>2 DEF Output, Backing, FileInv, File, Ground
    <3> QED
      BY <3>1, <3>2
  <2>3. \A g \in File : (~HasTime(g))' => disk'[g] = Missing
    <3>1. CASE order' = Touch(f)
      BY <3>1, TouchTimes DEF Output, Backing, FileInv
    <3>2. CASE order' = order /\ disk' = disk
      BY <3>2 DEF Backing, FileInv, HasTime
    <3> QED
      BY <3>1, <3>2 DEF Output
  <2>4. \A g \in File : Dated(disk'[g].sources)
    BY <1>2, <2>1 DEF Output, Backing, FileInv, Dated
  <2>5. \A m \in Stage : Dated(box'[m].in.sources)
    BY <2>1 DEF Output, Backing, FileInv, Dated
  <2> QED
    BY <2>1, <2>2, <2>3, <2>4, <2>5 DEF Backing, FileInv, Dated
<1> QED
  BY <1>3, <1>4 DEF Backing

(* So does reading,                                                         *)
LEMMA ReadBacking ==
  ASSUME Backing, Typed', NEW n \in Stage, ReadInputs(n)
  PROVE  Backing'
<1> USE ReadStep DEF Backing
<1>1. CASE box'[n].at = "failed"
  BY <1>1, BackingFrame
<1>2. CASE box'[n].at = "run"
  <2>1. Dated(Computed(n).sources)
    <3> SUFFICES ASSUME NEW source \in Computed(n).sources
        PROVE  source \in (0..11) \X (1..ingest)
      BY DEF Dated
    <3>1. n \in 0..11 /\ ingest \in 1..ingest
      BY DEF Typed, TypeOK, Stage
    <3> QED
      BY <3>1, ComputedSources, Reads DEF FileInv, Dated
  <2>2. n < 8 => Computed(n).state = "whole"
    <3> SUFFICES ASSUME n < 8 PROVE Computed(n).state = "whole"
      OBVIOUS
    <3>1. Script(n).reads \subseteq Ground
      <4>1. n <= 8
        BY DEF Stage
      <4> QED
        BY <4>1, Reads
    <3>2. \A f \in Script(n).reads : disk[f].state = "whole"
      BY <1>2, <3>1 DEF Readable, Ground, FileInv
    <3>3. n # 8
      BY DEF Stage
    <3>4. Computed(n).state = (CASE n = 8 /\ disk["npz"].state = "torn" -> "torn"
                                 [] \A f \in Script(n).reads : disk[f].state = "whole" -> "whole"
                                 [] OTHER -> "partial")
      BY DEF Computed
    <3> QED
      BY <3>2, <3>3, <3>4
  <2>3. "candidates" \in ToSet(Script(n).writes) => disk["candidates"].sources = {}
    BY Writes DEF FileInv, Missing, File
  <2>4. WorkInv'
    <3>1. /\ ToSet(box'[n].todo) \subseteq Outputs(n)
          /\ n < 8 => box'[n].in.state = "whole"
          /\ "candidates" \in ToSet(box'[n].todo) =>
               disk'["candidates"].sources \subseteq box'[n].in.sources
      <4>1. ToSet(Script(n).writes) \subseteq Outputs(n)
        BY Writes
      <4> QED
        BY <1>2, <2>2, <2>3, <4>1
    <3>2. box'[n].at # "ok"
      BY <1>2
    <3>3. disk' = disk /\ \A m \in Stage : m # n => box'[m] = box[m]
      OBVIOUS
    <3>4. ASSUME NEW m \in Stage PROVE Work(m)'
      <4>1. CASE m = n
        BY <3>1, <3>2, <4>1 DEF Work
      <4>2. CASE m # n
        BY <3>3, <4>2 DEF WorkInv, Work, Working
      <4> QED
        BY <4>1, <4>2
    <3> QED
      BY <3>4 DEF WorkInv
  <2>5. FileInv'
    BY <1>2, <2>1 DEF FileInv, Dated, HasTime
  <2> QED
    BY <2>4, <2>5
<1> QED
  BY <1>1, <1>2

(* so does any step of a container,                                         *)
LEMMA ContainerBacking ==
  ASSUME Backing, Typed', NEW n \in Stage, Container(n)
  PROVE  Backing'
<1>1. CASE ReadInputs(n)
  BY <1>1, ReadBacking
<1>2. CASE OpenOutput(n) \/ CloseOutput(n)
  BY <1>2, OutputStep, OutputBacking DEF Backing
<1>3. CASE Exit(n)
  BY <1>3, BackingFrame DEF Exit, files, script_vars, Backing, Typed, TypeOK
<1>4. CASE Dies(n)
  BY <1>4, BackingFrame DEF Dies, files, script_vars, Backing, Typed, TypeOK
<1> QED
  BY <1>1, <1>2, <1>3, <1>4 DEF Container

(* and the first state has it,                                              *)
LEMMA InitBacking == Init => Backing
<1> SUFFICES ASSUME Init PROVE Backing
  OBVIOUS
<1>1. Typed
  BY InitTyped
<1>2. WorkInv
  BY DEF Init, WorkInv, Work, Working, Off
<1>3. FileInv
  <2>1. Dated({}) /\ Dated({<<0, 1>>})
    BY DEF Init, Dated
  <2> QED
    BY <2>1 DEF Init, FileInv, HasTime, File, Ground, Off, Missing
<1> QED
  BY <1>1, <1>2, <1>3 DEF Backing

(* hence every step keeps it.                                               *)
LEMMA NextBacking == Backing /\ [Next]_vars => Backing'
<1> SUFFICES ASSUME Backing, [Next]_vars PROVE Backing'
  OBVIOUS
<1>0. Typed'
  BY NextTyped DEF Backing
<1>1. ASSUME NEW k \in KnobSets, Start(k) PROVE Backing'
  BY <1>0, <1>1, BackingFrame DEF Start, files
<1>2. ASSUME NEW n \in Stage, StageCall(n) PROVE Backing'
  <2>1. CASE Skip(n)
    BY <1>0, <2>1, BackingFrame DEF Skip, files
  <2>2. CASE Launch(n)
    <3>1. /\ \A m \in Stage : m # n => box'[m] = box[m]
          /\ box'[n].at = "started" /\ box'[n].in.sources = {}
          /\ UNCHANGED <<disk, order, ingest>>
      BY <2>2 DEF Launch, Off, Missing, files, Backing, Typed, TypeOK
    <3> QED
      BY <1>0, <3>1, BackingFrame
  <2>3. CASE NameTaken(n)
    BY <1>0, <2>3, BackingFrame DEF NameTaken, files
  <2>4. CASE StageOk(n) \/ StageFails(n)
    <3>1. /\ \A m \in Stage : m # n => box'[m] = box[m]
          /\ box'[n].at = "off" /\ box'[n].in.sources = {}
          /\ UNCHANGED <<disk, order, ingest>>
      BY <2>4 DEF StageOk, StageFails, Off, Missing, files, Backing, Typed, TypeOK
    <3> QED
      BY <1>0, <3>1, BackingFrame
  <2> QED
    BY <1>2, <2>1, <2>2, <2>3, <2>4 DEF StageCall
<1>3. ASSUME NEW n \in Stage, Container(n) PROVE Backing'
  BY <1>0, <1>3, ContainerBacking
<1>4. CASE Native
  <2>1. CASE WipeNpz
    <3>1. CASE UNCHANGED files
      BY <1>0, <2>1, <3>1, BackingFrame DEF WipeNpz, files
    <3>2. CASE disk' = [disk EXCEPT !["npz"] = Missing] /\ order' = Touch("npz")
      <4>1. UNCHANGED <<box, ingest>>
        BY <2>1 DEF WipeNpz
      <4>2. \A g \in File : g # "npz" => disk'[g] = disk[g]
        BY <3>2 DEF Backing, Typed, TypeOK
      <4>3. disk'["npz"] = Missing /\ "npz" \in File
        BY <3>2 DEF Backing, Typed, TypeOK, File
      <4>4. \A g \in File : (~HasTime(g))' => disk'[g] = Missing
        BY <3>2, <4>2, <4>3, TouchTimes DEF Backing, FileInv
      <4>5. WorkInv'
        BY <4>1, <4>2 DEF Backing, WorkInv, Work, Working, File
      <4>6. FileInv'
        BY <4>1, <4>2, <4>3, <4>4 DEF Backing, FileInv, Dated, File, Ground, Missing
      <4> QED
        BY <1>0, <4>5, <4>6 DEF Backing
    <3> QED
      BY <2>1, <3>1, <3>2 DEF WipeNpz
  <2>6. CASE WipeCutOff
    <3>1. CASE UNCHANGED files
      BY <1>0, <2>6, <3>1, BackingFrame DEF WipeCutOff, files
    <3>2. CASE ~UNCHANGED files
      <4>1. UNCHANGED <<box, ingest>> /\ order' = Touch("npz") /\ "npz" \in File
        BY <2>6, <3>2 DEF WipeCutOff, File
      <4>2. PICK s \in {"torn", "partial"} : disk' = [disk EXCEPT !["npz"].state = s]
        BY <2>6, <3>2 DEF WipeCutOff
      <4>3. /\ \A g \in File : g # "npz" => disk'[g] = disk[g]
            /\ disk'["npz"].sources = disk["npz"].sources
        BY <4>1, <4>2 DEF Backing, Typed, TypeOK, Content
      <4>4. \A g \in File : (~HasTime(g))' => disk'[g] = Missing
        BY <4>1, <4>3, TouchTimes DEF Backing, FileInv
      <4>5. WorkInv'
        BY <4>1, <4>3 DEF Backing, WorkInv, Work, Working, File
      <4>6. FileInv'
        BY <4>1, <4>3, <4>4 DEF Backing, FileInv, Dated, File, Ground
      <4> QED
        BY <1>0, <4>5, <4>6 DEF Backing
    <3> QED
      BY <3>1, <3>2
  <2>2. CASE StopApi
    BY <1>0, <2>2, BackingFrame DEF StopApi, files
  <2>3. CASE Symlink
    BY <1>0, <2>3, BackingFrame DEF Symlink, files
  <2>4. CASE ApiRestart
    BY <1>0, <2>4, BackingFrame DEF ApiRestart, files
  <2>5. CASE VerifyOk \/ VerifyFails
    BY <1>0, <2>5, BackingFrame DEF VerifyOk, VerifyFails, files
  <2> QED
    BY <1>4, <2>1, <2>2, <2>3, <2>4, <2>5, <2>6 DEF Native
<1>5. CASE Interrupted
  BY <1>0, <1>5, BackingFrame DEF Interrupted, files
<1>6. CASE Ingest
  <2>1. /\ UNCHANGED box /\ ingest' = ingest + 1 /\ ingest \in Nat /\ order' = Touch("piers")
        /\ "piers" \in File
    BY <1>6, RebuildAssumption DEF Ingest, Backing, Typed, TypeOK, File
  <2>2. \A g \in File : g # "piers" => disk'[g] = disk[g]
    BY <1>6 DEF Ingest, Backing, Typed, TypeOK
  <2>3. disk'["piers"] = [sources |-> {<<0, ingest'>>}, ferries |-> FALSE, state |-> "whole"]
    BY <1>6 DEF Ingest, Backing, Typed, TypeOK, File
  <2>4. \A g \in File : (~HasTime(g))' => disk'[g] = Missing
    BY <2>1, <2>2, TouchTimes DEF Backing, FileInv
  <2>5. \A sources : Dated(sources) => sources \subseteq (0..11) \X (1..ingest')
    BY <2>1 DEF Dated
  <2>6. <<0, ingest'>> \in (0..11) \X (1..ingest')
    BY <2>1
  <2>7. WorkInv'
    BY <2>1, <2>2 DEF Backing, WorkInv, Work, Working, File
  <2>8. FileInv'
    BY <2>1, <2>2, <2>3, <2>4, <2>5, <2>6 DEF Backing, FileInv, Dated, File, Ground
  <2> QED
    BY <1>0, <2>7, <2>8 DEF Backing
<1>7. CASE UNCHANGED vars
  BY <1>0, <1>7, BackingFrame DEF vars
<1> QED
  BY <1>1, <1>2, <1>3, <1>4, <1>5, <1>6, <1>7 DEF Next

-----------------------------------------------------------------------------
(* Where a step of the script leads.                                        *)
LEMMA NextStageAt ==
  ASSUME NEW n \in 1..13, NextStage(n)
  PROVE  /\ script' = [stage |-> n + 1, phase |-> IF n + 1 \in {8, 11} THEN "prepare" ELSE "check"]
         /\ ~Idle'
         /\ \A m \in 1..14 : ~At(m, "wait")'
         /\ \A m \in 1..14 : At(m, "check")' => m = n + 1 /\ m \notin {8, 11}
<1>1. script' = [stage |-> n + 1, phase |-> IF n + 1 \in {8, 11} THEN "prepare" ELSE "check"]
  BY DEF NextStage, Goto
<1> QED
  BY <1>1 DEF Idle, At

(* A container whose step is taken runs, and is the one waited for.         *)
LEMMA OwnStep ==
  ASSUME Typed, IInv, clean, NEW n \in Stage, Container(n)
  PROVE  /\ Running(n)
         /\ ~Idle => At(n, "wait")
         /\ UNCHANGED <<script, knobs, clean, api, cut>>
BY ContainerFrame DEF IInv, OwnContainer

(* Stage 8 is taken for current only when its knob says so.                 *)
LEMMA WipeIsDue == IsCurrent(8) <=> 8 \in knobs.skip
BY DEF IsCurrent, Check

Settled == Backing /\ IInv /\ Quiet

(* Every step keeps types, backing and the one awaited container.           *)
LEMMA NextSettled == Settled /\ [Next]_vars => Settled'
<1> SUFFICES ASSUME Settled, [Next]_vars PROVE Quiet'
  BY NextBacking, NextIInv DEF Settled
<1> USE DEF Settled
<1>1. ASSUME NEW k \in KnobSets, Start(k) PROVE Quiet'
  BY <1>1 DEF Start, Quiet, Completed
<1>2. ASSUME NEW n \in Stage, StageCall(n) PROVE Quiet'
  <2>1. ~Completed'
    <3>1. CASE Skip(n) \/ StageOk(n)
      <4>1. n \in 1..13 /\ NextStage(n)
        BY <3>1 DEF Skip, StageOk, Stage
      <4> QED
        BY <4>1, NextStageAt DEF Completed
    <3>2. CASE Launch(n)
      BY <3>2 DEF Launch, Goto, Completed, Idle, At
    <3>3. CASE NameTaken(n) \/ StageFails(n)
      BY <3>3 DEF NameTaken, StageFails, End, Completed
    <3> QED
      BY <1>2, <3>1, <3>2, <3>3 DEF StageCall
  <2> QED
    BY <2>1 DEF Quiet
<1>3. ASSUME NEW n \in Stage, Container(n) PROVE Quiet'
  <2>1. /\ Running(n) /\ UNCHANGED <<script, clean>>
    BY <1>3, ContainerFrame DEF IInv
  <2>2. UNCHANGED outcome
    BY <1>3 DEF Container, ReadInputs, OpenOutput, CloseOutput, Exit, Dies, script_vars
  <2> QED
    BY <2>1, <2>2 DEF Quiet, Completed, Idle, At
<1>4. CASE Native
  <2>1. CASE VerifyOk
    <3>1. At(14, "check") /\ UNCHANGED <<box, clean>>
      BY <2>1 DEF VerifyOk, run
    <3>2. ~Idle /\ \A n \in Stage : ~At(n, "wait")
      BY <3>1 DEF Idle, At
    <3>3. clean => \A n \in Stage : ~Running(n)
      BY <3>2 DEF IInv, OwnContainer
    <3> QED
      BY <3>1, <3>3 DEF Quiet, Completed, Running
  <2>2. CASE WipeNpz \/ WipeCutOff \/ StopApi
    <3>1. ~Idle'
      BY <2>2 DEF WipeNpz, WipeCutOff, StopApi, Goto, Idle, At
    <3> QED
      BY <3>1 DEF Quiet, Completed
  <2>3. CASE Symlink \/ ApiRestart
    <3>1. \E n \in 1..13 : NextStage(n)
      BY <2>3 DEF Symlink, ApiRestart
    <3> QED
      BY <3>1, NextStageAt DEF Quiet, Completed
  <2>4. CASE VerifyFails
    BY <2>4 DEF VerifyFails, End, Quiet, Completed
  <2> QED
    BY <1>4, <2>1, <2>2, <2>3, <2>4 DEF Native
<1>5. CASE Interrupted
  BY <1>5 DEF Interrupted, End, Quiet, Completed
<1>6. CASE Ingest
  BY <1>6 DEF Ingest, run, Quiet, Completed, Idle, At, Running
<1>7. CASE UNCHANGED vars
  BY <1>7 DEF vars, Quiet, Completed, Idle, At, Running
<1> QED
  BY <1>1, <1>2, <1>3, <1>4, <1>5, <1>6, <1>7 DEF Next

-----------------------------------------------------------------------------
(* The trees of stage 8.                                                    *)
LEMMA NpzContainer ==
  ASSUME Settled, NpzInv, NEW n \in Stage, Container(n)
  PROVE  NpzInv'
<1> USE DEF Settled, Backing
<1>0. UNCHANGED <<script, knobs, clean, cut>> /\ (Wiped' <=> Wiped)
  BY ContainerFrame DEF IInv, Wiped
<1>1. (At(8, "wait") => 8 \notin knobs.skip)'
  BY <1>0 DEF NpzInv, At
<1>2. SUFFICES ASSUME clean, Wiped, ~Idle, At(8, "check") \/ At(8, "wait") PROVE NpzInv'
  BY <1>0, <1>1 DEF NpzInv, At, Idle
<1>3. n = 8 /\ At(8, "wait") /\ ~At(8, "check")
  <2>1. At(n, "wait")
    BY <1>2, OwnStep
  <2> QED
    BY <1>2, <2>1 DEF At
<1>4. (~At(8, "check"))' /\ 8 \in Stage /\ "npz" \in File
  BY <1>0, <1>3 DEF At, Stage, File
<1>5. CASE ReadInputs(n)
  <2>1. box[8].at = "started" /\ disk' = disk /\ ingest' = ingest
    BY <1>3, <1>5, ReadStep
  <2>2. CASE box'[8].at = "failed"
    BY <1>1, <1>4, <2>2 DEF NpzInv, Working, Done
  <2>3. CASE box'[8].at = "run" /\ box'[8].in = Computed(8) /\ box'[8].todo = Script(8).writes
    <3>1. disk["npz"] = Missing /\ disk["npz"].sources = {}
      BY <1>2, <1>3, <2>1 DEF NpzInv, Missing
    <3>2. OfThesePolygons(Computed(8).sources)
      <4>1. Script(8).reads = {"anchors", "polys_json"}
        BY DEF Script, SptPolygon
      <4> QED
        BY <1>4, <4>1, ComputedSources DEF OfThesePolygons
    <3>3. "npz" \in ToSet(Script(8).writes)
      BY <1>4, Writes, OutputFacts
    <3>4. Computed(8).state = "whole"
      <4>1. \A f \in Script(8).reads : f \in Ground /\ Readable(f)
        BY <1>3, <1>5, <2>3, ReadStep DEF Script, SptPolygon, Ground
      <4>2. \A f \in Script(8).reads : disk[f].state = "whole"
        BY <4>1 DEF Readable, Ground, FileInv
      <4> QED
        BY <3>1, <4>2 DEF Computed, Missing
    <3> QED
      BY <1>1, <1>4, <2>1, <2>3, <3>1, <3>2, <3>3, <3>4 DEF NpzInv, Working, Done, OfThesePolygons
  <2> QED
    BY <1>3, <1>5, <2>2, <2>3, ReadStep
<1>6. CASE OpenOutput(n) \/ CloseOutput(n)
  <2>1. PICK f \in File : Output(n, f)
    BY <1>6, OutputStep
  <2>2. f = "npz" /\ Working(8) /\ Working(8)'
    BY <1>3, <2>1, OutputFacts DEF Output
  <2>3. /\ disk'["npz"].sources \subseteq box[8].in.sources \cup disk["npz"].sources
        /\ "npz" \notin ToSet(box'[8].todo) => disk'["npz"].state = "whole"
    BY <1>2, <1>3, <1>4, <2>1, <2>2, Written DEF Output, NpzInv
  <2>4. /\ disk'["anchors"] = disk["anchors"] /\ disk'["polys_json"] = disk["polys_json"]
        /\ ingest' = ingest /\ box'[8].in = box[8].in
    BY <1>3, <2>1, <2>2 DEF Output, File
  <2>5. /\ OfThesePolygons(box[8].in.sources) /\ OfThesePolygons(disk["npz"].sources)
        /\ box[8].in.state = "whole"
    BY <1>2, <1>3, <2>2 DEF NpzInv, Working
  <2>6. box'[8].at \in {"run", "writing"}
    BY <2>2 DEF Working
  <2> QED
    BY <1>1, <1>4, <2>3, <2>4, <2>5, <2>6 DEF NpzInv, Working, Done, OfThesePolygons
<1>7. CASE Exit(n)
  <2>1. /\ box[8].at = "run" /\ box[8].todo = <<>> /\ box'[8].at = "ok"
        /\ UNCHANGED <<disk, ingest>>
    BY <1>3, <1>4, <1>7 DEF Exit, files, Typed, TypeOK
  <2>2. Done(8, "npz") /\ Working(8)
    BY <2>1, EmptyHasNone DEF Done, Working
  <2> QED
    BY <1>1, <1>2, <1>3, <1>4, <2>1, <2>2 DEF NpzInv, Working, Done, OfThesePolygons
<1>8. CASE Dies(n)
  <2>1. box'[8].at = "failed"
    BY <1>3, <1>4, <1>8 DEF Dies, Typed, TypeOK
  <2> QED
    BY <1>1, <1>4, <2>1 DEF NpzInv, Working, Done
<1> QED
  BY <1>5, <1>6, <1>7, <1>8 DEF Container

(* A step that leaves stage 8 where it is, or is elsewhere afterwards.      *)
LEMMA NpzElsewhere ==
  ASSUME (~At(8, "check"))', (~At(8, "wait"))'
  PROVE  NpzInv'
BY DEF NpzInv

(* Every step keeps the trees of stage 8 complete and of one polygon set.   *)
LEMMA NextNpz == Settled /\ NpzInv /\ [Next]_vars => NpzInv'
<1> SUFFICES ASSUME Settled, NpzInv, [Next]_vars PROVE NpzInv'
  OBVIOUS
<1>1. ASSUME NEW k \in KnobSets, Start(k) PROVE NpzInv'
  BY <1>1, NpzElsewhere DEF Start, Goto, At
<1>2. ASSUME NEW n \in Stage, StageCall(n) PROVE NpzInv'
  <2>1. CASE Skip(n) \/ StageOk(n)
    <3>1. n \in 1..13 /\ NextStage(n)
      BY <2>1 DEF Skip, StageOk, Stage
    <3> QED
      BY <3>1, NextStageAt, NpzElsewhere
  <2>2. CASE Launch(n)
    <3>1. CASE n = 8
      <4>1. 8 \notin knobs.skip /\ At(8, "check") /\ (Wiped' <=> Wiped)
        BY <2>2, <3>1, LookFacts, LooksKeepWiped DEF Launch
      <4>2. box'[8].at = "started" /\ UNCHANGED <<disk, knobs, clean>>
        BY <2>2, <3>1 DEF Launch, Off, files, Settled, Backing, Typed, TypeOK
      <4>3. (~At(8, "check"))'
        BY <2>2 DEF Launch, Goto, At
      <4> QED
        BY <4>1, <4>2, <4>3 DEF NpzInv, Working, Done
    <3>2. CASE n # 8
      BY <2>2, <3>2, NpzElsewhere DEF Launch, Goto, At
    <3> QED
      BY <3>1, <3>2
  <2>3. CASE NameTaken(n) \/ StageFails(n)
    BY <2>3, NpzElsewhere DEF NameTaken, StageFails, End, Goto, At
  <2> QED
    BY <1>2, <2>1, <2>2, <2>3 DEF StageCall
<1>3. ASSUME NEW n \in Stage, Container(n) PROVE NpzInv'
  BY <1>3, NpzContainer
<1>4. CASE Native
  <2>1. CASE WipeNpz
    <3>1. (~At(8, "wait"))' /\ UNCHANGED knobs
      BY <2>1 DEF WipeNpz, Goto, At
    <3>2. 8 \notin knobs.skip => disk'["npz"] = Missing
      BY <2>1, WipeIsDue DEF WipeNpz, files, Missing, Settled, Backing, Typed, TypeOK, File
    <3> QED
      BY <3>1, <3>2 DEF NpzInv
  <2>5. CASE WipeCutOff
    <3>1. (~At(8, "wait"))' /\ ~Wiped'
      BY <2>5 DEF WipeCutOff, Goto, At, Wiped
    <3> QED
      BY <3>1 DEF NpzInv
  <2>2. CASE StopApi
    BY <2>2, NpzElsewhere DEF StopApi, Goto, At
  <2>3. CASE Symlink \/ ApiRestart
    <3>1. \E n \in 1..13 : NextStage(n)
      BY <2>3 DEF Symlink, ApiRestart
    <3> QED
      BY <3>1, NextStageAt, NpzElsewhere
  <2>4. CASE VerifyOk \/ VerifyFails
    BY <2>4, NpzElsewhere DEF VerifyOk, VerifyFails, End, Goto, At
  <2> QED
    BY <1>4, <2>1, <2>2, <2>3, <2>4, <2>5 DEF Native
<1>5. CASE Interrupted
  BY <1>5, NpzElsewhere DEF Interrupted, End, Goto, At
<1>6. CASE Ingest
  BY <1>6, NpzElsewhere DEF Ingest, Idle, At
<1>7. CASE UNCHANGED vars
  BY <1>7 DEF vars, NpzInv, Wiped, At, Working, Done, OfThesePolygons
<1> QED
  BY <1>1, <1>2, <1>3, <1>4, <1>5, <1>6, <1>7 DEF Next

-----------------------------------------------------------------------------
(* The late stages of a rebuild that skips none.                            *)
LEMMA LateFacts ==
  /\ Outputs(8) = {"npz"} /\ Outputs(9) = {"cities", "city_graph"}
  /\ Outputs(10) = {"v2c"} /\ Outputs(11) = {"v2d"}
  /\ DatedBy(8) = "npz" /\ DatedBy(9) = "city_graph" /\ DatedBy(10) = "v2c"
BY DEF Outputs, DatedBy

(* What the freshness checks after stage 8 compare.                         *)
LEMMA LateChecks ==
  /\ Check(9) <=> NotOlder("city_graph", "npz")
  /\ Check(10) <=> NotOlder("v2c", "city_graph")
  /\ Check(11) <=> NotOlder("v2d", "v2c")
  /\ Check(12) => link
BY DEF Check, CheckFiles

(* A late stage reads the ground files and earlier late stages' outputs.    *)
LEMMA LateReads ==
  ASSUME NEW n \in Late, NEW f \in Script(n).reads
  PROVE  f \in Ground \/ \E m \in Late : m < n /\ f \in Outputs(m)
<1>1. CASE n = 8
  BY <1>1 DEF Script, SptPolygon, Ground
<1>2. CASE n = 9
  BY <1>2, LateFacts DEF Script, AdaptPaired, Ground, Late
<1>3. CASE n = 10
  BY <1>3, LateFacts DEF Script, BuildPaired, Ground, Late
<1>4. CASE n = 11
  BY <1>4, LateFacts DEF Script, Prune, Ground, Late
<1> QED
  BY <1>1, <1>2, <1>3, <1>4 DEF Late

(* A write upstream leaves an output due, a write elsewhere does not make   *)
(* it current.                                                              *)
LEMMA StillDue ==
  ASSUME Typed, NEW f \in File, NEW out \in File, NEW up \in File, f # out, up # out,
         order' = Touch(f), f = up \/ ~NotOlder(out, up)
  PROVE  ~NotOlder(out, up)'
<1>1. HasTime(out)' <=> HasTime(out)
  BY TouchTimes
<1>2. CASE f = up
  BY <1>1, <1>2, TouchTimes DEF NotOlder
<1>3. CASE f # up
  BY <1>1, <1>3, TouchTimes DEF NotOlder
<1> QED
  BY <1>2, <1>3

(* A late stage's write leaves the stage behind it due.                     *)
LEMMA StageDue ==
  ASSUME Typed, NEW n \in 8..10, NEW f \in Outputs(n), order' = Touch(f),
         f = DatedBy(n) \/ ~Check(n + 1)
  PROVE  ~Check(n + 1)'
<1> USE DEF File
<1>1. CASE n = 8
  <2>1. ~NotOlder("city_graph", "npz")'
    BY <1>1, LateFacts, LateChecks, StillDue
  <2> QED
    BY <1>1, <2>1 DEF Check, CheckFiles
<1>2. CASE n = 9
  <2>1. ~NotOlder("v2c", "city_graph")'
    BY <1>2, LateFacts, LateChecks, StillDue
  <2> QED
    BY <1>2, <2>1 DEF Check, CheckFiles
<1>3. CASE n = 10
  <2>1. ~NotOlder("v2d", "v2c")'
    BY <1>3, LateFacts, LateChecks, StillDue
  <2> QED
    BY <1>3, <2>1 DEF Check, CheckFiles
<1> QED
  BY <1>1, <1>2, <1>3

(* The late checks look at write times and the link only.                   *)
LEMMA CheckFrame ==
  ASSUME UNCHANGED <<order, link>>, NEW n \in 9..12
  PROVE  Check(n)' <=> Check(n)
BY DEF Check, CheckFiles, NotOlder, HasTime, Older

(* A step of the container of a late stage.                                 *)
LEMMA MakingStep ==
  ASSUME Settled, NpzInv, Live, Wiped, knobs.skip = {}, WholeInv, NEW n \in Late, At(n, "wait"), Container(n)
  PROVE  /\ Making(n)'
         /\ \A m \in Late : m < n => AllWhole(m)'
<1> USE DEF Settled, Backing
<1>1. /\ n \in Stage /\ Making(n) /\ script.stage = n
      /\ \A m \in Late : m < n => AllWhole(m)
  BY DEF WholeInv, Late, Stage, At
<1>2. CASE ReadInputs(n)
  <2>1. CASE box'[n].at = "failed"
    BY <1>1, <1>2, <2>1, ReadStep DEF Making, AllWhole, Working, Done
  <2>2. CASE /\ box'[n].at = "run" /\ box'[n].in = Computed(n)
             /\ box'[n].todo = Script(n).writes
             /\ \A f \in Script(n).reads : Readable(f)
    <3>1. \A f \in Script(n).reads : disk[f].state = "whole"
      <4> SUFFICES ASSUME NEW f \in Script(n).reads PROVE disk[f].state = "whole"
        OBVIOUS
      <4>1. CASE f \in Ground
        BY <2>2, <4>1 DEF FileInv, Readable, Ground
      <4>2. CASE \E m \in Late : m < n /\ f \in Outputs(m)
        BY <1>1, <4>2 DEF AllWhole
      <4> QED
        BY <4>1, <4>2, LateReads
    <3>2. Computed(n).state = "whole"
      <4>1. n = 8 => disk["npz"] = Missing
        BY <1>2 DEF NpzInv, Live, ReadInputs
      <4> QED
        BY <3>1, <4>1 DEF Computed, Missing
    <3>3. \A f \in Outputs(n) : f \in ToSet(Script(n).writes)
      BY <1>1, Writes, OutputFacts DEF Late
    <3>4. DatedBy(n) \in Outputs(n) \/ n = 11
      BY LateFacts DEF Late
    <3>5. disk' = disk
      BY <1>1, <1>2, ReadStep
    <3> QED
      BY <1>1, <2>2, <3>2, <3>3, <3>4, <3>5 DEF Making, AllWhole, Working, Done
  <2> QED
    BY <1>1, <1>2, <2>1, <2>2, ReadStep
<1>3. CASE OpenOutput(n) \/ CloseOutput(n)
  <2>1. PICK f \in File : Output(n, f)
    BY <1>1, <1>3, OutputStep
  <2>2. /\ f \in Outputs(n) /\ Working(n) /\ Working(n)' /\ box'[n].in = box[n].in
        /\ box[n].in.state = "whole"
    BY <1>1, <2>1 DEF Output, Making
  <2>3. ASSUME NEW m \in Late, m < n PROVE AllWhole(m)'
    <3>1. f \notin Outputs(m) /\ Outputs(m) \subseteq File
      BY <2>2, <2>3, LateFacts DEF Late, File
    <3> QED
      BY <1>1, <2>1, <2>3, <3>1 DEF AllWhole, Output
  <2>4. ASSUME NEW g \in Outputs(n), Done(n, g)' PROVE disk'[g].state = "whole"
    <3>1. g \notin ToSet(box'[n].todo) /\ g \in File
      BY <1>1, <2>4, OutputsAreFiles DEF Done
    <3>2. CASE g = f
      BY <1>1, <2>1, <2>2, <3>1, <3>2, Written DEF Output
    <3>3. CASE g # f
      BY <1>1, <2>1, <2>2, <3>1, <3>3 DEF Output, Making, Done, Working
    <3> QED
      BY <3>2, <3>3
  <2>5. ASSUME n < 11, Done(n, DatedBy(n))' PROVE (~Check(n + 1))'
    <3>1. n \in 8..10 /\ DatedBy(n) \in Outputs(n) /\ DatedBy(n) \notin ToSet(box'[n].todo)
      BY <2>5, LateFacts DEF Late, Done
    <3>2. f = DatedBy(n) \/ ~Check(n + 1)
      BY <1>1, <2>1, <2>2, <2>5, <3>1 DEF Output, Making, Done, Working
    <3>3. CASE order' = Touch(f)
      BY <2>2, <3>1, <3>2, <3>3, StageDue
    <3>4. CASE order' = order /\ f # DatedBy(n)
      BY <3>1, <3>2, <3>4, <2>1, CheckFrame DEF Output, script_vars
    <3>5. f = DatedBy(n) => order' = Touch(f)
      BY <2>1, <3>1 DEF Output
    <3> QED
      BY <2>1, <3>3, <3>4, <3>5 DEF Output
  <2>6. (Working(n) => box[n].in.state = "whole")'
    BY <2>2
  <2> QED
    BY <2>3, <2>4, <2>5, <2>6 DEF Making
<1>4. CASE Exit(n)
  <2>1. /\ box[n].at = "run" /\ box'[n].at = "ok" /\ box'[n].todo = box[n].todo
        /\ UNCHANGED <<disk, order, link>>
    BY <1>1, <1>4 DEF Exit, files, Typed, TypeOK
  <2>2. n < 11 => (Check(n + 1)' <=> Check(n + 1))
    BY <2>1, CheckFrame DEF Late
  <2> QED
    BY <1>1, <2>1, <2>2 DEF Making, AllWhole, Working, Done
<1>5. CASE Dies(n)
  <2>1. box'[n].at = "failed" /\ disk' = disk
    BY <1>1, <1>5 DEF Dies, files, Typed, TypeOK
  <2> QED
    BY <1>1, <2>1 DEF Making, AllWhole, Working, Done
<1> QED
  BY <1>2, <1>3, <1>4, <1>5 DEF Container

(* A container's step keeps the outputs of the stages that are done whole.  *)
LEMMA WholeContainer ==
  ASSUME Settled, NpzInv, WholeInv, NEW n \in Stage, Container(n)
  PROVE  WholeInv'
<1>1. UNCHANGED <<script, knobs, clean, cut>> /\ (Wiped' <=> Wiped)
  BY ContainerFrame DEF Settled, IInv, Wiped
<1> SUFFICES ASSUME Live, Wiped, knobs.skip = {}
    PROVE  /\ \A m \in Late : script.stage > m => AllWhole(m)'
           /\ \A m \in Late : At(m, "wait") => Making(m)'
           /\ \A m \in 9..11 : script.stage = m => script.phase = "wait"
           /\ ~(script.stage > 12)
  BY <1>1 DEF WholeInv, Live, Idle, At
<1>2. At(n, "wait")
  BY OwnStep DEF Live, Settled, Backing
<1>3. script.stage = n /\ script.phase = "wait" /\ n \in 1..11
  BY <1>2 DEF At, Stage
<1>4. CASE n \in Late
  <2>1. Making(n)' /\ \A m \in Late : m < n => AllWhole(m)'
    BY <1>2, <1>4, MakingStep
  <2> QED
    BY <1>3, <2>1 DEF At, Late
<1>5. CASE n \notin Late
  BY <1>3, <1>5 DEF At, Late
<1> QED
  BY <1>4, <1>5

(* The script moves and nothing is written.                                 *)
LEMMA WholeFrame ==
  ASSUME UNCHANGED <<disk, order, link>>
  PROVE  /\ \A m \in Late : AllWhole(m) => AllWhole(m)'
         /\ \A m \in 9..11 : ~Check(m) => (~Check(m))'
BY CheckFrame DEF AllWhole

(* So does every step.                                                      *)
LEMMA NextWhole == Settled /\ NpzInv /\ WholeInv /\ [Next]_vars => WholeInv'
<1> SUFFICES ASSUME Settled, NpzInv, WholeInv, [Next]_vars PROVE WholeInv'
  OBVIOUS
<1>0. script \in [stage : 0..14, phase : {"idle", "prepare", "check", "wait"}]
  BY DEF Settled, Backing, Typed, TypeOK
<1>1. ASSUME NEW k \in KnobSets, Start(k) PROVE WholeInv'
  BY <1>1 DEF Start, Goto, WholeInv, Late, At
<1>2. ASSUME NEW n \in Stage, StageCall(n) PROVE WholeInv'
  <2>1. CASE Skip(n)
    <3>1. /\ At(n, "check") /\ IsCurrent(n) /\ UNCHANGED <<disk, order, link, knobs, clean>>
          /\ n \in 1..13 /\ NextStage(n) /\ (Wiped' <=> Wiped)
      BY <2>1 DEF Skip, files, bounds, Stage, Wiped
    <3> SUFFICES ASSUME Live, Wiped, knobs.skip = {} PROVE WholeInv'
      BY <3>1 DEF WholeInv, Live, Idle, At
    <3>2. n < 8
      <4>1. Check(n)
        BY <3>1 DEF IsCurrent
      <4>2. n # 8
        BY <4>1 DEF Check
      <4>3. n \notin 9..11
        BY <3>1, <4>1 DEF WholeInv, At
      <4> QED
        BY <4>2, <4>3 DEF Stage
    <3>3. script'.stage \in 1..8 /\ script'.phase # "wait"
      BY <3>1, <3>2, NextStageAt
    <3> QED
      BY <3>3 DEF WholeInv, Late, At
  <2>2. CASE Launch(n)
    <3>1. /\ script' = [stage |-> n, phase |-> "wait"] /\ script = [stage |-> n, phase |-> "check"]
          /\ UNCHANGED <<disk, order, link, knobs, clean>>
      BY <2>2 DEF Launch, Goto, At, files
    <3>5. Wiped' <=> Wiped
      BY <2>2, LooksKeepWiped
    <3>2. box'[n].at = "started"
      BY <2>2 DEF Launch, Off, Settled, Backing, Typed, TypeOK
    <3>3. Making(n)'
      BY <3>2 DEF Making, Working, Done
    <3>4. Live' <=> Live
      BY <3>1 DEF Live, Idle, At, Stage
    <3> QED
      BY <3>1, <3>3, <3>4, <3>5, WholeFrame DEF WholeInv, At, Stage
  <2>3. CASE StageOk(n)
    <3>1. /\ At(n, "wait") /\ box[n].at = "ok" /\ UNCHANGED <<disk, order, link, knobs, clean>>
          /\ n \in 1..13 /\ NextStage(n) /\ (Wiped' <=> Wiped)
      BY <2>3 DEF StageOk, files, bounds, Stage, Wiped
    <3> SUFFICES ASSUME Live, Wiped, knobs.skip = {} PROVE WholeInv'
      BY <3>1 DEF WholeInv, Live, Idle, At
    <3>2. script'.stage = n + 1 /\ script'.phase # "wait" /\ script.stage = n
      BY <3>1, NextStageAt DEF At
    <3>3. \A f : Done(n, f)
      BY <3>1, EmptyHasNone DEF Done, Settled, Backing, WorkInv, Work
    <3>4. n \in Late => AllWhole(n) /\ (n < 11 => ~Check(n + 1))
      BY <3>1, <3>3 DEF WholeInv, Making, AllWhole
    <3>5. \A m \in Late : script'.stage > m => AllWhole(m)
      BY <3>2, <3>4 DEF WholeInv, Late, Stage
    <3>6. \A m \in 9..11 : script'.stage = m => ~Check(m)
      BY <3>2, <3>4 DEF Late, Stage
    <3>7. ~(script'.stage > 12)
      BY <3>2 DEF Stage
    <3>8. \A m \in Late : ~At(m, "wait")'
      BY <3>2 DEF At
    <3> QED
      BY <3>1, <3>5, <3>6, <3>7, <3>8, WholeFrame DEF WholeInv
  <2>4. CASE NameTaken(n) \/ StageFails(n)
    BY <2>4 DEF NameTaken, StageFails, End, Goto, WholeInv, Live, Idle, At
  <2> QED
    BY <1>2, <2>1, <2>2, <2>3, <2>4 DEF StageCall
<1>3. ASSUME NEW n \in Stage, Container(n) PROVE WholeInv'
  BY <1>3, WholeContainer
<1>4. CASE Native
  <2>1. CASE WipeNpz
    BY <2>1 DEF WipeNpz, Goto, WholeInv, Late, At
  <2>6. CASE WipeCutOff
    BY <2>6 DEF WipeCutOff, Wiped, WholeInv
  <2>2. CASE StopApi
    <3>1. /\ script' = [stage |-> 11, phase |-> "check"] /\ script = [stage |-> 11, phase |-> "prepare"]
          /\ UNCHANGED <<disk, order, link, knobs, clean>>
      BY <2>2 DEF StopApi, Goto, At, files
    <3>2. Live' <=> Live
      BY <3>1 DEF Live, Idle, At
    <3>3. Wiped' <=> Wiped
      BY <2>2, LooksKeepWiped
    <3> QED
      BY <3>1, <3>2, <3>3, WholeFrame DEF WholeInv, At
  <2>3. CASE Symlink
    <3>1. /\ script = [stage |-> 12, phase |-> "check"] /\ UNCHANGED <<disk, knobs, clean>>
          /\ script'.stage = 13 /\ script'.phase # "wait"
          /\ link' \/ (IsCurrent(12) /\ link' = link)
      BY <2>3, NextStageAt DEF Symlink, FoundCurrent, At, files
    <3>4. Wiped' <=> Wiped
      BY <2>3, LooksKeepWiped
    <3> SUFFICES ASSUME Live, Wiped, knobs.skip = {} PROVE WholeInv'
      BY <3>1, <3>4 DEF WholeInv, Live, Idle, At
    <3>2. link'
      BY <3>1, LateChecks DEF IsCurrent
    <3>3. \A m \in Late : AllWhole(m)'
      BY <3>1 DEF WholeInv, AllWhole, Late
    <3> QED
      BY <3>1, <3>2, <3>3 DEF WholeInv, At
  <2>4. CASE ApiRestart
    <3>1. /\ script = [stage |-> 13, phase |-> "check"] /\ UNCHANGED <<disk, link, knobs, clean>>
          /\ script'.stage = 14 /\ script'.phase # "wait" /\ (Wiped' <=> Wiped)
      BY <2>4, NextStageAt DEF ApiRestart, At, files, bounds, Wiped
    <3> SUFFICES ASSUME Live, Wiped, knobs.skip = {} PROVE WholeInv'
      BY <3>1 DEF WholeInv, Live, Idle, At
    <3>2. link /\ \A m \in Late : AllWhole(m)'
      BY <3>1 DEF WholeInv, AllWhole, Late
    <3> QED
      BY <3>1, <3>2 DEF WholeInv, At
  <2>5. CASE VerifyOk \/ VerifyFails
    BY <2>5 DEF VerifyOk, VerifyFails, End, Goto, WholeInv, Live, Idle, At
  <2> QED
    BY <1>4, <2>1, <2>2, <2>3, <2>4, <2>5, <2>6 DEF Native
<1>5. CASE Interrupted
  BY <1>5 DEF Interrupted, End, Goto, WholeInv, Live, Idle, At
<1>6. CASE Ingest
  BY <1>6 DEF Ingest, WholeInv, Live, Idle, At
<1>7. CASE UNCHANGED vars
  <2>1. \A m \in Late : Making(m) => Making(m)'
    BY <1>7, CheckFrame DEF vars, Making, Working, Done, Late
  <2> QED
    BY <1>7, <2>1, WholeFrame DEF vars, WholeInv, Wiped, Live, Idle, At
<1> QED
  BY <1>1, <1>2, <1>3, <1>4, <1>5, <1>6, <1>7 DEF Next

(* Every step keeps what a completed rebuild serves whole.                  *)
LEMMA NextServed == Settled /\ WholeInv /\ ServedInv /\ [Next]_vars => ServedInv'
<1> SUFFICES ASSUME Settled, WholeInv, ServedInv, [Next]_vars,
                    (((Live /\ script.stage = 14) \/ Completed) /\ knobs.skip = {} /\ Wiped)'
    PROVE  (api.up /\ api.serves.state = "whole")'
  BY DEF ServedInv
<1>1. ASSUME NEW k \in KnobSets, Start(k) PROVE FALSE
  BY <1>1 DEF Start, Goto, Completed
<1>2. ASSUME NEW n \in Stage, StageCall(n) PROVE FALSE
  <2>1. CASE Skip(n) \/ StageOk(n)
    <3>1. n \in 1..13 /\ NextStage(n)
      BY <2>1 DEF Skip, StageOk, Stage
    <3> QED
      BY <3>1, NextStageAt DEF Completed, Stage
  <2>2. CASE Launch(n)
    BY <2>2 DEF Launch, Goto, Completed, Idle, At, Stage
  <2>3. CASE NameTaken(n) \/ StageFails(n)
    BY <2>3 DEF NameTaken, StageFails, End, Goto, Completed, Live, Idle, At
  <2> QED
    BY <1>2, <2>1, <2>2, <2>3 DEF StageCall
<1>3. ASSUME NEW n \in Stage, Container(n) PROVE (api.up /\ api.serves.state = "whole")'
  <2>1. UNCHANGED <<script, knobs, clean, api>> /\ (Wiped' <=> Wiped)
    BY <1>3, ContainerFrame DEF Settled, IInv, Wiped
  <2>2. UNCHANGED outcome
    BY <1>3 DEF Container, ReadInputs, OpenOutput, CloseOutput, Exit, Dies, script_vars
  <2> QED
    BY <2>1, <2>2 DEF ServedInv, Live, Completed, Idle, At
<1>4. CASE Native
  <2>1. CASE WipeNpz \/ WipeCutOff \/ StopApi
    BY <2>1 DEF WipeNpz, WipeCutOff, StopApi, Goto, Completed, Idle, At
  <2>2. CASE Symlink
    BY <2>2, NextStageAt DEF Symlink, Completed
  <2>3. CASE ApiRestart
    <3>1. /\ script = [stage |-> 13, phase |-> "check"] /\ NextStage(13) /\ UNCHANGED <<knobs, clean>>
          /\ (Wiped' <=> Wiped)
          /\ api' = [up |-> TRUE, serves |-> IF link THEN disk["v2d"] ELSE Missing]
      BY <2>3 DEF ApiRestart, At, bounds, Wiped
    <3>2. Live /\ Wiped /\ knobs.skip = {}
      BY <3>1, NextStageAt DEF Live, Completed, Idle, At
    <3>3. link /\ AllWhole(11)
      BY <3>1, <3>2 DEF WholeInv, Late
    <3> QED
      BY <3>1, <3>3, LateFacts DEF AllWhole
  <2>4. CASE VerifyOk
    <3>1. script = [stage |-> 14, phase |-> "check"] /\ UNCHANGED <<knobs, clean, api>>
          /\ Idle' /\ (Wiped' <=> Wiped)
      BY <2>4 DEF VerifyOk, run, End, Goto, Idle, At, Wiped
    <3>2. Live /\ Wiped /\ script.stage = 14 /\ knobs.skip = {}
      BY <3>1 DEF Live, Completed, Idle, At
    <3> QED
      BY <3>1, <3>2 DEF ServedInv
  <2>5. CASE VerifyFails
    BY <2>5 DEF VerifyFails, End, Goto, Completed, Live, Idle, At
  <2> QED
    BY <1>4, <2>1, <2>2, <2>3, <2>4, <2>5 DEF Native
<1>5. CASE Interrupted
  BY <1>5 DEF Interrupted, End, Goto, Completed, Live, Idle, At
<1>6. CASE Ingest
  BY <1>6 DEF Ingest, run, ServedInv, Wiped, Completed, Live, Idle, At
<1>7. CASE UNCHANGED vars
  BY <1>7 DEF vars, ServedInv, Wiped, Completed, Live, Idle, At
<1> QED
  BY <1>1, <1>2, <1>3, <1>4, <1>5, <1>6, <1>7 DEF Next

-----------------------------------------------------------------------------
(* A full rebuild.                                                          *)
LEMMA ProducedStep ==
  ASSUME NEW k \in 0..14
  PROVE  /\ k \in Stage => Produced(k) = Produced(k - 1) \cup Outputs(k)
         /\ k > 11 => Produced(k) = Produced(k - 1)
         /\ Produced(0) = {}
         /\ Produced(k) \subseteq File
<1>1. Produced(k) \subseteq File
  BY OutputsAreFiles DEF Produced
<1>2. Produced(0) = {}
  BY DEF Produced, Stage
<1>3. ASSUME k > 11 PROVE Produced(k) = Produced(k - 1)
  <2>1. \A i \in Stage : i <= k /\ i <= k - 1
    BY <1>3 DEF Stage
  <2> QED
    BY <2>1 DEF Produced
<1>4. ASSUME k \in Stage PROVE Produced(k) = Produced(k - 1) \cup Outputs(k)
  <2>1. \A i \in Stage : i <= k <=> (i <= k - 1 \/ i = k)
    BY <1>4 DEF Stage
  <2> QED
    BY <1>4, <2>1 DEF Produced
<1> QED
  BY <1>1, <1>2, <1>3, <1>4

(* A full rebuild takes no stage for current.                               *)
LEMMA NoneCurrent ==
  ASSUME Full, NEW n
  PROVE  ~IsCurrent(n)
BY DEF Full, IsCurrent

(* A step of the container of a full rebuild.                               *)
LEMMA RenewingStep ==
  ASSUME Settled, NpzInv, Live, Wiped, Full, NewInv, NEW n \in Stage, At(n, "wait"), Container(n)
  PROVE  /\ Renewing(n)'
         /\ \A f \in Produced(n - 1) : New(disk[f].sources)'
<1> USE DEF Settled, Backing
<1>1. /\ Renewing(n) /\ script.stage = n
      /\ \A f \in Produced(n - 1) : New(disk[f].sources)
  BY DEF NewInv, At
<1>0. Produced(n - 1) \subseteq File
  BY ProducedStep DEF Stage
<1>2. CASE ReadInputs(n)
  <2>0. disk' = disk /\ ingest' = ingest /\ box[n].at = "started"
    BY <1>2, ReadStep
  <2>1. \A sources : New(sources) => New(sources)'
    BY <2>0 DEF New
  <2>2. CASE box'[n].at = "failed"
    BY <1>1, <2>0, <2>2 DEF Renewing, New, Working, Done
  <2>3. CASE /\ box'[n].at = "run" /\ box'[n].in = Computed(n)
             /\ box'[n].todo = Script(n).writes /\ box'[n].fresh = box[n].fresh
    <3>1. New(Computed(n).sources)
      <4> SUFFICES ASSUME NEW source \in Computed(n).sources
          PROVE  source \in ((0..11) \X {ingest}) \cup disk["candidates"].sources
        BY DEF New
      <4>1. source = <<n, ingest>> \/ \E f \in Script(n).reads : source \in disk[f].sources
        BY ComputedSources
      <4>2. CASE source = <<n, ingest>>
        <5>1. n \in 0..11
          BY DEF Stage
        <5> QED
          BY <4>2, <5>1
      <4>3. ASSUME NEW f \in Script(n).reads, source \in disk[f].sources
            PROVE  source \in ((0..11) \X {ingest}) \cup disk["candidates"].sources
        <5>1. CASE f = "piers"
          BY <4>3, <5>1 DEF FileInv
        <5>2. CASE f = "candidates"
          BY <4>3, <5>2
        <5>3. CASE f \in Produced(n - 1)
          BY <1>1, <4>3, <5>3 DEF New
        <5> QED
          BY <5>1, <5>2, <5>3, Reads
      <4> QED
        BY <4>1, <4>2, <4>3
    <3>2. \A f \in Outputs(n) : f \notin ToSet(Script(n).writes) => New(disk[f].sources)
      BY Writes DEF New
    <3>3. box'[n].fresh
      BY <1>1, <2>0, <2>3 DEF Renewing
    <3> QED
      BY <1>1, <2>0, <2>3, <3>1, <3>2, <3>3 DEF Renewing, New, Working, Done
  <2> QED
    BY <1>2, <2>2, <2>3, ReadStep
<1>3. CASE OpenOutput(n) \/ CloseOutput(n)
  <2>1. PICK f \in File : Output(n, f)
    BY <1>3, OutputStep
  <2>2. /\ f \in Outputs(n) /\ f \in ToSet(box[n].todo) /\ Working(n) /\ Working(n)'
        /\ box'[n].in = box[n].in /\ box'[n].fresh = box[n].fresh /\ ingest' = ingest
        /\ box[n].fresh /\ New(box[n].in.sources)
    BY <1>1, <2>1 DEF Output, Renewing, Working
  <2>3. disk["candidates"].sources \subseteq disk'["candidates"].sources
    <3>1. CASE f = "candidates"
      <4>1. disk["candidates"].sources \subseteq box[n].in.sources
        BY <2>2, <3>1 DEF WorkInv, Work
      <4>2. disk'["candidates"].sources = box[n].in.sources
        BY <2>1, <3>1, Written DEF Output
      <4> QED
        BY <4>1, <4>2
    <3>2. CASE f # "candidates"
      BY <2>1, <3>2 DEF Output, File
    <3> QED
      BY <3>1, <3>2
  <2>4. \A sources : New(sources) => New(sources)'
    BY <2>2, <2>3 DEF New
  <2>5. disk'[f].sources \subseteq box[n].in.sources \cup disk[f].sources
    BY <2>1, Written DEF Output
  <2>6. New(disk[f].sources) => New(disk[f].sources)'
    <3>1. \A S, T, U : New(S) /\ New(T) /\ U \subseteq S \cup T => New(U)
      BY DEF New
    <3>2. New(disk[f].sources) => New(disk'[f].sources)
      BY <2>2, <2>5, <3>1
    <3> QED
      BY <2>2, <2>3, <3>2 DEF New
  <2>7. ASSUME NEW g \in File, g # f, New(disk[g].sources) PROVE New(disk[g].sources)'
    BY <2>1, <2>2, <2>3, <2>7 DEF New, Output
  <2>8. \A g \in Produced(n - 1) : New(disk[g].sources)'
    BY <1>0, <1>1, <2>6, <2>7
  <2>9. New(disk[f].sources) \/ disk'[f].sources = box[n].in.sources \/ f = "paved"
    <3>1. CASE f = "npz"
      <4>1. n = 8
        BY <2>2, <3>1, OutputFacts
      <4>2. OfThesePolygons(disk["npz"].sources)
        BY <2>2, <4>1 DEF NpzInv, Live, Working
      <4>3. "polys_json" \in Produced(n - 1) /\ "anchors" \in Produced(n - 1)
        BY <4>1 DEF Produced, Outputs, Stage
      <4>4. New(disk["polys_json"].sources) /\ New(disk["anchors"].sources)
        BY <1>1, <4>3
      <4> QED
        BY <3>1, <4>2, <4>4 DEF OfThesePolygons, New
    <3>2. CASE f # "npz"
      BY <2>1, <2>2, <3>2, Written DEF Output
    <3> QED
      BY <3>1, <3>2
  <2>10. ASSUME NEW g \in Outputs(n), Done(n, g)' PROVE New(disk[g].sources)'
    <3>1. g \notin ToSet(box'[n].todo) /\ g \in File
      BY <2>10, OutputsAreFiles DEF Done
    <3>2. CASE g # f
      <4>1. Done(n, g)
        BY <2>1, <2>2, <3>1, <3>2 DEF Output, Done, Working
      <4> QED
        BY <1>1, <2>7, <3>1, <3>2, <4>1 DEF Renewing
    <3>3. CASE g = f
      <4>1. disk'[f].sources = box[n].in.sources \/ New(disk[f].sources)
        BY <2>1, <2>9, <3>1, <3>3, Written DEF Output
      <4>2. CASE disk'[f].sources = box[n].in.sources
        BY <2>2, <2>3, <3>3, <4>2 DEF New
      <4> QED
        BY <2>6, <3>3, <4>1, <4>2
    <3> QED
      BY <3>2, <3>3
  <2>11. (box[n].at \in {"started", "run", "writing"} => box[n].fresh)'
    BY <2>2
  <2>12. (Working(n) => New(box[n].in.sources))'
    BY <2>2, <2>3 DEF New
  <2> QED
    BY <2>8, <2>10, <2>11, <2>12 DEF Renewing
<1>4. CASE Exit(n)
  <2>1. /\ box[n].at = "run" /\ box'[n].at = "ok" /\ box'[n].todo = box[n].todo
        /\ UNCHANGED <<disk, ingest>>
    BY <1>4 DEF Exit, files, Typed, TypeOK
  <2> QED
    BY <1>1, <2>1 DEF Renewing, New, Working, Done
<1>5. CASE Dies(n)
  <2>1. box'[n].at = "failed" /\ UNCHANGED <<disk, ingest>>
    BY <1>5 DEF Dies, files, Typed, TypeOK
  <2> QED
    BY <1>1, <2>1 DEF Renewing, New, Working, Done
<1> QED
  BY <1>2, <1>3, <1>4, <1>5 DEF Container

(* A container's step keeps what a full rebuild has written new.            *)
LEMMA NewContainer ==
  ASSUME Settled, NpzInv, NewInv, NEW n \in Stage, Container(n)
  PROVE  NewInv'
<1>1. UNCHANGED <<script, knobs, clean, api>> /\ (Wiped' <=> Wiped)
  BY ContainerFrame DEF Settled, IInv, Wiped
<1> SUFFICES ASSUME Live, Wiped, Full
    PROVE  /\ \A f \in Produced(script.stage - 1) : New(disk[f].sources)'
           /\ \A m \in Stage : At(m, "wait") => Renewing(m)'
           /\ script.stage # 14
  BY <1>1 DEF NewInv, Live, Full, Idle, At
<1>2. At(n, "wait")
  BY OwnStep DEF Live, Settled, Backing
<1>3. script.stage = n /\ \A m \in Stage : At(m, "wait") => m = n
  BY <1>2 DEF At
<1> QED
  BY <1>2, <1>3, RenewingStep DEF Stage

(* The script moves and what is new stays as it is.                         *)
LEMMA NewFrame ==
  ASSUME UNCHANGED <<disk, ingest>>
  PROVE  \A sources : New(sources)' <=> New(sources)
BY DEF New

(* So does every step.                                                      *)
LEMMA NextNew == Settled /\ NpzInv /\ NewInv /\ [Next]_vars => NewInv'
<1> SUFFICES ASSUME Settled, NpzInv, NewInv, [Next]_vars PROVE NewInv'
  OBVIOUS
<1>1. ASSUME NEW k \in KnobSets, Start(k) PROVE NewInv'
  <2>1. script' = [stage |-> 1, phase |-> "check"]
    BY <1>1 DEF Start, Goto
  <2>2. Produced(1 - 1) = {}
    BY ProducedStep
  <2> QED
    BY <2>1, <2>2 DEF NewInv, At
<1>2. ASSUME NEW n \in Stage, StageCall(n) PROVE NewInv'
  <2>1. CASE Skip(n)
    BY <2>1, NoneCurrent DEF Skip, NewInv, Full
  <2>2. CASE Launch(n)
    <3>1. /\ script' = [stage |-> n, phase |-> "wait"] /\ script = [stage |-> n, phase |-> "check"]
          /\ UNCHANGED <<disk, ingest, knobs, clean>>
      BY <2>2 DEF Launch, Goto, At, files
    <3>5. Wiped' <=> Wiped
      BY <2>2, LooksKeepWiped
    <3>2. box'[n].at = "started" /\ box'[n].fresh = knobs.fresh
      BY <2>2 DEF Launch, Off, Settled, Backing, Typed, TypeOK
    <3>3. Full => Renewing(n)'
      BY <3>2 DEF Renewing, Working, Done, Full
    <3>4. (Live' <=> Live) /\ (Full' <=> Full)
      BY <3>1 DEF Live, Full, Idle, At, Stage
    <3> QED
      BY <3>1, <3>3, <3>4, <3>5, NewFrame DEF NewInv, At, Stage
  <2>3. CASE StageOk(n)
    <3>1. /\ At(n, "wait") /\ box[n].at = "ok" /\ UNCHANGED <<disk, ingest, knobs, clean>>
          /\ n \in 1..13 /\ NextStage(n) /\ (Wiped' <=> Wiped)
      BY <2>3 DEF StageOk, files, bounds, Stage, Wiped
    <3> SUFFICES ASSUME Live, Wiped, Full PROVE NewInv'
      BY <3>1 DEF NewInv, Live, Full, Idle, At
    <3>2. script'.stage = n + 1 /\ script'.phase # "wait" /\ script.stage = n
      BY <3>1, NextStageAt DEF At
    <3>3. \A f : Done(n, f)
      BY <3>1, EmptyHasNone DEF Done, Settled, Backing, WorkInv, Work
    <3>4. \A f \in Outputs(n) \cup Produced(n - 1) : New(disk[f].sources)
      BY <3>1, <3>2, <3>3 DEF NewInv, Renewing
    <3>5. Produced((n + 1) - 1) = Produced(n - 1) \cup Outputs(n)
      BY <3>1, ProducedStep
    <3>6. \A f \in Produced(script'.stage - 1) : New(disk[f].sources)'
      BY <3>1, <3>2, <3>4, <3>5, NewFrame
    <3>7. script'.stage # 14 /\ \A m \in Stage : ~At(m, "wait")'
      BY <3>2 DEF At, Stage
    <3> QED
      BY <3>6, <3>7 DEF NewInv
  <2>4. CASE NameTaken(n) \/ StageFails(n)
    BY <2>4 DEF NameTaken, StageFails, End, Goto, NewInv, Live, Idle, At
  <2> QED
    BY <1>2, <2>1, <2>2, <2>3, <2>4 DEF StageCall
<1>3. ASSUME NEW n \in Stage, Container(n) PROVE NewInv'
  BY <1>3, NewContainer
<1>4. CASE Native
  <2>1. CASE WipeNpz
    <3>1. /\ script' = [stage |-> 8, phase |-> "check"] /\ script = [stage |-> 8, phase |-> "prepare"]
          /\ UNCHANGED <<ingest, knobs, clean>> /\ (Wiped' <=> Wiped)
      BY <2>1 DEF WipeNpz, Goto, At, bounds, Wiped
    <3> SUFFICES ASSUME Live, Wiped, Full PROVE NewInv'
      BY <3>1 DEF NewInv, Live, Full, Idle, At
    <3>2. \A f \in File : f # "npz" => disk'[f] = disk[f]
      BY <2>1 DEF WipeNpz, files, Settled, Backing, Typed, TypeOK
    <3>3. "npz" \notin Produced(8 - 1)
      BY OutputFacts DEF Produced, Stage
    <3>4. Produced(8 - 1) \subseteq File /\ "candidates" \in File
      BY ProducedStep DEF File
    <3>5. \A f \in Produced(8 - 1) : New(disk[f].sources)'
      BY <3>1, <3>2, <3>3, <3>4 DEF NewInv, New
    <3> QED
      BY <3>1, <3>5 DEF NewInv, At
  <2>5. CASE WipeCutOff
    BY <2>5 DEF WipeCutOff, Wiped, NewInv
  <2>2. CASE StopApi
    <3>1. /\ script' = [stage |-> 11, phase |-> "check"] /\ script = [stage |-> 11, phase |-> "prepare"]
          /\ UNCHANGED <<disk, ingest, knobs, clean>>
      BY <2>2 DEF StopApi, Goto, At, files
    <3>2. (Live' <=> Live) /\ (Full' <=> Full)
      BY <3>1 DEF Live, Full, Idle, At
    <3>3. Wiped' <=> Wiped
      BY <2>2, LooksKeepWiped
    <3> QED
      BY <3>1, <3>2, <3>3, NewFrame DEF NewInv, At
  <2>3. CASE Symlink \/ ApiRestart
    <3>1. PICK n \in {12, 13} :
            /\ script = [stage |-> n, phase |-> "check"] /\ NextStage(n)
            /\ UNCHANGED <<disk, ingest, knobs, clean>>
            /\ n = 13 => api'.serves \in {disk["v2d"], Missing}
      BY <2>3 DEF Symlink, ApiRestart, At, files
    <3>9. Wiped' <=> Wiped
      BY <2>3, LooksKeepWiped DEF ApiRestart, bounds, Wiped
    <3> SUFFICES ASSUME Live, Wiped, Full PROVE NewInv'
      BY <3>1, <3>9 DEF NewInv, Live, Full, Idle, At
    <3>2. script'.stage = n + 1 /\ script'.phase # "wait"
      BY <3>1, NextStageAt
    <3>3. Produced((n + 1) - 1) = Produced(n - 1)
      BY ProducedStep
    <3>4. \A f \in Produced(n - 1) : New(disk[f].sources)
      BY <3>1 DEF NewInv
    <3>5. "v2d" \in Produced(n - 1)
      BY DEF Produced, Outputs, Stage
    <3>6. n = 13 => New(api'.serves.sources)
      BY <3>1, <3>4, <3>5 DEF New, Missing
    <3>7. n = 13 => New(api.serves.sources)'
      BY <3>1, <3>6 DEF New
    <3>8. \A f \in Produced(script'.stage - 1) : New(disk[f].sources)'
      BY <3>1, <3>2, <3>3, <3>4, NewFrame
    <3> QED
      BY <3>2, <3>7, <3>8 DEF NewInv, At
  <2>4. CASE VerifyOk \/ VerifyFails
    BY <2>4 DEF VerifyOk, VerifyFails, End, Goto, NewInv, Live, Idle, At
  <2> QED
    BY <1>4, <2>1, <2>2, <2>3, <2>4, <2>5 DEF Native
<1>5. CASE Interrupted
  BY <1>5 DEF Interrupted, End, Goto, NewInv, Live, Idle, At
<1>6. CASE Ingest
  BY <1>6 DEF Ingest, NewInv, Live, Idle, At
<1>7. CASE UNCHANGED vars
  BY <1>7 DEF vars, NewInv, Wiped, Renewing, New, Working, Done, Live, Full, Idle, At
<1> QED
  BY <1>1, <1>2, <1>3, <1>4, <1>5, <1>6, <1>7 DEF Next

(* The full rebuild that completed is the last one: an ingest after it has  *)
(* a number no file carries yet.                                            *)
LEMMA NextNewServed == Settled /\ NewInv /\ NewServed /\ [Next]_vars => NewServed'
<1> SUFFICES ASSUME Settled, NewInv, NewServed, [Next]_vars, FullyRebuilt', Wiped'
    PROVE  New(api.serves.sources)'
  BY DEF NewServed
<1> USE DEF FullyRebuilt
<1>1. ASSUME NEW k \in KnobSets, Start(k) PROVE FALSE
  BY <1>1 DEF Start, Completed
<1>2. ASSUME NEW n \in Stage, StageCall(n) PROVE FALSE
  <2>1. CASE Skip(n) \/ StageOk(n)
    <3>1. n \in 1..13 /\ NextStage(n)
      BY <2>1 DEF Skip, StageOk, Stage
    <3> QED
      BY <3>1, NextStageAt DEF Completed
  <2>2. CASE Launch(n)
    BY <2>2 DEF Launch, Goto, Completed, Idle, At
  <2>3. CASE NameTaken(n) \/ StageFails(n)
    BY <2>3 DEF NameTaken, StageFails, End, Completed
  <2> QED
    BY <1>2, <2>1, <2>2, <2>3 DEF StageCall
<1>3. ASSUME NEW n \in Stage, Container(n) PROVE FALSE
  <2>1. Running(n) /\ UNCHANGED <<script, clean>>
    BY <1>3, ContainerFrame DEF Settled, IInv
  <2>2. UNCHANGED outcome
    BY <1>3 DEF Container, ReadInputs, OpenOutput, CloseOutput, Exit, Dies, script_vars
  <2>3. Completed
    BY <2>1, <2>2 DEF Completed, Idle, At
  <2> QED
    BY <2>1, <2>3 DEF Settled, Quiet
<1>4. CASE Native
  <2>1. CASE WipeNpz \/ WipeCutOff \/ StopApi
    BY <2>1 DEF WipeNpz, WipeCutOff, StopApi, Goto, Completed, Idle, At
  <2>2. CASE Symlink \/ ApiRestart
    <3>1. \E n \in 1..13 : NextStage(n)
      BY <2>2 DEF Symlink, ApiRestart
    <3> QED
      BY <3>1, NextStageAt DEF Completed
  <2>3. CASE VerifyOk
    <3>1. script = [stage |-> 14, phase |-> "check"]
          /\ UNCHANGED <<knobs, clean, api, disk, ingest>> /\ (Wiped' <=> Wiped)
      BY <2>3 DEF VerifyOk, run, files, At, Wiped
    <3>2. Live /\ Wiped /\ Full /\ script.stage = 14
      BY <3>1 DEF Live, Full, Completed, Idle, At
    <3>3. New(api.serves.sources)
      BY <3>2 DEF NewInv
    <3> QED
      BY <3>1, <3>3 DEF New
  <2>4. CASE VerifyFails
    BY <2>4 DEF VerifyFails, End, Completed
  <2> QED
    BY <1>4, <2>1, <2>2, <2>3, <2>4 DEF Native
<1>5. CASE Interrupted
  BY <1>5 DEF Interrupted, End, Completed
<1>6. CASE Ingest
  <2>1. ingest' = ingest + 1 /\ ingest \in Nat /\ disk'["paved"] = disk["paved"]
    BY <1>6, RebuildAssumption DEF Ingest, Settled, Backing, Typed, TypeOK, File
  <2>2. disk["paved"].sources \subseteq (0..11) \X (1..ingest)
    BY DEF Settled, Backing, FileInv, Dated, File
  <2>3. <<1, ingest + 1>> \notin (0..11) \X (1..ingest)
    BY <2>1
  <2> QED
    BY <2>1, <2>2, <2>3
<1>7. CASE UNCHANGED vars
  BY <1>7 DEF vars, NewServed, Wiped, New, Completed, Full, Idle, At
<1> QED
  BY <1>1, <1>2, <1>3, <1>4, <1>5, <1>6, <1>7 DEF Next

-----------------------------------------------------------------------------
(* The theorems.                                                            *)

DataIInv == Settled /\ NpzInv /\ WholeInv /\ ServedInv /\ NewInv /\ NewServed

(* The invariant of a rebuild's data holds, for every set of knobs.         *)
THEOREM DataInductive == Spec => []DataIInv
<1>1. Init => DataIInv
  <2> SUFFICES ASSUME Init PROVE DataIInv
    OBVIOUS
  <2>1. Idle /\ outcome = "none"
    BY DEF Init, Idle, At
  <2>2. Quiet /\ WholeInv /\ ServedInv /\ NewInv /\ NewServed
    BY <2>1 DEF Quiet, WholeInv, ServedInv, NewInv, NewServed, FullyRebuilt, Completed, Live
  <2>3. NpzInv
    BY <2>1, NpzElsewhere DEF Idle, At, NpzInv
  <2> QED
    BY <2>2, <2>3, InitBacking, InitIInv DEF DataIInv, Settled
<1>2. DataIInv /\ [Next]_vars => DataIInv'
  BY NextSettled, NextNpz, NextWhole, NextServed, NextNew, NextNewServed DEF DataIInv
<1> QED
  BY <1>1, <1>2, PTL DEF Spec

(* The state of a rebuild stays within its types.                           *)
THEOREM RebuildTypeCorrect == Spec => []TypeOK
<1>1. DataIInv => TypeOK
  BY DEF DataIInv, Settled, Backing, Typed
<1> QED
  BY <1>1, DataInductive, PTL

(* Whatever died before, a rebuild that skips no stage by order and         *)
(* completes undisturbed deploys a whole database, unless Ctrl-C cut off    *)
(* the deletion of the old trees.                                           *)
THEOREM DeploysWhole == Spec => []CompleteIsWhole
<1>1. DataIInv => CompleteIsWhole
  BY DEF DataIInv, ServedInv, CompleteIsWhole
<1> QED
  BY <1>1, DataInductive, PTL

(* A full rebuild deploys what it computed from this ingest, but for the    *)
(* candidate snapshot, and unless the deletion was cut off.                 *)
THEOREM FullRunIsNew == Spec => []FullRunReplaces
<1>1. DataIInv => FullRunReplaces
  <2> SUFFICES ASSUME DataIInv, FullyRebuilt, Wiped
      PROVE  api.serves.sources \subseteq
               (Source \cap ((0..11) \X {ingest})) \cup disk["candidates"].sources
    BY DEF FullRunReplaces
  <2>1. New(api.serves.sources)
    BY DEF DataIInv, NewServed
  <2>2. api.serves.sources \subseteq Source
    BY DEF DataIInv, Settled, Backing, Typed, TypeOK, Content
  <2> QED
    BY <2>1, <2>2 DEF New
<1> QED
  BY <1>1, DataInductive, PTL

(* When stage 8 is done the trees are complete and of the polygons and      *)
(* anchors on disk, unless the deletion was cut off.                        *)
THEOREM TreesOfThesePolygons == Spec => NpzOfOnePolygonSet
<1>1. DataIInv => ((clean /\ StageOk(8) /\ Wiped) =>
        /\ disk["npz"].state = "whole"
        /\ disk["npz"].sources \subseteq
             disk["polys_json"].sources \cup disk["anchors"].sources \cup {<<8, ingest>>})
  <2> SUFFICES ASSUME DataIInv, clean, StageOk(8), Wiped
      PROVE  disk["npz"].state = "whole" /\ OfThesePolygons(disk["npz"].sources)
    BY DEF OfThesePolygons
  <2>1. At(8, "wait") /\ box[8].at = "ok" /\ 8 \in Stage
    BY DEF StageOk, Stage
  <2>2. Done(8, "npz")
    BY <2>1, EmptyHasNone DEF Done, DataIInv, Settled, Backing, WorkInv, Work
  <2> QED
    BY <2>1, <2>2 DEF DataIInv, NpzInv
<1> QED
  BY <1>1, DataInductive, PTL DEF NpzOfOnePolygonSet

(* However a rebuild ends, the dashboard shows what the stages left.        *)
THEOREM DashboardIsCurrent == Spec => WebShowsTheData
<1>1. DataIInv /\ [Next]_vars => (UNCHANGED vars \/ ((~Idle /\ Idle') =>
        \A f \in WebFile : disk[f] # Missing => web'[f] = disk[f]))
  <2> SUFFICES ASSUME DataIInv, Next, ~Idle, Idle'
      PROVE  \A f \in WebFile : disk[f] # Missing => web'[f] = disk[f]
    OBVIOUS
  <2>1. Publish => \A f \in WebFile : disk[f] # Missing => web'[f] = disk[f]
    BY DEF Publish
  <2>2. ASSUME NEW k \in KnobSets, Start(k) PROVE FALSE
    BY <2>2 DEF Start
  <2>3. ASSUME NEW n \in Stage, StageCall(n) PROVE Publish
    <3>1. CASE Skip(n) \/ StageOk(n)
      <4>1. n \in 1..13 /\ NextStage(n)
        BY <3>1 DEF Skip, StageOk, Stage
      <4> QED
        BY <4>1, NextStageAt
    <3>2. CASE Launch(n)
      BY <3>2 DEF Launch, Goto, Idle, At
    <3>3. CASE NameTaken(n) \/ StageFails(n)
      BY <3>3 DEF NameTaken, StageFails, End
    <3> QED
      BY <2>3, <3>1, <3>2, <3>3 DEF StageCall
  <2>4. ASSUME NEW n \in Stage, Container(n) PROVE FALSE
    BY <2>4, ContainerFrame DEF DataIInv, Settled, IInv, Idle, At
  <2>5. ASSUME Native PROVE Publish
    <3>1. CASE WipeNpz \/ WipeCutOff \/ StopApi
      BY <3>1 DEF WipeNpz, WipeCutOff, StopApi, Goto, Idle, At
    <3>2. CASE Symlink \/ ApiRestart
      BY <3>2, NextStageAt DEF Symlink, ApiRestart
    <3>3. CASE VerifyOk \/ VerifyFails
      BY <3>3 DEF VerifyOk, VerifyFails, End
    <3> QED
      BY <2>5, <3>1, <3>2, <3>3 DEF Native
  <2>6. Interrupted => Publish
    BY DEF Interrupted, End
  <2>7. ~Ingest
    BY DEF Ingest
  <2> QED
    BY <2>1, <2>2, <2>3, <2>4, <2>5, <2>6, <2>7 DEF Next
<1> QED
  BY <1>1, DataInductive, PTL DEF WebShowsTheData, Spec
=============================================================================
