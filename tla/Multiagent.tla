----------------------------- MODULE Multiagent -----------------------------
(***************************************************************************)
(* The flagship planner, multiagent.py's run_multiagent_plan: a supervisor *)
(* agent decomposes the trip, one task per segment runs a segment agent    *)
(* under a semaphore, the tasks pipe their frames through one queue to the *)
(* coordinator, which forwards them and, when it has counted one sentinel  *)
(* per task, merges the segments' results into the final plan.             *)
(*                                                                         *)
(* Everything runs on one event loop, so code between two awaits is one    *)
(* action; the queue is unbounded, so queue.put never suspends.  An agent  *)
(* is seen as AgentStream does: frames, a submission, an orderly return or *)
(* an exception or timeout (ChatLoop implements it).                       *)
(***************************************************************************)
EXTENDS Naturals, Sequences, FiniteSets

CONSTANTS MaxSegs,      \* bound: segments of a plan
          Idx,          \* segment_i values the supervisor may use
          UniqueIdx,    \* TRUE: the supervisor numbers its segments apart
          MaxParallel,  \* MAX_PARALLEL_AGENTS
          MaxChunks,    \* bound: frames an agent streams besides those modelled
          Days,         \* n_days a segment result may have
          ProfileLoads  \* TRUE: the routing profile's files are there

ASSUME MultiagentAssumption ==
  /\ MaxSegs \in Nat
  /\ Idx \subseteq Nat
  /\ UniqueIdx \in BOOLEAN
  /\ MaxParallel \in Nat \ {0}
  /\ MaxChunks \in Nat
  /\ Days \subseteq Nat
  /\ ProfileLoads \in BOOLEAN

VARIABLES
  coord,           \* where the coordinator is
  plan,            \* segment_i of each SegmentSpec, in the supervisor's order
  announced,       \* how many agent_start frames of segments were yielded
  task,            \* each segment task's position in _run_one
  permits,         \* the semaphore's value
  chunks,          \* frames each agent has streamed
  captured,        \* result_captured: empty, or holding the last submission's n_days
  results,         \* results, by segment_i
  queue,           \* the shared queue
  done_sentinels,  \* sentinels counted by the coordinator
  fwd,             \* frames about each segment forwarded to the client, in order
  merged,          \* sections of the final plan, in the order they are written
  day_offset       \* riding days before the next section

vars == <<coord, plan, announced, task, permits, chunks, captured, results, queue,
          done_sentinels, fwd, merged, day_offset>>

-----------------------------------------------------------------------------
Seg == 1..MaxSegs
Segs == 1..Len(plan)     \* the segments of this plan, by position

NoResult == [status |-> "none", seg |-> 0, days |-> 0]
Result == [status : {"ok", "failed"}, seg : Seg, days : Days \cup {0}]

(* Frames about a segment.  The end frame is named by the status it carries.*)
FrameKind == {"start", "chunk", "committed", "ok", "failed"}
Item(k, s) == [kind |-> k, seg |-> s]
QueueItem == [kind : FrameKind \cup {"sentinel"}, seg : Seg]

(* A decomposition validates as soon as it is a list: it may be empty, and  *)
(* nothing checks that its numbers are distinct or ascending.               *)
Plans == { p \in UNION {[1..n -> Idx] : n \in 0..MaxSegs} :
             UniqueIdx => \A i, j \in DOMAIN p : p[i] = p[j] => i = j }

Running == {s \in Seg : task[s] = "running"}

Present == {"supervisor", "announcing", "draining", "merging"}

-----------------------------------------------------------------------------
Init ==
  /\ coord = "supervisor"
  /\ plan = <<>>
  /\ announced = 0
  /\ task = [s \in Seg |-> "none"]
  /\ permits = MaxParallel
  /\ chunks = [s \in Seg |-> 0]
  /\ captured = [s \in Seg |-> {}]
  /\ results = [i \in Idx |-> NoResult]
  /\ queue = <<>>
  /\ done_sentinels = 0
  /\ fwd = [s \in Seg |-> <<>>]
  /\ merged = <<>>
  /\ day_offset = 0

-----------------------------------------------------------------------------
(* The coordinator.                                                         *)

taskVars == <<task, permits, chunks, captured, results>>

(* finalize_segment_plan captured a plan and the supervisor returned.       *)
SupervisorPlans(p) ==
  /\ coord = "supervisor"
  /\ plan' = p
  /\ coord' = "announcing"
  /\ UNCHANGED <<announced, taskVars, queue, done_sentinels, fwd, merged, day_offset>>

(* No plan, or the supervisor raised: error and done, no fan-out.           *)
SupervisorFails ==
  /\ coord = "supervisor"
  /\ coord' = "refused"
  /\ UNCHANGED <<plan, announced, taskVars, queue, done_sentinels, fwd, merged, day_offset>>

(* agent_start of every segment, in the plan's order, before any task runs. *)
AnnounceSegment ==
  /\ coord = "announcing"
  /\ announced < Len(plan)
  /\ announced' = announced + 1
  /\ fwd' = [fwd EXCEPT ![announced + 1] = Append(@, "start")]
  /\ UNCHANGED <<coord, plan, taskVars, queue, done_sentinels, merged, day_offset>>

CreateTasks ==
  /\ coord = "announcing"
  /\ announced = Len(plan)
  /\ task' = [s \in Seg |-> IF s \in Segs THEN "waiting" ELSE "none"]
  /\ coord' = "draining"
  /\ UNCHANGED <<plan, announced, permits, chunks, captured, results, queue,
                 done_sentinels, fwd, merged, day_offset>>

(* Slip: one task too few is waited for.                                    *)
GatherEarly ==
  /\ coord = "draining"
  /\ done_sentinels + 1 >= Len(plan)
  /\ coord' = "merging"
  /\ UNCHANGED <<plan, announced, taskVars, queue, done_sentinels, fwd, merged, day_offset>>

(* queue.get: a sentinel is counted, anything else is forwarded.            *)
Forward ==
  /\ coord = "draining"
  /\ done_sentinels < Len(plan)
  /\ queue # <<>>
  /\ queue' = Tail(queue)
  /\ LET item == Head(queue) IN
       \/ /\ item.kind = "sentinel"
          /\ done_sentinels' = done_sentinels + 1
          /\ UNCHANGED fwd
       \/ /\ item.kind # "sentinel"
          /\ fwd' = [fwd EXCEPT ![item.seg] = Append(@, item.kind)]
          /\ UNCHANGED done_sentinels
  /\ UNCHANGED <<coord, plan, announced, taskVars, merged, day_offset>>

(* The drain loop ends at one sentinel per task; gather waits for the tasks.*)
Gather ==
  /\ coord = "draining"
  /\ done_sentinels = Len(plan)
  /\ \A s \in Segs : task[s] \in {"finished", "crashed"}
  /\ coord' = "merging"
  /\ UNCHANGED <<plan, announced, taskVars, queue, done_sentinels, fwd, merged, day_offset>>

Written == {merged[k].idx : k \in DOMAIN merged}
Unwritten == {i \in Idx : results[i] # NoResult /\ i \notin Written}

(* Slip: the sections are written in the order the results came in.         *)
MergeSectionUnsorted ==
  /\ coord = "merging"
  /\ \E i \in Unwritten :
       /\ merged' = Append(merged, [idx |-> i, seg |-> results[i].seg,
                                    first |-> day_offset + 1, days |-> results[i].days])
       /\ day_offset' = day_offset + results[i].days
  /\ UNCHANGED <<coord, plan, announced, taskVars, queue, done_sentinels, fwd>>

(* sorted(results): the next section is renumbered from the running offset. *)
MergeSection ==
  /\ coord = "merging"
  /\ \E i \in Unwritten :
       /\ \A j \in Unwritten : i <= j
       /\ merged' = Append(merged, [idx |-> i, seg |-> results[i].seg,
                                    first |-> day_offset + 1, days |-> results[i].days])
       /\ day_offset' = day_offset + results[i].days
  /\ UNCHANGED <<coord, plan, announced, taskVars, queue, done_sentinels, fwd>>

MergeDone ==
  /\ coord = "merging"
  /\ Unwritten = {}
  /\ coord' = "closed"
  /\ UNCHANGED <<plan, announced, taskVars, queue, done_sentinels, fwd, merged, day_offset>>

(* The client goes away: the generator is closed where it is suspended.     *)
(* Nothing cancels the tasks.                                               *)
Disconnect ==
  /\ coord \in Present
  /\ coord' = "gone"
  /\ UNCHANGED <<plan, announced, taskVars, queue, done_sentinels, fwd, merged, day_offset>>

-----------------------------------------------------------------------------
(* A segment's task.                                                        *)

coordVars == <<coord, plan, announced, done_sentinels, fwd, merged, day_offset>>

Acquire(s) ==
  /\ task[s] = "waiting"
  /\ permits > 0
  /\ permits' = permits - 1
  /\ task' = [task EXCEPT ![s] = "running"]
  /\ UNCHANGED <<coordVars, chunks, captured, results, queue>>

StreamFrame(s) ==
  /\ task[s] = "running"
  /\ chunks[s] < MaxChunks
  /\ chunks' = [chunks EXCEPT ![s] = @ + 1]
  /\ queue' = Append(queue, Item("chunk", s))
  /\ UNCHANGED <<coordVars, task, permits, captured, results>>

(* submit_segment validates and is acknowledged; the agent's loop goes on.  *)
Submit(s, d) ==
  /\ task[s] = "running"
  /\ captured' = [captured EXCEPT ![s] = {d}]
  /\ UNCHANGED <<coordVars, task, permits, chunks, results, queue>>

(* The agent returned what it captured: the semaphore is released, the      *)
(* result recorded, and the precise route is awaited outside the semaphore. *)
AgentReturns(s) ==
  /\ task[s] = "running"
  /\ \E d \in captured[s] :
       results' = [results EXCEPT ![plan[s]] = [status |-> "ok", seg |-> s, days |-> d]]
  /\ permits' = permits + 1
  /\ task' = [task EXCEPT ![s] = "upgrading"]
  /\ UNCHANGED <<coordVars, chunks, captured, queue>>

(* Slip: a timed-out agent's submission is recorded as a success.           *)
AgentFailsAsOk(s) ==
  /\ task[s] = "running"
  /\ permits' = permits + 1
  /\ results' = [results EXCEPT ![plan[s]] =
       [status |-> IF captured[s] = {} THEN "failed" ELSE "ok", seg |-> s, days |-> 0]]
  /\ queue' = queue \o <<Item("failed", s), Item("sentinel", s)>>
  /\ task' = [task EXCEPT ![s] = "finished"]
  /\ UNCHANGED <<coordVars, chunks, captured>>

(* Slip: the failure path sends no sentinel.                                *)
AgentFailsSilently(s) ==
  /\ task[s] = "running"
  /\ permits' = permits + 1
  /\ results' = [results EXCEPT ![plan[s]] = [status |-> "failed", seg |-> s, days |-> 0]]
  /\ queue' = Append(queue, Item("failed", s))
  /\ task' = [task EXCEPT ![s] = "finished"]
  /\ UNCHANGED <<coordVars, chunks, captured>>

(* Slip: a bounded queue, which a coordinator that has gone no longer reads.*)
AgentFailsBlocking(s) ==
  /\ task[s] = "running"
  /\ Len(queue) < 2
  /\ permits' = permits + 1
  /\ results' = [results EXCEPT ![plan[s]] = [status |-> "failed", seg |-> s, days |-> 0]]
  /\ queue' = queue \o <<Item("failed", s), Item("sentinel", s)>>
  /\ task' = [task EXCEPT ![s] = "finished"]
  /\ UNCHANGED <<coordVars, chunks, captured>>

(* No result: the agent returned without a submission, raised, or was       *)
(* cancelled by the timeout.  A placeholder stands in for the segment, and  *)
(* the end frame and the sentinel follow in the same step.                  *)
AgentFails(s) ==
  /\ task[s] = "running"
  /\ permits' = permits + 1
  /\ results' = [results EXCEPT ![plan[s]] = [status |-> "failed", seg |-> s, days |-> 0]]
  /\ queue' = queue \o <<Item("failed", s), Item("sentinel", s)>>
  /\ task' = [task EXCEPT ![s] = "finished"]
  /\ UNCHANGED <<coordVars, chunks, captured>>

(* Slip: the end is announced before the commit.                            *)
CommitAfterEnd(s) ==
  /\ task[s] = "upgrading"
  /\ queue' = queue \o <<Item("ok", s), Item("committed", s), Item("sentinel", s)>>
  /\ task' = [task EXCEPT ![s] = "finished"]
  /\ UNCHANGED <<coordVars, permits, chunks, captured, results>>

(* The precise route came, failed or timed out; a polyline was found or not.*)
CommitSegment(s) ==
  /\ task[s] = "upgrading"
  /\ queue' = queue \o <<Item("committed", s), Item("ok", s), Item("sentinel", s)>>
  /\ task' = [task EXCEPT ![s] = "finished"]
  /\ UNCHANGED <<coordVars, permits, chunks, captured, results>>

(* _coord_of_ref loads the profile outside the try: without its files the   *)
(* task dies here, with no frame and no sentinel.                           *)
CommitRaises(s) ==
  /\ task[s] = "upgrading"
  /\ ~ProfileLoads
  /\ task' = [task EXCEPT ![s] = "crashed"]
  /\ UNCHANGED <<coordVars, permits, chunks, captured, results, queue>>

-----------------------------------------------------------------------------
Coordinator ==
  (\E p \in Plans : SupervisorPlans(p)) \/ SupervisorFails \/ AnnounceSegment \/ CreateTasks
  \/ Forward \/ Gather \/ MergeSection \/ MergeDone

TaskEnds(s) == AgentReturns(s) \/ AgentFails(s) \/ CommitSegment(s) \/ CommitRaises(s)

TaskStep(s) == Acquire(s) \/ StreamFrame(s) \/ (\E d \in Days : Submit(s, d)) \/ TaskEnds(s)

Next == Coordinator \/ Disconnect \/ \E s \in Seg : TaskStep(s)

(* The event loop runs every ready task; SEGMENT_TIMEOUT_S ends a stalled   *)
(* agent and the precise route's own timeout ends the upgrade.              *)
Spec == /\ Init /\ [][Next]_vars
        /\ WF_vars(Coordinator)
        /\ \A s \in Seg : WF_vars(Acquire(s)) /\ WF_vars(TaskEnds(s))

-----------------------------------------------------------------------------
(* Properties.                                                              *)

TypeOK ==
  /\ coord \in Present \cup {"refused", "closed", "gone"}
  /\ plan \in Plans
  /\ announced \in 0..MaxSegs
  /\ task \in [Seg -> {"none", "waiting", "running", "upgrading", "finished", "crashed"}]
  /\ permits \in 0..MaxParallel
  /\ chunks \in [Seg -> 0..MaxChunks]
  /\ captured \in [Seg -> SUBSET Days]
  /\ results \in [Idx -> Result \cup {NoResult}]
  /\ queue \in Seq(QueueItem)
  /\ done_sentinels \in 0..MaxSegs
  /\ fwd \in [Seg -> Seq(FrameKind)]
  /\ merged \in Seq([idx : Idx, seg : Seg, first : Nat, days : Nat])
  /\ day_offset \in Nat

(* No more than MAX_PARALLEL_AGENTS segment agents hold an LLM session at   *)
(* once, and no path through a task, failure or timeout included, leaks or  *)
(* invents a permit (multiagent.py 315, 354).                               *)
PermitsConserved == permits + Cardinality(Running) = MaxParallel

SeqToSet(q) == {q[i] : i \in DOMAIN q}

(* The moments of a segment's story, oldest first: what was forwarded about *)
(* it, then what is queued about it.                                        *)
Moments(s) == DOMAIN fwd[s] \cup {Len(fwd[s]) + j : j \in {i \in DOMAIN queue : queue[i].seg = s}}
Said(s, m) == IF m \in DOMAIN fwd[s] THEN fwd[s][m] ELSE queue[m - Len(fwd[s])].kind
Follows(s, m, n) == m < n /\ \A k \in Moments(s) : k <= m \/ n <= k

(* A segment's frames reach the browser as a story with one ending: nothing *)
(* before its start, a commit only right before the ok end, nothing after   *)
(* the end but the task's sentinel (multiagent.py 318-324, 450-468).        *)
StoryOfSegment ==
  \A s \in Segs : \A m \in Moments(s) :
    /\ Said(s, m) = "start" <=> \A n \in Moments(s) : m <= n
    /\ Said(s, m) = "ok" => \E n \in Moments(s) : Follows(s, n, m) /\ Said(s, n) = "committed"
    /\ Said(s, m) = "committed" => \E n \in Moments(s) : Follows(s, m, n) /\ Said(s, n) = "ok"
    /\ Said(s, m) \in {"ok", "failed"} =>
         \A n \in Moments(s) : n > m => Said(s, n) = "sentinel" /\ Follows(s, m, n)

(* The plan is merged only when every frame of every segment has gone out:  *)
(* none is left behind in the queue and every segment was seen to end       *)
(* (multiagent.py 472-479).                                                 *)
MergeAfterEveryFrame ==
  coord \in {"merging", "closed"} =>
    /\ queue = <<>>
    /\ \A s \in Segs : fwd[s] # <<>> /\ fwd[s][Len(fwd[s])] \in {"ok", "failed"}

(* The status a segment's bubble ends with is the status its section of the *)
(* merged plan is written with (multiagent.py 363-383, 461-468, 567).       *)
StatusAgrees ==
  \A s \in Segs : \A f \in {"ok", "failed"} :
    f \in SeqToSet(fwd[s]) => results[plan[s]].status = f

(* The final plan has one section for every segment the supervisor asked    *)
(* for, ordered by segment_i whatever the order they finished in, and its   *)
(* days run on from section to section without a gap (multiagent.py         *)
(* 489-496, 535-574).                                                       *)
MergedPlanComplete ==
  coord = "closed" =>
    /\ {merged[k].seg : k \in DOMAIN merged} = Segs
    /\ Len(merged) = Len(plan)
    /\ \A k \in DOMAIN merged :
         IF k = 1 THEN merged[k].first = 1
         ELSE /\ merged[k-1].idx < merged[k].idx
              /\ merged[k].first = merged[k-1].first + merged[k-1].days

(* A request that is not abandoned comes to an end (multiagent.py 470-528). *)
PlanCompletes == <>(coord \in {"closed", "refused", "gone"})

(* Tasks whose client went away run to their end and give their permits     *)
(* back: nothing waits for the queue to be read.                            *)
OrphansFinish ==
  \A s \in Seg : task[s] = "waiting" ~> task[s] \in {"finished", "crashed"}

(* A task that dies of an uncaught exception is collected and the request   *)
(* goes on (what the comment at multiagent.py 478 says of the gather).      *)
CrashesSurface == \A s \in Seg : task[s] = "crashed" ~> coord # "draining"

(* To the browser the coordinator is a fan-out that joins.                  *)
Sight(s) == IF fwd[s] = <<>> THEN "hidden"
            ELSE LET f == fwd[s][Len(fwd[s])] IN
                 IF f \in {"start", "chunk"} THEN "open" ELSE f

Phase == IF coord \in {"supervisor", "announcing"} THEN "announcing"
         ELSE IF coord = "draining" THEN "open"
         ELSE IF coord \in {"merging", "closed"} THEN "joined"
         ELSE IF coord = "refused" THEN "refused"
         ELSE "abandoned"

Browser == INSTANCE FanOut WITH
  Job <- Seg,
  Commits <- TRUE,
  phase <- Phase,
  seen <- [s \in Seg |-> Sight(s)]

ImplementsFanOut == Browser!Spec
=============================================================================
