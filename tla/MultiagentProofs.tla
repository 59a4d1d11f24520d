-------------------------- MODULE MultiagentProofs --------------------------
(***************************************************************************)
(* Theorems about the multi-agent coordinator, for every number of         *)
(* segments, every semaphore size and every plan: what Multiagent.cfg      *)
(* checks for three segments.                                              *)
(***************************************************************************)
EXTENDS Multiagent, FiniteSetTheorems, SequenceTheorems, FunctionTheorems, TLAPS

EndKind == {"ok", "failed"}

-----------------------------------------------------------------------------
(* Tasks exist only between the fan-out and the end, and only for segments  *)
(* of the plan.                                                             *)
PlanInv ==
  /\ coord \in {"supervisor", "announcing"} =>
       /\ \A s \in Seg : task[s] = "none"
       /\ queue = <<>>
       /\ done_sentinels = 0
  /\ \A s \in Seg : task[s] # "none" => s \in Segs
  /\ coord \in {"merging", "closed"} => done_sentinels = Len(plan)

(* A task's last two items are its end frame and its sentinel, in this      *)
(* order, and they are in the queue only once the task has finished.        *)
QueueInv ==
  /\ \A i \in 1..Len(queue) :
       /\ task[queue[i].seg] # "none"
       /\ queue[i].kind \in EndKind \cup {"sentinel"} => task[queue[i].seg] = "finished"
  /\ \A i, j \in 1..Len(queue) :
       (queue[i].seg = queue[j].seg /\ i < j) =>
         /\ queue[i].kind # "sentinel"
         /\ queue[i].kind \in EndKind => queue[j].kind = "sentinel"

(* A finished task's end frame is still to come, with its sentinel behind   *)
(* it, or has been forwarded as the last frame about its segment.           *)
EndQueued(s) ==
  \E i, j \in 1..Len(queue) :
    /\ i < j
    /\ queue[i].seg = s /\ queue[i].kind \in EndKind
    /\ queue[j].seg = s /\ queue[j].kind = "sentinel"

EndForwarded(s) ==
  /\ Len(fwd[s]) > 0 /\ fwd[s][Len(fwd[s])] \in EndKind
  /\ \A j \in 1..Len(queue) : queue[j].seg = s => queue[j].kind = "sentinel"

EndInv == \A s \in Seg : task[s] = "finished" => EndQueued(s) \/ EndForwarded(s)

(* The coordinator has counted exactly the finished tasks whose sentinel is *)
(* no longer in the queue.                                                  *)
Awaited == {s \in Seg : \E j \in 1..Len(queue) : queue[j].seg = s /\ queue[j].kind = "sentinel"}
Counted == {s \in Seg : task[s] = "finished"} \ Awaited
CountInv == done_sentinels = Cardinality(Counted)

IInv == TypeOK /\ PermitsConserved /\ PlanInv /\ QueueInv /\ EndInv /\ CountInv

-----------------------------------------------------------------------------
(* Facts about the data.                                                    *)

(* A plan is a sequence of segment numbers of bounded length.               *)
LEMMA PlanIsSeq == ASSUME NEW p \in Plans
                   PROVE  p \in Seq(Idx) /\ Len(p) \in 0..MaxSegs
<1>1. PICK n \in 0..MaxSegs : p \in [1..n -> Idx]
  BY DEF Plans
<1>2. n \in Nat
  BY MultiagentAssumption
<1>3. p \in Seq(Idx)
  BY <1>1, <1>2
<1>4. Len(p) = n
  BY <1>1, <1>2, <1>3, LenProperties
<1> QED
  BY <1>3, <1>4

(* The tasks that run are finitely many.                                    *)
LEMMA SegFinite == IsFiniteSet(Seg) /\ Cardinality(Seg) = MaxSegs
  BY MultiagentAssumption, FS_Interval DEF Seg

(* Permits are held by finitely many tasks.                                 *)
LEMMA RunningFinite == IsFiniteSet(Running) /\ Cardinality(Running) \in Nat
  BY SegFinite, FS_Subset, FS_CardinalityType DEF Running

(* What the end of a task appends to the queue, item by item.               *)
LEMMA PushTwo ==
  ASSUME NEW S, NEW q \in Seq(S), NEW a \in S, NEW b \in S
  PROVE  /\ q \o <<a, b>> \in Seq(S)
         /\ Len(q \o <<a, b>>) = Len(q) + 2
         /\ \A i \in 1..Len(q) : (q \o <<a, b>>)[i] = q[i]
         /\ (q \o <<a, b>>)[Len(q) + 1] = a
         /\ (q \o <<a, b>>)[Len(q) + 2] = b
<1>1. <<a, b>> \in Seq(S) /\ Len(<<a, b>>) = 2 /\ <<a, b>>[1] = a /\ <<a, b>>[2] = b
  OBVIOUS
<1>2. Len(q) \in Nat
  OBVIOUS
<1> QED
  BY <1>1, <1>2, ConcatProperties

(* What a task queues at its end: three items behind the rest.              *)
LEMMA PushThree ==
  ASSUME NEW S, NEW q \in Seq(S), NEW a \in S, NEW b \in S, NEW c \in S
  PROVE  /\ q \o <<a, b, c>> \in Seq(S)
         /\ Len(q \o <<a, b, c>>) = Len(q) + 3
         /\ \A i \in 1..Len(q) : (q \o <<a, b, c>>)[i] = q[i]
         /\ (q \o <<a, b, c>>)[Len(q) + 1] = a
         /\ (q \o <<a, b, c>>)[Len(q) + 2] = b
         /\ (q \o <<a, b, c>>)[Len(q) + 3] = c
<1>1. /\ <<a, b, c>> \in Seq(S) /\ Len(<<a, b, c>>) = 3
      /\ <<a, b, c>>[1] = a /\ <<a, b, c>>[2] = b /\ <<a, b, c>>[3] = c
  OBVIOUS
<1>2. Len(q) \in Nat
  OBVIOUS
<1> QED
  BY <1>1, <1>2, ConcatProperties

-----------------------------------------------------------------------------
(* Types and permits.  The range of permits needs their conservation, so    *)
(* the two are proved together.                                             *)

(* A request begins well-typed and with every permit free.                  *)
LEMMA InitTypes == Init => TypeOK /\ PermitsConserved
<1> SUFFICES ASSUME Init PROVE TypeOK /\ PermitsConserved
  OBVIOUS
<1> USE MultiagentAssumption DEF Init
<1>1. plan \in Plans
  <2>1. <<>> \in [1..0 -> Idx]
    OBVIOUS
  <2> QED
    BY <2>1 DEF Plans
<1>2. Running = {}
  BY DEF Running
<1>3. PermitsConserved
  BY <1>2, FS_EmptySet DEF PermitsConserved
<1>4. TypeOK
  BY <1>1 DEF TypeOK, Present, Seg
<1> QED
  BY <1>3, <1>4

(* A task that leaves the set of running tasks gives its permit back.       *)
LEMMA Release ==
  ASSUME TypeOK, PermitsConserved, NEW s \in Seg, task[s] = "running",
         permits' = permits + 1,
         NEW t, t # "running", task' = [task EXCEPT ![s] = t]
  PROVE  PermitsConserved' /\ permits' \in 0..MaxParallel
<1>1. Running' = Running \ {s}
  BY DEF Running, TypeOK
<1>2. s \in Running
  BY DEF Running
<1>3. Cardinality(Running') = Cardinality(Running) - 1
  BY <1>1, <1>2, RunningFinite, FS_RemoveElement
<1>4. IsFiniteSet(Running') /\ Cardinality(Running') \in Nat
  BY <1>1, RunningFinite, FS_RemoveElement, FS_CardinalityType
<1> QED
  BY <1>3, <1>4, RunningFinite, MultiagentAssumption DEF PermitsConserved, TypeOK

(* Each step keeps types, and no permit is lost or invented.                *)
LEMMA TypeStep ==
  TypeOK /\ PermitsConserved /\ PlanInv /\ [Next]_vars => TypeOK' /\ PermitsConserved'
<1> SUFFICES ASSUME TypeOK, PermitsConserved, PlanInv, [Next]_vars
             PROVE  TypeOK' /\ PermitsConserved'
  OBVIOUS
<1> USE MultiagentAssumption
<1>0. /\ plan \in Seq(Idx) /\ Len(plan) \in 0..MaxSegs
      /\ queue \in Seq(QueueItem) /\ done_sentinels \in 0..MaxSegs
  BY PlanIsSeq DEF TypeOK
<1>a. ASSUME task' = task, permits' = permits
      PROVE  PermitsConserved'
  BY <1>a DEF PermitsConserved, Running
<1>1. ASSUME NEW p \in Plans, SupervisorPlans(p)
      PROVE  TypeOK' /\ PermitsConserved'
  BY <1>1, <1>a DEF SupervisorPlans, TypeOK, taskVars, Present
<1>2. CASE SupervisorFails
  BY <1>2, <1>a DEF SupervisorFails, TypeOK, taskVars, Present
<1>3. CASE AnnounceSegment
  <2>1. announced' \in 0..MaxSegs /\ announced + 1 \in Seg
    BY <1>0, <1>3 DEF AnnounceSegment, TypeOK, Seg
  <2>2. fwd' \in [Seg -> Seq(FrameKind)]
    BY <1>3, <2>1 DEF AnnounceSegment, TypeOK, FrameKind
  <2> QED
    BY <1>3, <1>a, <2>1, <2>2 DEF AnnounceSegment, TypeOK, taskVars
<1>4. CASE CreateTasks
  <2>1. Running = {} /\ Running' = {}
    BY <1>4 DEF CreateTasks, PlanInv, Running
  <2>2. PermitsConserved'
    BY <1>4, <2>1 DEF CreateTasks, PermitsConserved
  <2> QED
    BY <1>4, <2>2 DEF CreateTasks, TypeOK, Present
<1>5. CASE Forward
  <2>1. /\ queue # <<>> /\ Head(queue) \in QueueItem /\ Tail(queue) \in Seq(QueueItem)
    BY <1>0, <1>5, HeadTailProperties DEF Forward
  <2>2. done_sentinels' \in 0..MaxSegs
    BY <1>0, <1>5 DEF Forward
  <2>3. fwd' \in [Seg -> Seq(FrameKind)]
    <3>1. CASE UNCHANGED fwd
      BY <3>1 DEF TypeOK
    <3>2. CASE /\ Head(queue).kind # "sentinel"
               /\ fwd' = [fwd EXCEPT ![Head(queue).seg] = Append(@, Head(queue).kind)]
      <4>1. Head(queue).kind \in FrameKind /\ Head(queue).seg \in Seg
        BY <2>1, <3>2 DEF QueueItem
      <4> QED
        BY <3>2, <4>1 DEF TypeOK
    <3> QED
      BY <1>5, <3>1, <3>2 DEF Forward
  <2> QED
    BY <1>5, <1>a, <2>1, <2>2, <2>3 DEF Forward, TypeOK, taskVars
<1>6. CASE Gather
  BY <1>6, <1>a DEF Gather, TypeOK, taskVars, Present
<1>7. CASE MergeSection
  <2>1. PICK i \in Unwritten :
          /\ merged' = Append(merged, [idx |-> i, seg |-> results[i].seg,
                                       first |-> day_offset + 1, days |-> results[i].days])
          /\ day_offset' = day_offset + results[i].days
    BY <1>7 DEF MergeSection
  <2>2. i \in Idx /\ results[i] \in Result
    BY <2>1 DEF Unwritten, TypeOK
  <2>3. results[i].seg \in Seg /\ results[i].days \in Nat
    <3>1. results[i].seg \in Seg /\ results[i].days \in Days \cup {0}
      BY <2>2 DEF Result
    <3>2. \A d \in Days \cup {0} : d \in Nat
      BY DEF MultiagentAssumption
    <3> QED
      BY <3>1, <3>2
  <2>4. day_offset' \in Nat /\ merged' \in Seq([idx : Idx, seg : Seg, first : Nat, days : Nat])
    BY <2>1, <2>2, <2>3 DEF TypeOK
  <2> QED
    BY <1>7, <1>a, <2>4 DEF MergeSection, TypeOK, taskVars
<1>8. CASE MergeDone
  BY <1>8, <1>a DEF MergeDone, TypeOK, taskVars, Present
<1>9. CASE Disconnect
  BY <1>9, <1>a DEF Disconnect, TypeOK, taskVars, Present
<1>10. ASSUME NEW s \in Seg, Acquire(s)
       PROVE  TypeOK' /\ PermitsConserved'
  <2>1. Running' = Running \cup {s} /\ s \notin Running
    BY <1>10 DEF Acquire, Running, TypeOK
  <2>2. Cardinality(Running') = Cardinality(Running) + 1
    BY <2>1, RunningFinite, FS_AddElement
  <2>3. PermitsConserved'
    BY <1>10, <2>2, RunningFinite DEF Acquire, PermitsConserved, TypeOK
  <2> QED
    BY <1>10, <2>3 DEF Acquire, TypeOK, coordVars
<1>11. ASSUME NEW s \in Seg, StreamFrame(s)
       PROVE  TypeOK' /\ PermitsConserved'
  <2>1. queue' \in Seq(QueueItem)
    BY <1>0, <1>11 DEF StreamFrame, Item, QueueItem, FrameKind
  <2> QED
    BY <1>11, <1>a, <2>1 DEF StreamFrame, TypeOK, coordVars
<1>12. ASSUME NEW s \in Seg, NEW d \in Days, Submit(s, d)
       PROVE  TypeOK' /\ PermitsConserved'
  BY <1>12, <1>a DEF Submit, TypeOK, coordVars
<1>13. ASSUME NEW s \in Seg, AgentReturns(s)
       PROVE  TypeOK' /\ PermitsConserved'
  <2>1. PICK d \in captured[s] :
          results' = [results EXCEPT ![plan[s]] = [status |-> "ok", seg |-> s, days |-> d]]
    BY <1>13 DEF AgentReturns
  <2>2. results' \in [Idx -> Result \cup {NoResult}]
    BY <2>1 DEF TypeOK, Result
  <2>3. PermitsConserved' /\ permits' \in 0..MaxParallel
    BY <1>13, Release DEF AgentReturns
  <2> QED
    BY <1>13, <2>2, <2>3 DEF AgentReturns, TypeOK, coordVars
<1>14. ASSUME NEW s \in Seg, AgentFails(s)
       PROVE  TypeOK' /\ PermitsConserved'
  <2>1. results' \in [Idx -> Result \cup {NoResult}]
    BY <1>14 DEF AgentFails, TypeOK, Result
  <2>2. PermitsConserved' /\ permits' \in 0..MaxParallel
    BY <1>14, Release DEF AgentFails
  <2>3. Item("failed", s) \in QueueItem /\ Item("sentinel", s) \in QueueItem
    BY DEF Item, QueueItem, FrameKind
  <2>4. queue' \in Seq(QueueItem)
    BY <1>0, <1>14, <2>3, PushTwo DEF AgentFails
  <2> QED
    BY <1>14, <2>1, <2>2, <2>4 DEF AgentFails, TypeOK, coordVars
<1>15. ASSUME NEW s \in Seg, CommitSegment(s)
       PROVE  TypeOK' /\ PermitsConserved'
  <2>1. Running' = Running
    BY <1>15 DEF CommitSegment, Running, TypeOK
  <2>2. /\ Item("committed", s) \in QueueItem /\ Item("ok", s) \in QueueItem
        /\ Item("sentinel", s) \in QueueItem
    BY DEF Item, QueueItem, FrameKind
  <2>3. queue' \in Seq(QueueItem)
    BY <1>0, <1>15, <2>2, PushThree DEF CommitSegment
  <2> QED
    BY <1>15, <2>1, <2>3 DEF CommitSegment, TypeOK, PermitsConserved, coordVars
<1>16. ASSUME NEW s \in Seg, CommitRaises(s)
       PROVE  TypeOK' /\ PermitsConserved'
  <2>1. Running' = Running
    BY <1>16 DEF CommitRaises, Running, TypeOK
  <2> QED
    BY <1>16, <2>1 DEF CommitRaises, TypeOK, PermitsConserved, coordVars
<1>17. CASE UNCHANGED vars
  BY <1>17, <1>a DEF vars, TypeOK
<1> QED
  BY <1>1, <1>2, <1>3, <1>4, <1>5, <1>6, <1>7, <1>8, <1>9, <1>10, <1>11, <1>12, <1>13,
     <1>14, <1>15, <1>16, <1>17 DEF Next, Coordinator, TaskStep, TaskEnds

-----------------------------------------------------------------------------
(* Where tasks exist.                                                       *)

(* A request begins without tasks.                                          *)
LEMMA InitPlan == Init => PlanInv
  BY DEF Init, PlanInv

(* Each step keeps tasks for exactly the plan's positions.                  *)
LEMMA PlanStep == TypeOK /\ PlanInv /\ [Next]_vars => PlanInv'
<1> SUFFICES ASSUME TypeOK, PlanInv, [Next]_vars
             PROVE  PlanInv'
  OBVIOUS
<1>1. ASSUME NEW p \in Plans, SupervisorPlans(p)
      PROVE  PlanInv'
  BY <1>1 DEF SupervisorPlans, PlanInv, taskVars, Segs
<1>2. CASE SupervisorFails
  BY <1>2 DEF SupervisorFails, PlanInv, taskVars, Segs
<1>3. CASE AnnounceSegment
  BY <1>3 DEF AnnounceSegment, PlanInv, taskVars, Segs
<1>4. CASE CreateTasks
  BY <1>4 DEF CreateTasks, PlanInv, Segs
<1>5. CASE Forward
  BY <1>5 DEF Forward, PlanInv, taskVars, Segs
<1>6. CASE Gather
  BY <1>6 DEF Gather, PlanInv, taskVars, Segs
<1>7. CASE MergeSection
  BY <1>7 DEF MergeSection, PlanInv, taskVars, Segs
<1>8. CASE MergeDone
  BY <1>8 DEF MergeDone, PlanInv, taskVars, Segs
<1>9. CASE Disconnect
  BY <1>9 DEF Disconnect, PlanInv, taskVars, Segs
<1>10. ASSUME NEW s \in Seg, TaskStep(s)
       PROVE  PlanInv'
  <2>1. /\ task[s] # "none"
        /\ \A r \in Seg : r # s => task'[r] = task[r]
        /\ UNCHANGED coordVars
    BY <1>10 DEF TaskStep, TaskEnds, Acquire, StreamFrame, Submit, AgentReturns, AgentFails,
                 CommitSegment, CommitRaises, TypeOK
  <2> QED
    BY <2>1 DEF PlanInv, coordVars, Segs
<1>11. CASE UNCHANGED vars
  BY <1>11 DEF vars, PlanInv, Segs
<1> QED
  BY <1>1, <1>2, <1>3, <1>4, <1>5, <1>6, <1>7, <1>8, <1>9, <1>10, <1>11 DEF Next, Coordinator

-----------------------------------------------------------------------------
(* The order of a task's last items in the queue.                           *)

(* Every step of a task appends to the queue, or leaves it alone.           *)
QueueFacts == QueueInv /\ EndInv /\ CountInv

(* Queued items are about segments.                                         *)
LEMMA QueueSeq ==
  TypeOK => /\ queue \in Seq(QueueItem) /\ Len(queue) \in Nat
            /\ \A i \in 1..Len(queue) : queue[i] \in QueueItem /\ queue[i].seg \in Seg
<1> SUFFICES ASSUME TypeOK
             PROVE  /\ queue \in Seq(QueueItem) /\ Len(queue) \in Nat
                    /\ \A i \in 1..Len(queue) : queue[i] \in QueueItem /\ queue[i].seg \in Seg
  OBVIOUS
<1>1. queue \in Seq(QueueItem) /\ Len(queue) \in Nat
  BY DEF TypeOK
<1>2. \A i \in 1..Len(queue) : queue[i] \in QueueItem
  BY <1>1, ElementOfSeq
<1> QED
  BY <1>1, <1>2 DEF QueueItem

(* Steps that change neither the tasks nor the queue nor what was forwarded.*)
LEMMA QueueUnchanged ==
  QueueFacts /\ UNCHANGED <<task, queue, fwd, done_sentinels>> => QueueFacts'
  BY DEF QueueFacts, QueueInv, EndInv, EndQueued, EndForwarded, CountInv, Counted, Awaited

(* Steps that move a task on without finishing it and without a frame.      *)
LEMMA QueueMoved ==
  ASSUME TypeOK, QueueFacts, NEW s \in Seg,
         task[s] \notin {"none", "finished"},
         NEW t, t \notin {"none", "finished"}, task' = [task EXCEPT ![s] = t],
         UNCHANGED <<queue, fwd, done_sentinels>>
  PROVE  QueueFacts'
<1>1. \A r \in Seg : /\ task'[r] = "finished" <=> task[r] = "finished"
                     /\ task'[r] = "none" <=> task[r] = "none"
  BY DEF TypeOK
<1>2. \A i \in 1..Len(queue) : queue[i].seg \in Seg
  BY QueueSeq
<1>3. QueueInv'
  BY <1>1, <1>2 DEF QueueFacts, QueueInv
<1>4. EndInv'
  BY <1>1 DEF QueueFacts, EndInv, EndQueued, EndForwarded
<1>5. Counted' = Counted
  BY <1>1 DEF Counted, Awaited
<1> QED
  BY <1>3, <1>4, <1>5 DEF QueueFacts, CountInv

(* A frame of a running task joins the queue.                               *)
LEMMA QueueFrame ==
  ASSUME TypeOK, QueueFacts, NEW s \in Seg, StreamFrame(s)
  PROVE  QueueFacts'
<1>1. /\ task[s] = "running" /\ task' = task /\ fwd' = fwd /\ done_sentinels' = done_sentinels
      /\ queue' = Append(queue, Item("chunk", s))
  BY DEF StreamFrame, coordVars
<1>2. /\ Len(queue') = Len(queue) + 1 /\ Len(queue) \in Nat
      /\ \A i \in 1..Len(queue) : queue'[i] = queue[i]
      /\ queue'[Len(queue) + 1] = Item("chunk", s)
  BY <1>1, QueueSeq
<1>3. Item("chunk", s).seg = s /\ Item("chunk", s).kind = "chunk"
  BY DEF Item
<1>4. \A i \in 1..Len(queue) : queue[i].kind \in EndKind \cup {"sentinel"} => queue[i].seg # s
  BY <1>1 DEF QueueFacts, QueueInv
<1>5. QueueInv'
  <2>1. \A i \in 1..Len(queue') :
          /\ task[queue'[i].seg] # "none"
          /\ queue'[i].kind \in EndKind \cup {"sentinel"} => task[queue'[i].seg] = "finished"
    BY <1>1, <1>2, <1>3 DEF QueueFacts, QueueInv, EndKind
  <2>2. ASSUME NEW i \in 1..Len(queue'), NEW j \in 1..Len(queue'),
               queue'[i].seg = queue'[j].seg, i < j
        PROVE  /\ queue'[i].kind # "sentinel"
               /\ queue'[i].kind \in EndKind => queue'[j].kind = "sentinel"
    <3>1. i \in 1..Len(queue)
      BY <1>2, <2>2
    <3>2. CASE j \in 1..Len(queue)
      BY <1>2, <2>2, <3>1, <3>2 DEF QueueFacts, QueueInv
    <3>3. CASE j = Len(queue) + 1
      <4>1. queue[i].seg = s
        BY <1>2, <1>3, <2>2, <3>1, <3>3
      <4> QED
        BY <1>2, <1>4, <3>1, <4>1
    <3> QED
      BY <1>2, <3>2, <3>3
  <2> QED
    BY <1>1, <2>1, <2>2 DEF QueueInv
<1>6. EndInv'
  <2> SUFFICES ASSUME NEW r \in Seg, task[r] = "finished"
               PROVE  EndQueued(r)' \/ EndForwarded(r)'
    BY <1>1 DEF EndInv
  <2>1. r # s
    BY <1>1
  <2>2. CASE EndQueued(r)
    BY <1>2, <2>2 DEF EndQueued
  <2>3. CASE EndForwarded(r)
    BY <1>1, <1>2, <1>3, <2>1, <2>3 DEF EndForwarded
  <2> QED
    BY <2>2, <2>3 DEF QueueFacts, EndInv
<1>7. Awaited' = Awaited
  BY <1>2, <1>3 DEF Awaited
<1> QED
  BY <1>1, <1>5, <1>6, <1>7 DEF QueueFacts, CountInv, Counted

(* A task finishes: behind what it said before, its last items join the     *)
(* queue, the end frame next to last and the sentinel last.                 *)
LEMMA QueueFinish ==
  ASSUME TypeOK, QueueFacts, NEW s \in Seg, task[s] \notin {"none", "finished"},
         task' = [task EXCEPT ![s] = "finished"],
         UNCHANGED <<fwd, done_sentinels>>,
         NEW n \in 2..3, Len(queue') = Len(queue) + n,
         \A i \in 1..Len(queue) : queue'[i] = queue[i],
         \A i \in (Len(queue) + 1)..(Len(queue) + n) : queue'[i].seg = s,
         n = 3 => queue'[Len(queue) + 1].kind = "committed",
         queue'[Len(queue) + n - 1].kind \in EndKind,
         queue'[Len(queue) + n].kind = "sentinel"
  PROVE  QueueFacts'
<1>1. Len(queue) \in Nat /\ \A i \in 1..Len(queue) : queue[i].seg \in Seg
  BY QueueSeq
<1>2. task'[s] = "finished" /\ \A r \in Seg : r # s => task'[r] = task[r]
  BY DEF TypeOK
<1>3. \A i \in 1..Len(queue) : queue[i].kind \in EndKind \cup {"sentinel"} => queue[i].seg # s
  BY DEF QueueFacts, QueueInv
<1>4. QueueInv'
  <2>1. \A i \in 1..Len(queue') :
          /\ task'[queue'[i].seg] # "none"
          /\ queue'[i].kind \in EndKind \cup {"sentinel"} => task'[queue'[i].seg] = "finished"
    <3> SUFFICES ASSUME NEW i \in 1..Len(queue')
                 PROVE  /\ task'[queue'[i].seg] # "none"
                        /\ queue'[i].kind \in EndKind \cup {"sentinel"}
                             => task'[queue'[i].seg] = "finished"
      OBVIOUS
    <3>1. CASE i \in 1..Len(queue)
      BY <1>1, <1>2, <3>1 DEF QueueFacts, QueueInv
    <3>2. CASE i \notin 1..Len(queue)
      <4>1. queue'[i].seg = s
        BY <1>1, <3>2
      <4> QED
        BY <1>2, <4>1
    <3> QED
      BY <3>1, <3>2
  <2>2. ASSUME NEW i \in 1..Len(queue'), NEW j \in 1..Len(queue'),
               queue'[i].seg = queue'[j].seg, i < j
        PROVE  /\ queue'[i].kind # "sentinel"
               /\ queue'[i].kind \in EndKind => queue'[j].kind = "sentinel"
    <3>1. CASE j \in 1..Len(queue)
      <4>1. i \in 1..Len(queue)
        BY <1>1, <2>2, <3>1
      <4> QED
        BY <2>2, <3>1, <4>1, SMTT(30) DEF QueueFacts, QueueInv
    <3>2. CASE j \notin 1..Len(queue) /\ i \in 1..Len(queue)
      <4>1. queue[i].seg = s
        BY <1>1, <2>2, <3>2
      <4> QED
        BY <1>3, <3>2, <4>1
    <3>3. CASE j \notin 1..Len(queue) /\ i \notin 1..Len(queue)
      <4>1. i \in (Len(queue) + 1)..(Len(queue) + n) /\ j \in (Len(queue) + 1)..(Len(queue) + n)
        BY <1>1, <3>3
      <4>2. \/ n = 2 /\ i = Len(queue) + 1 /\ j = Len(queue) + 2
            \/ n = 3 /\ i = Len(queue) + 1 /\ j \in {Len(queue) + 2, Len(queue) + 3}
            \/ n = 3 /\ i = Len(queue) + 2 /\ j = Len(queue) + 3
        BY <1>1, <2>2, <4>1
      <4> QED
        BY <1>1, <4>2 DEF EndKind
    <3> QED
      BY <3>1, <3>2, <3>3
  <2> QED
    BY <2>1, <2>2 DEF QueueInv
<1>5. EndInv'
  <2> SUFFICES ASSUME NEW r \in Seg, task'[r] = "finished"
               PROVE  EndQueued(r)' \/ EndForwarded(r)'
    BY DEF EndInv
  <2>1. CASE r = s
    <3>1. /\ Len(queue) + n - 1 \in 1..Len(queue') /\ Len(queue) + n \in 1..Len(queue')
          /\ Len(queue) + n - 1 < Len(queue) + n
          /\ queue'[Len(queue) + n - 1].seg = s /\ queue'[Len(queue) + n].seg = s
      BY <1>1
    <3> QED
      BY <2>1, <3>1 DEF EndQueued
  <2>2. CASE r # s /\ EndQueued(r)
    BY <1>1, <2>2 DEF EndQueued
  <2>3. CASE r # s /\ EndForwarded(r)
    <3>1. \A j \in 1..Len(queue') : queue'[j].seg = r => j \in 1..Len(queue)
      BY <1>1, <2>3
    <3> QED
      BY <2>3, <3>1 DEF EndForwarded
  <2> QED
    BY <1>2, <2>1, <2>2, <2>3 DEF QueueFacts, EndInv
<1>6. Awaited' = Awaited \cup {s}
  <2>1. Len(queue) + n \in 1..Len(queue') /\ queue'[Len(queue) + n].seg = s
    BY <1>1
  <2>2. \A j \in 1..Len(queue') : j \in 1..Len(queue) \/ queue'[j].seg = s
    BY <1>1
  <2>3. \A j \in 1..Len(queue) : j \in 1..Len(queue')
    BY <1>1
  <2> QED
    BY <2>1, <2>2, <2>3 DEF Awaited
<1>7. Counted' = Counted
  BY <1>2, <1>6 DEF Counted
<1> QED
  BY <1>4, <1>5, <1>7 DEF QueueFacts, CountInv

(* The coordinator takes the head of the queue: it forwards a frame, or     *)
(* counts a sentinel, which is then the last thing queued about its task.   *)
LEMMA QueueForward == TypeOK /\ QueueFacts /\ Forward => QueueFacts'
<1> SUFFICES ASSUME TypeOK, QueueFacts, Forward
             PROVE  QueueFacts'
  OBVIOUS
<1> DEFINE h == queue[1]
<1>1. /\ queue \in Seq(QueueItem) /\ queue # <<>> /\ Len(queue) \in Nat
      /\ \A i \in 1..Len(queue) : queue[i].seg \in Seg
  BY QueueSeq DEF Forward
<1>2. /\ 1 \in 1..Len(queue) /\ Head(queue) = h /\ h \in QueueItem /\ h.seg \in Seg
  <2>1. Len(queue) > 0 /\ Head(queue) = queue[1]
    BY <1>1, EmptySeq
  <2> QED
    BY <1>1, <2>1, QueueSeq
<1>3. /\ Len(queue') = Len(queue) - 1
      /\ \A i \in 1..Len(queue') : queue'[i] = queue[i + 1]
  BY <1>1, HeadTailProperties DEF Forward
<1>4. /\ task' = task
      /\ \/ h.kind = "sentinel" /\ done_sentinels' = done_sentinels + 1 /\ UNCHANGED fwd
         \/ /\ h.kind # "sentinel"
            /\ fwd' = [fwd EXCEPT ![h.seg] = Append(@, h.kind)]
            /\ UNCHANGED done_sentinels
  BY <1>2 DEF Forward, taskVars
<1>5. QueueInv'
  <2>1. ASSUME NEW i \in 1..Len(queue')
        PROVE  /\ task'[queue'[i].seg] # "none"
               /\ queue'[i].kind \in EndKind \cup {"sentinel"}
                    => task'[queue'[i].seg] = "finished"
    <3>1. i + 1 \in 1..Len(queue) /\ queue'[i] = queue[i + 1]
      BY <1>1, <1>3, <2>1
    <3> QED
      BY <1>4, <3>1 DEF QueueFacts, QueueInv
  <2>2. ASSUME NEW i \in 1..Len(queue'), NEW j \in 1..Len(queue'),
               queue'[i].seg = queue'[j].seg, i < j
        PROVE  /\ queue'[i].kind # "sentinel"
               /\ queue'[i].kind \in EndKind => queue'[j].kind = "sentinel"
    <3>1. /\ i + 1 \in 1..Len(queue) /\ j + 1 \in 1..Len(queue) /\ i + 1 < j + 1
          /\ queue'[i] = queue[i + 1] /\ queue'[j] = queue[j + 1]
      BY <1>1, <1>3, <2>2
    <3> QED
      BY <2>2, <3>1 DEF QueueFacts, QueueInv
  <2> QED
    BY <2>1, <2>2 DEF QueueInv
<1>6. \A r \in Seg : \A i \in 1..Len(queue) :
        (queue[i].seg = r /\ i # 1) => i - 1 \in 1..Len(queue') /\ queue'[i - 1] = queue[i]
  BY <1>1, <1>3
<1>7. \A i \in 1..Len(queue) : (i # 1 /\ queue[i].seg = h.seg) =>
        /\ h.kind # "sentinel"
        /\ h.kind \in EndKind => queue[i].kind = "sentinel"
  BY <1>1, <1>2 DEF QueueFacts, QueueInv
<1>8. EndInv'
  <2> SUFFICES ASSUME NEW r \in Seg, task[r] = "finished"
               PROVE  EndQueued(r)' \/ EndForwarded(r)'
    BY <1>4 DEF EndInv
  <2>1. ASSUME NEW i \in 1..Len(queue), NEW j \in 1..Len(queue), i < j, i # 1,
               queue[i].seg = r, queue[i].kind \in EndKind,
               queue[j].seg = r, queue[j].kind = "sentinel"
        PROVE  EndQueued(r)'
    <3>1. j # 1 /\ i - 1 < j - 1
      BY <1>1, <2>1
    <3> QED
      BY <1>6, <2>1, <3>1 DEF EndQueued
  <2>2. CASE EndQueued(r)
    <3>1. PICK i \in 1..Len(queue), j \in 1..Len(queue) :
            /\ i < j
            /\ queue[i].seg = r /\ queue[i].kind \in EndKind
            /\ queue[j].seg = r /\ queue[j].kind = "sentinel"
      BY <2>2 DEF EndQueued
    <3>2. CASE i # 1
      BY <2>1, <3>1, <3>2
    <3>3. CASE i = 1
      <4>1. h.seg = r /\ h.kind \in EndKind /\ h.kind # "sentinel"
        BY <3>1, <3>3 DEF EndKind
      <4>2. fwd'[r] = Append(fwd[r], h.kind) /\ fwd[r] \in Seq(FrameKind)
        BY <1>4, <4>1 DEF TypeOK
      <4>3. Len(fwd'[r]) > 0 /\ fwd'[r][Len(fwd'[r])] = h.kind
        BY <4>2
      <4>4. \A k \in 1..Len(queue') : queue'[k].seg = r => queue'[k].kind = "sentinel"
        <5> SUFFICES ASSUME NEW k \in 1..Len(queue'), queue'[k].seg = r
                     PROVE  queue'[k].kind = "sentinel"
          OBVIOUS
        <5>1. k + 1 \in 1..Len(queue) /\ k + 1 # 1 /\ queue[k + 1] = queue'[k]
          BY <1>1, <1>3
        <5> QED
          BY <1>7, <4>1, <5>1
      <4> QED
        BY <4>1, <4>3, <4>4 DEF EndForwarded
    <3> QED
      BY <3>2, <3>3
  <2>3. CASE EndForwarded(r)
    <3>1. fwd'[r] = fwd[r]
      <4>1. h.seg = r => h.kind = "sentinel"
        BY <1>2, <2>3 DEF EndForwarded
      <4> QED
        BY <1>2, <1>4, <4>1 DEF TypeOK
    <3>2. \A k \in 1..Len(queue') : k + 1 \in 1..Len(queue) /\ queue[k + 1] = queue'[k]
      BY <1>1, <1>3
    <3> QED
      BY <2>3, <3>1, <3>2 DEF EndForwarded
  <2> QED
    BY <2>2, <2>3 DEF QueueFacts, EndInv
<1>9. Awaited' = IF h.kind = "sentinel" THEN Awaited \ {h.seg} ELSE Awaited
  <2>1. \A k \in 1..Len(queue') : k + 1 \in 1..Len(queue) /\ k + 1 # 1 /\ queue[k + 1] = queue'[k]
    BY <1>1, <1>3
  <2>2. Awaited' \subseteq Awaited
    BY <2>1 DEF Awaited
  <2>3. h.kind = "sentinel" => h.seg \notin Awaited'
    BY <1>7, <2>1 DEF Awaited
  <2>4. \A r \in Awaited : r \in Awaited' \/ (h.kind = "sentinel" /\ h.seg = r)
    BY <1>6 DEF Awaited
  <2> QED
    BY <2>2, <2>3, <2>4
<1>10. CountInv'
  <2>0. IsFiniteSet(Counted) /\ Counted \subseteq Seg
    BY SegFinite, FS_Subset DEF Counted
  <2>1. CASE h.kind = "sentinel"
    <3>1. task[h.seg] = "finished" /\ h.seg \in Awaited
      BY <1>2, <2>1 DEF QueueFacts, QueueInv, Awaited
    <3>2. Counted' = Counted \cup {h.seg} /\ h.seg \notin Counted
      BY <1>2, <1>4, <1>9, <2>1, <3>1 DEF Counted
    <3>3. Cardinality(Counted') = Cardinality(Counted) + 1
      BY <2>0, <3>2, FS_AddElement
    <3> QED
      BY <1>4, <2>1, <3>3 DEF QueueFacts, CountInv
  <2>2. CASE h.kind # "sentinel"
    <3>1. Counted' = Counted
      BY <1>4, <1>9, <2>2 DEF Counted
    <3> QED
      BY <1>4, <2>2, <3>1 DEF QueueFacts, CountInv
  <2> QED
    BY <2>1, <2>2
<1> QED
  BY <1>5, <1>8, <1>10 DEF QueueFacts

(* A request begins with an empty queue.                                    *)
LEMMA InitQueue == Init => QueueFacts
<1> SUFFICES ASSUME Init PROVE QueueFacts
  OBVIOUS
<1>1. Counted = {}
  BY DEF Init, Counted
<1>2. CountInv
  BY <1>1, FS_EmptySet DEF Init, CountInv
<1> QED
  BY <1>2 DEF Init, QueueFacts, QueueInv, EndInv

(* Each step keeps what is known of the queue.                              *)
LEMMA QueueStep == TypeOK /\ PlanInv /\ QueueFacts /\ [Next]_vars => QueueFacts'
<1> SUFFICES ASSUME TypeOK, PlanInv, QueueFacts, [Next]_vars
             PROVE  QueueFacts'
  OBVIOUS
<1>1. CASE \/ \E p \in Plans : SupervisorPlans(p)
           \/ SupervisorFails \/ Gather \/ MergeSection \/ MergeDone \/ Disconnect
  BY <1>1, QueueUnchanged DEF SupervisorPlans, SupervisorFails, Gather, MergeSection, MergeDone,
                              Disconnect, taskVars
<1>2. CASE AnnounceSegment
  <2>1. /\ queue = <<>> /\ queue' = <<>> /\ task' = task /\ done_sentinels' = done_sentinels
        /\ \A s \in Seg : task[s] = "none"
    BY <1>2 DEF AnnounceSegment, PlanInv, taskVars
  <2>2. Counted' = Counted
    BY <2>1 DEF Counted, Awaited
  <2> QED
    BY <2>1, <2>2 DEF QueueFacts, QueueInv, EndInv, CountInv
<1>3. CASE CreateTasks
  <2>1. /\ queue = <<>> /\ queue' = <<>> /\ done_sentinels' = done_sentinels
        /\ \A s \in Seg : task[s] = "none" /\ task'[s] # "finished"
    BY <1>3 DEF CreateTasks, PlanInv
  <2>2. Counted = {} /\ Counted' = {}
    BY <2>1 DEF Counted
  <2> QED
    BY <2>1, <2>2 DEF QueueFacts, QueueInv, EndInv, CountInv
<1>4. CASE Forward
  BY <1>4, QueueForward
<1>5. ASSUME NEW s \in Seg, Acquire(s) \/ AgentReturns(s) \/ CommitRaises(s)
      PROVE  QueueFacts'
  BY <1>5, QueueMoved DEF Acquire, AgentReturns, CommitRaises, coordVars
<1>6. ASSUME NEW s \in Seg, StreamFrame(s)
      PROVE  QueueFacts'
  BY <1>6, QueueFrame
<1>7. ASSUME NEW s \in Seg, NEW d \in Days, Submit(s, d)
      PROVE  QueueFacts'
  BY <1>7, QueueUnchanged DEF Submit, coordVars
<1>8. ASSUME NEW s \in Seg, AgentFails(s)
      PROVE  QueueFacts'
  <2> DEFINE a == Item("failed", s)
             b == Item("sentinel", s)
  <2>1. a \in QueueItem /\ b \in QueueItem
    BY DEF Item, QueueItem, FrameKind
  <2>2. /\ Len(queue') = Len(queue) + 2
        /\ \A i \in 1..Len(queue) : queue'[i] = queue[i]
        /\ queue'[Len(queue) + 1] = a /\ queue'[Len(queue) + 2] = b
    BY <1>8, <2>1, QueueSeq, PushTwo DEF AgentFails
  <2>3. a.seg = s /\ a.kind = "failed" /\ b.seg = s /\ b.kind = "sentinel"
    BY DEF Item
  <2>4. /\ task[s] = "running" /\ task' = [task EXCEPT ![s] = "finished"]
        /\ UNCHANGED <<fwd, done_sentinels>>
    BY <1>8 DEF AgentFails, coordVars
  <2>5. /\ \A i \in (Len(queue) + 1)..(Len(queue) + 2) : queue'[i].seg = s
        /\ queue'[Len(queue) + 2 - 1].kind \in EndKind
        /\ queue'[Len(queue) + 2].kind = "sentinel"
    BY <2>2, <2>3, QueueSeq DEF EndKind
  <2> HIDE DEF a, b
  <2>6. 2 \in 2..3 /\ 2 # 3
    OBVIOUS
  <2> QED
    BY <2>2, <2>4, <2>5, <2>6, QueueFinish
<1>9. ASSUME NEW s \in Seg, CommitSegment(s)
      PROVE  QueueFacts'
  <2> DEFINE a == Item("committed", s)
             b == Item("ok", s)
             c == Item("sentinel", s)
  <2>1. a \in QueueItem /\ b \in QueueItem /\ c \in QueueItem
    BY DEF Item, QueueItem, FrameKind
  <2>2. /\ Len(queue') = Len(queue) + 3
        /\ \A i \in 1..Len(queue) : queue'[i] = queue[i]
        /\ queue'[Len(queue) + 1] = a /\ queue'[Len(queue) + 2] = b /\ queue'[Len(queue) + 3] = c
    BY <1>9, <2>1, QueueSeq, PushThree DEF CommitSegment
  <2>3. /\ a.seg = s /\ a.kind = "committed" /\ b.seg = s /\ b.kind = "ok"
        /\ c.seg = s /\ c.kind = "sentinel"
    BY DEF Item
  <2>4. /\ task[s] = "upgrading" /\ task' = [task EXCEPT ![s] = "finished"]
        /\ UNCHANGED <<fwd, done_sentinels>>
    BY <1>9 DEF CommitSegment, coordVars
  <2>5. /\ \A i \in (Len(queue) + 1)..(Len(queue) + 3) : queue'[i].seg = s
        /\ queue'[Len(queue) + 1].kind = "committed"
        /\ queue'[Len(queue) + 3 - 1].kind \in EndKind
        /\ queue'[Len(queue) + 3].kind = "sentinel"
    BY <2>2, <2>3, QueueSeq DEF EndKind
  <2> HIDE DEF a, b, c
  <2>6. 3 \in 2..3
    OBVIOUS
  <2> QED
    BY <2>2, <2>4, <2>5, <2>6, QueueFinish
<1>10. CASE UNCHANGED vars
  BY <1>10, QueueUnchanged DEF vars
<1> QED
  BY <1>1, <1>2, <1>3, <1>4, <1>5, <1>6, <1>7, <1>8, <1>9, <1>10
  DEF Next, Coordinator, TaskStep, TaskEnds

-----------------------------------------------------------------------------
(* Counting one sentinel per task is enough.                                *)

(* Once the merge has begun, nothing is queued and every segment has ended. *)
LEMMA Drained ==
  ASSUME IInv, coord \in {"merging", "closed"}
  PROVE  /\ queue = <<>> /\ Segs \subseteq Seg
         /\ \A s \in Segs : /\ task[s] = "finished"
                            /\ fwd[s] # <<>> /\ fwd[s][Len(fwd[s])] \in EndKind
<1>1. plan \in Seq(Idx) /\ Len(plan) \in 0..MaxSegs /\ Segs \subseteq Seg
  <2>1. plan \in Seq(Idx) /\ Len(plan) \in 0..MaxSegs
    BY PlanIsSeq DEF IInv, TypeOK
  <2> QED
    BY <2>1, MultiagentAssumption DEF Segs, Seg
<1>2. IsFiniteSet(Segs) /\ Cardinality(Segs) = Len(plan)
  BY <1>1, FS_Interval, SMTT(30) DEF Segs
<1>3. Counted \subseteq Segs
  BY DEF IInv, PlanInv, Counted
<1>4. Cardinality(Counted) = Len(plan)
  BY DEF IInv, PlanInv, CountInv
<1>5. Counted = Segs
  BY <1>2, <1>3, <1>4, FS_Subset
<1>6. \A s \in Segs : EndForwarded(s) /\ s \notin Awaited
  BY <1>1, <1>5 DEF IInv, EndInv, Counted, Awaited, EndQueued
<1>7. queue = <<>>
  <2> SUFFICES ASSUME queue # <<>>
               PROVE  FALSE
    OBVIOUS
  <2>1. 1 \in 1..Len(queue) /\ queue[1].seg \in Seg
    BY QueueSeq, EmptySeq DEF IInv
  <2>2. queue[1].seg \in Segs
    BY <2>1 DEF IInv, PlanInv, QueueInv
  <2>3. queue[1].kind = "sentinel"
    BY <1>6, <2>1, <2>2 DEF EndForwarded
  <2>4. queue[1].seg \in Awaited
    BY <2>1, <2>3 DEF Awaited
  <2> QED
    BY <1>6, <2>2, <2>4
<1>8. \A s \in Segs : fwd[s] # <<>> /\ fwd[s][Len(fwd[s])] \in EndKind
  <2> SUFFICES ASSUME NEW s \in Segs
               PROVE  fwd[s] # <<>> /\ fwd[s][Len(fwd[s])] \in EndKind
    OBVIOUS
  <2>1. Len(fwd[s]) > 0 /\ fwd[s][Len(fwd[s])] \in EndKind
    BY <1>6 DEF EndForwarded
  <2> QED
    BY <2>1
<1> QED
  BY <1>1, <1>5, <1>7, <1>8 DEF Counted

(* The invariant implies that the merge comes last.                         *)
LEMMA IInvMerges == IInv => MergeAfterEveryFrame
  BY Drained DEF MergeAfterEveryFrame, EndKind

-----------------------------------------------------------------------------
(* Theorems.                                                                *)

(* Tasks, queue, sentinels and permits stay in step.                        *)
THEOREM Inductive == Spec => []IInv
<1>1. Init => IInv
  BY InitTypes, InitPlan, InitQueue DEF IInv, QueueFacts
<1>2. IInv /\ [Next]_vars => IInv'
  BY TypeStep, PlanStep, QueueStep DEF IInv, QueueFacts
<1> QED
  BY <1>1, <1>2, PTL DEF Spec

(* Every variable keeps its type, whatever the plan and the interleaving.   *)
THEOREM TypeCorrect == Spec => []TypeOK
<1>1. IInv => TypeOK
  BY DEF IInv
<1> QED
  BY <1>1, Inductive, PTL

(* The semaphore never leaks nor invents a permit: with p of them free,     *)
(* exactly MAX_PARALLEL_AGENTS - p agents are in their LLM loops.           *)
THEOREM PermitsSafe == Spec => []PermitsConserved
<1>1. IInv => PermitsConserved
  BY DEF IInv
<1> QED
  BY <1>1, Inductive, PTL

(* Counting one sentinel per task is enough: when the coordinator goes on   *)
(* to the merge, every segment's last frame was forwarded and none is left. *)
THEOREM MergeIsLast == Spec => []MergeAfterEveryFrame
  BY IInvMerges, Inductive, PTL

-----------------------------------------------------------------------------
(* The coordinator tells the browser of each segment what its task came to  *)
(* and writes a final plan of all of them; to the browser it is a fan-out   *)
(* that joins.                                                              *)

-----------------------------------------------------------------------------
(* A result belongs to a segment of the plan whose task has left its agent, *)
(* and (where the supervisor numbers its segments apart) is that task's.    *)
ResultInv ==
  /\ \A i \in Idx : results[i] # NoResult =>
       \E s \in Segs : /\ results[i].seg = s /\ plan[s] = i
                       /\ task[s] \in {"upgrading", "finished", "crashed"}
  /\ \A s \in Segs : /\ task[s] \in {"upgrading", "finished", "crashed"} =>
                          results[plan[s]] # NoResult /\ results[plan[s]].seg = s
                     /\ task[s] = "upgrading" => results[plan[s]].status = "ok"

(* An end frame, queued or forwarded, carries the status of the result.     *)
StatusInv ==
  /\ \A i \in 1..Len(queue) : queue[i].kind \in EndKind =>
       results[plan[queue[i].seg]].status = queue[i].kind
  /\ \A s \in Seg : \A k \in 1..Len(fwd[s]) : fwd[s][k] \in EndKind =>
       task[s] = "finished" /\ results[plan[s]].status = fwd[s][k]

(* The sections written so far are of the lowest segment numbers and follow *)
(* each other without a gap.                                                *)
WrittenInv ==
  /\ coord \in {"supervisor", "announcing", "draining", "refused"} => merged = <<>> /\ day_offset = 0
  /\ coord \in {"merging", "closed"} =>
       /\ \A k \in 1..Len(merged) :
            /\ results[merged[k].idx] # NoResult /\ merged[k].seg = results[merged[k].idx].seg
            /\ \A j \in 1..Len(merged) : j < k => merged[j].idx < merged[k].idx
            /\ \A i \in Unwritten : merged[k].idx < i
            /\ k = 1 => merged[k].first = 1
            /\ k > 1 => merged[k].first = merged[k-1].first + merged[k-1].days
       /\ day_offset + 1 = IF merged = <<>> THEN 1
                           ELSE merged[Len(merged)].first + merged[Len(merged)].days
  /\ coord = "closed" => Unwritten = {}

PlanIInv == IInv /\ ResultInv /\ StatusInv /\ WrittenInv

-----------------------------------------------------------------------------
(* Before the fan-out exactly the announced segments are open; after it,    *)
(* exactly the segments of the plan have been seen.                         *)
AnnounceInv ==
  /\ coord \in {"supervisor", "announcing"} =>
       /\ announced <= Len(plan)
       /\ \A s \in Seg : Sight(s) = IF s <= announced THEN "open" ELSE "hidden"
  /\ coord \in {"supervisor", "refused"} => plan = <<>> /\ announced = 0
  /\ coord \in {"draining", "merging", "closed"} =>
       \A s \in Seg : Sight(s) = "hidden" <=> s \notin Segs
  /\ \A s \in Seg : task[s] # "none" => Sight(s) # "hidden"

(* What is queued about a segment continues what has been seen of it: it is *)
(* open until its commit or its failure goes out, and the ok end follows    *)
(* its commit.                                                              *)
StoryInv ==
  /\ \A s \in Seg : Sight(s) \in {"committed", "ok", "failed"} => task[s] = "finished"
  /\ \A i \in 1..Len(queue) :
       LET s == queue[i].seg IN
       /\ queue[i].kind # "start"
       /\ queue[i].kind \in {"chunk", "committed", "failed"} => Sight(s) = "open"
       /\ queue[i].kind = "committed" =>
            /\ task[s] = "finished"
            /\ \A j \in 1..Len(queue) : j > i /\ queue[j].seg = s => queue[j].kind \in {"ok", "sentinel"}
       /\ queue[i].kind = "ok" =>
            \/ Sight(s) = "committed"
            \/ Sight(s) = "open" /\ \E k \in 1..Len(queue) :
                                       k < i /\ queue[k] = Item("committed", s)

(* What was forwarded about a segment begins with its start and ends with   *)
(* its end, and a commit is followed by the ok end.                         *)
ToldInv ==
  \A s \in Seg : \A i \in 1..Len(fwd[s]) :
    /\ fwd[s][i] = "start" <=> i = 1
    /\ fwd[s][i] = "committed" => i = Len(fwd[s]) \/ fwd[s][i + 1] = "ok"
    /\ fwd[s][i] = "ok" => i > 1 /\ fwd[s][i - 1] = "committed"
    /\ fwd[s][i] \in EndKind => i = Len(fwd[s])

StoryIInv == IInv /\ AnnounceInv /\ StoryInv /\ ToldInv

-----------------------------------------------------------------------------
(* Facts about the data.                                                    *)

(* The plan's positions, and the numbers they carry.                        *)
LEMMA SegsOfPlan ==
  ASSUME TypeOK
  PROVE  /\ plan \in Seq(Idx) /\ Len(plan) \in 0..MaxSegs /\ Segs \subseteq Seg
         /\ \A s \in Segs : plan[s] \in Idx
         /\ UniqueIdx => \A r, s \in Segs : plan[r] = plan[s] => r = s
<1>1. plan \in Seq(Idx) /\ Len(plan) \in 0..MaxSegs
  BY PlanIsSeq DEF TypeOK
<1>2. Segs \subseteq Seg /\ DOMAIN plan = Segs
  BY <1>1, MultiagentAssumption DEF Segs, Seg
<1>3. UniqueIdx => \A r, s \in DOMAIN plan : plan[r] = plan[s] => r = s
  BY DEF TypeOK, Plans
<1> QED
  BY <1>1, <1>2, <1>3

(* A missing result is told from any other.                                 *)
LEMMA NoResultIsNone == NoResult.status = "none" /\ \A r \in Result : r # NoResult
<1>1. NoResult.status = "none"
  BY DEF NoResult
<1>2. \A r \in Result : r.status # "none"
  BY DEF Result
<1> QED
  BY <1>1, <1>2

-----------------------------------------------------------------------------
(* Every step keeps the results.                                            *)

(* A step that neither records a result nor moves a task that has one.      *)
LEMMA ResultKept ==
  ASSUME TypeOK, ResultInv, UNCHANGED <<plan, results>>,
         \A s \in Seg : /\ task'[s] = "upgrading" => task[s] = "upgrading"
                        /\ task'[s] \in {"upgrading", "finished", "crashed"} <=>
                             task[s] \in {"upgrading", "finished", "crashed"}
  PROVE  ResultInv'
<1>1. Segs' = Segs /\ Segs \subseteq Seg
  BY SegsOfPlan DEF Segs
<1> QED
  BY <1>1 DEF ResultInv

(* A task records its result and leaves the agent.                          *)
LEMMA ResultRecorded ==
  ASSUME UniqueIdx, TypeOK, ResultInv, NEW s \in Segs, task[s] = "running", UNCHANGED plan,
         NEW t \in {"upgrading", "finished"}, task' = [task EXCEPT ![s] = t],
         NEW r \in Result, r.seg = s, t = "upgrading" => r.status = "ok",
         results' = [results EXCEPT ![plan[s]] = r]
  PROVE  ResultInv'
<1>1. /\ Segs' = Segs /\ Segs \subseteq Seg /\ \A q \in Segs : plan[q] \in Idx
      /\ \A p, q \in Segs : plan[p] = plan[q] => p = q
  BY SegsOfPlan DEF Segs
<1>2. task'[s] = t /\ \A q \in Segs : q # s => task'[q] = task[q]
  BY <1>1 DEF TypeOK
<1>3. /\ results'[plan[s]] = r /\ r # NoResult
      /\ \A i \in Idx : i # plan[s] => results'[i] = results[i]
  BY <1>1, NoResultIsNone DEF TypeOK
<1>4. ASSUME NEW i \in Idx, results'[i] # NoResult
      PROVE  \E q \in Segs : /\ results'[i].seg = q /\ plan[q] = i
                             /\ task'[q] \in {"upgrading", "finished", "crashed"}
  BY <1>1, <1>2, <1>3, <1>4 DEF ResultInv
<1>5. ASSUME NEW q \in Segs
      PROVE  /\ task'[q] \in {"upgrading", "finished", "crashed"} =>
                  results'[plan[q]] # NoResult /\ results'[plan[q]].seg = q
             /\ task'[q] = "upgrading" => results'[plan[q]].status = "ok"
  <2>1. CASE q = s
    BY <1>2, <1>3, <2>1
  <2>2. CASE q # s
    <3>1. plan[q] # plan[s] /\ plan[q] \in Idx
      BY <1>1, <2>2
    <3> QED
      BY <1>2, <1>3, <2>2, <3>1 DEF ResultInv
  <2> QED
    BY <2>1, <2>2
<1> QED
  BY <1>1, <1>4, <1>5 DEF ResultInv

(* The task of a running segment is one of the plan's.                      *)
LEMMA RunnerInPlan ==
  ASSUME PlanInv, NEW s \in Seg, task[s] # "none"
  PROVE  s \in Segs
  BY DEF PlanInv

(* An agent that returns leaves an ok result under its segment's number.    *)
LEMMA ReturnEffect ==
  ASSUME TypeOK, NEW s \in Seg, AgentReturns(s)
  PROVE  \E r \in Result : /\ r.seg = s /\ r.status = "ok"
                           /\ results' = [results EXCEPT ![plan[s]] = r]
<1>1. PICK d \in captured[s] :
        results' = [results EXCEPT ![plan[s]] = [status |-> "ok", seg |-> s, days |-> d]]
  BY DEF AgentReturns
<1>2. d \in Days
  BY <1>1 DEF TypeOK
<1>3. [status |-> "ok", seg |-> s, days |-> d] \in Result
  BY <1>2 DEF Result
<1> QED
  BY <1>1, <1>3

(* An agent that fails leaves the failed placeholder there.                 *)
LEMMA FailEffect ==
  ASSUME NEW s \in Seg, AgentFails(s)
  PROVE  \E r \in Result : /\ r.seg = s /\ r.status = "failed"
                           /\ results' = [results EXCEPT ![plan[s]] = r]
<1>1. [status |-> "failed", seg |-> s, days |-> 0] \in Result
  BY DEF Result
<1> QED
  BY <1>1 DEF AgentFails

(* Each step keeps results with the tasks they are of.                      *)
LEMMA ResultStep ==
  ASSUME UniqueIdx, IInv, ResultInv, Next
  PROVE  ResultInv'
<1>0. TypeOK /\ PlanInv
  BY DEF IInv
<1>1. CASE SupervisorFails \/ AnnounceSegment \/ Forward \/ Gather \/ MergeSection \/ MergeDone
           \/ Disconnect
  <2>1. UNCHANGED <<plan, results, task>>
    BY <1>1 DEF SupervisorFails, AnnounceSegment, Forward, Gather, MergeSection, MergeDone,
                Disconnect, taskVars
  <2> QED
    BY <1>0, <2>1, ResultKept
<1>2. CASE CreateTasks \/ \E p \in Plans : SupervisorPlans(p)
  <2>1. /\ \A s \in Seg : task[s] = "none" /\ task'[s] \in {"none", "waiting"}
        /\ results' = results
    BY <1>0, <1>2 DEF CreateTasks, SupervisorPlans, taskVars, PlanInv
  <2>2. \A i \in Idx : results[i] = NoResult
    BY <1>0, <2>1, SegsOfPlan DEF ResultInv
  <2>3. Segs' \subseteq Seg
    <3>1. TypeOK'
      BY TypeStep DEF IInv
    <3>2. \A p \in Plans : 1..Len(p) \subseteq Seg
      BY PlanIsSeq, MultiagentAssumption DEF Seg
    <3> QED
      BY <3>1, <3>2 DEF Segs, TypeOK
  <2> QED
    BY <2>1, <2>2, <2>3 DEF ResultInv
<1>3. ASSUME NEW s \in Seg, Acquire(s) \/ CommitSegment(s) \/ CommitRaises(s)
      PROVE  ResultInv'
  <2>1. /\ UNCHANGED <<plan, results>>
        /\ \/ task[s] = "waiting" /\ task' = [task EXCEPT ![s] = "running"]
           \/ task[s] = "upgrading" /\ task' = [task EXCEPT ![s] = "finished"]
           \/ task[s] = "upgrading" /\ task' = [task EXCEPT ![s] = "crashed"]
    BY <1>3 DEF Acquire, CommitSegment, CommitRaises, coordVars
  <2>2. \A q \in Seg : /\ task'[q] = "upgrading" => task[q] = "upgrading"
                       /\ task'[q] \in {"upgrading", "finished", "crashed"} <=>
                            task[q] \in {"upgrading", "finished", "crashed"}
    BY <1>0, <2>1 DEF TypeOK
  <2> QED
    BY <1>0, <2>1, <2>2, ResultKept
<1>4. ASSUME NEW s \in Seg, StreamFrame(s) \/ \E d \in Days : Submit(s, d)
      PROVE  ResultInv'
  <2>1. UNCHANGED <<plan, results, task>>
    BY <1>4 DEF StreamFrame, Submit, coordVars
  <2> QED
    BY <1>0, <2>1, ResultKept
<1>5. ASSUME NEW s \in Seg, AgentReturns(s)
      PROVE  ResultInv'
  <2>1. PICK r \in Result : /\ r.seg = s /\ r.status = "ok"
                            /\ results' = [results EXCEPT ![plan[s]] = r]
    BY <1>0, <1>5, ReturnEffect
  <2>2. task[s] = "running" /\ task' = [task EXCEPT ![s] = "upgrading"] /\ plan' = plan
    BY <1>5 DEF AgentReturns, coordVars
  <2>3. s \in Segs
    BY <1>0, <2>2, RunnerInPlan
  <2> QED
    BY <1>0, <2>1, <2>2, <2>3, ResultRecorded
<1>6. ASSUME NEW s \in Seg, AgentFails(s)
      PROVE  ResultInv'
  <2>1. PICK r \in Result : /\ r.seg = s /\ r.status = "failed"
                            /\ results' = [results EXCEPT ![plan[s]] = r]
    BY <1>0, <1>6, FailEffect
  <2>2. task[s] = "running" /\ task' = [task EXCEPT ![s] = "finished"] /\ plan' = plan
    BY <1>6 DEF AgentFails, coordVars
  <2>3. s \in Segs
    BY <1>0, <2>2, RunnerInPlan
  <2>4. "finished" \in {"upgrading", "finished"} /\ "finished" # "upgrading"
    OBVIOUS
  <2> QED
    BY <1>0, <2>1, <2>2, <2>3, <2>4, ResultRecorded
<1> QED
  BY <1>1, <1>2, <1>3, <1>4, <1>5, <1>6 DEF Next, Coordinator, TaskStep, TaskEnds

-----------------------------------------------------------------------------
(* Every step keeps the agreement of frames and results.                    *)

(* A step that adds to the queue, and touches no finished task's result.    *)
LEMMA StatusGrows ==
  ASSUME TypeOK, PlanInv, QueueInv, StatusInv, UNCHANGED <<plan, fwd>>,
         \A q \in Segs : task[q] = "finished" =>
           task'[q] = "finished" /\ results'[plan[q]] = results[plan[q]],
         \A i \in 1..Len(queue') :
           \/ i \in 1..Len(queue) /\ queue'[i] = queue[i]
           \/ queue'[i].kind \in EndKind => results'[plan[queue'[i].seg]].status = queue'[i].kind
  PROVE  StatusInv'
<1>1. \A i \in 1..Len(queue) : queue[i].kind \in EndKind =>
        task[queue[i].seg] = "finished" /\ queue[i].seg \in Segs
  BY QueueSeq, RunnerInPlan DEF QueueInv
<1>2. ASSUME NEW i \in 1..Len(queue'), queue'[i].kind \in EndKind
      PROVE  results'[plan'[queue'[i].seg]].status = queue'[i].kind
  BY <1>1, <1>2 DEF StatusInv
<1>3. ASSUME NEW q \in Seg, NEW k \in 1..Len(fwd'[q]), fwd'[q][k] \in EndKind
      PROVE  task'[q] = "finished" /\ results'[plan'[q]].status = fwd'[q][k]
  <2>1. task[q] = "finished" /\ results[plan[q]].status = fwd[q][k]
    BY <1>3 DEF StatusInv
  <2>2. q \in Segs
    BY <2>1, RunnerInPlan
  <2> QED
    BY <2>1, <2>2
<1> QED
  BY <1>2, <1>3 DEF StatusInv

(* A record of one task's result leaves the others' alone.                  *)
LEMMA OthersKept ==
  ASSUME UniqueIdx, TypeOK, NEW s \in Segs, task[s] = "running", NEW t, task' = [task EXCEPT ![s] = t],
         NEW r, results' = [results EXCEPT ![plan[s]] = r]
  PROVE  /\ results'[plan[s]] = r
         /\ \A q \in Segs : task[q] = "finished" =>
              task'[q] = "finished" /\ results'[plan[q]] = results[plan[q]]
<1>1. /\ Segs \subseteq Seg /\ \A q \in Segs : plan[q] \in Idx
      /\ \A p, q \in Segs : plan[p] = plan[q] => p = q
  BY SegsOfPlan
<1>2. results'[plan[s]] = r
  BY <1>1 DEF TypeOK
<1>3. ASSUME NEW q \in Segs, task[q] = "finished"
      PROVE  task'[q] = "finished" /\ results'[plan[q]] = results[plan[q]]
  <2>1. q # s /\ plan[q] # plan[s]
    BY <1>1, <1>3
  <2> QED
    BY <1>1, <1>3, <2>1 DEF TypeOK
<1> QED
  BY <1>2, <1>3

(* Forwarding keeps queued and forwarded ends true to the results.          *)
LEMMA StatusForward ==
  ASSUME TypeOK, PlanInv, QueueInv, StatusInv, Forward
  PROVE  StatusInv'
<1> DEFINE h == queue[1]
<1>1. /\ queue \in Seq(QueueItem) /\ queue # <<>> /\ Len(queue) \in Nat
  BY QueueSeq DEF Forward
<1>2. /\ 1 \in 1..Len(queue) /\ Head(queue) = h /\ h \in QueueItem /\ h.seg \in Seg
  <2>1. Len(queue) > 0 /\ Head(queue) = queue[1]
    BY <1>1, EmptySeq
  <2> QED
    BY <1>1, <2>1, QueueSeq
<1>3. \A i \in 1..Len(queue') : i + 1 \in 1..Len(queue) /\ queue'[i] = queue[i + 1]
  BY <1>1, HeadTailProperties DEF Forward
<1>4. /\ UNCHANGED <<task, plan, results>>
      /\ \/ UNCHANGED fwd
         \/ fwd' = [fwd EXCEPT ![h.seg] = Append(@, h.kind)]
  BY <1>2 DEF Forward, taskVars
<1>5. h.kind \in EndKind => task[h.seg] = "finished" /\ results[plan[h.seg]].status = h.kind
  BY <1>2 DEF QueueInv, StatusInv
<1>6. ASSUME NEW q \in Seg, NEW k \in 1..Len(fwd'[q]), fwd'[q][k] \in EndKind
      PROVE  task[q] = "finished" /\ results[plan[q]].status = fwd'[q][k]
  <2>1. CASE fwd'[q] = fwd[q]
    BY <1>6, <2>1 DEF StatusInv
  <2>2. CASE fwd'[q] # fwd[q]
    <3>1. q = h.seg /\ fwd[q] \in Seq(FrameKind) /\ fwd'[q] = Append(fwd[q], h.kind)
      BY <1>2, <1>4, <2>2 DEF TypeOK
    <3>2. \/ k \in 1..Len(fwd[q]) /\ fwd'[q][k] = fwd[q][k]
          \/ fwd'[q][k] = h.kind
      BY <3>1
    <3> QED
      BY <1>5, <1>6, <3>1, <3>2 DEF StatusInv
  <2> QED
    BY <2>1, <2>2
<1>7. ASSUME NEW i \in 1..Len(queue'), queue'[i].kind \in EndKind
      PROVE  results[plan[queue'[i].seg]].status = queue'[i].kind
  BY <1>3, <1>7 DEF StatusInv
<1> QED
  BY <1>4, <1>6, <1>7 DEF StatusInv

(* Each step keeps them so.                                                 *)
LEMMA StatusStep ==
  ASSUME UniqueIdx, IInv, ResultInv, StatusInv, Next
  PROVE  StatusInv'
<1>0. TypeOK /\ PlanInv /\ QueueInv
  BY DEF IInv
<1>1. CASE SupervisorFails \/ Gather \/ MergeSection \/ MergeDone \/ Disconnect
  <2>1. UNCHANGED <<plan, fwd, queue, results, task>>
    BY <1>1 DEF SupervisorFails, Gather, MergeSection, MergeDone, Disconnect, taskVars
  <2> QED
    BY <1>0, <2>1, StatusGrows
<1>2. CASE AnnounceSegment \/ CreateTasks \/ \E p \in Plans : SupervisorPlans(p)
  <2>1. /\ queue' = <<>> /\ \A s \in Seg : task[s] = "none"
        /\ fwd' = fwd \/ fwd' = [fwd EXCEPT ![announced + 1] = Append(@, "start")]
    BY <1>0, <1>2 DEF AnnounceSegment, CreateTasks, SupervisorPlans, taskVars, PlanInv
  <2>2. ASSUME NEW s \in Seg, NEW k \in 1..Len(fwd'[s])
        PROVE  fwd'[s][k] \notin EndKind
    <3>1. \A n \in 1..Len(fwd[s]) : fwd[s][n] \notin EndKind
      BY <2>1 DEF StatusInv
    <3>2. fwd'[s] = fwd[s] \/ fwd'[s] = Append(fwd[s], "start")
      BY <2>1 DEF TypeOK, IInv
    <3>3. fwd[s] \in Seq(FrameKind)
      BY DEF TypeOK, IInv
    <3>4. (k \in 1..Len(fwd[s]) /\ fwd'[s][k] = fwd[s][k]) \/ fwd'[s][k] = "start"
      BY <3>2, <3>3
    <3> QED
      BY <3>1, <3>4 DEF EndKind
  <2> QED
    BY <2>1, <2>2 DEF StatusInv
<1>3. CASE Forward
  BY <1>0, <1>3, StatusForward
<1>4. ASSUME NEW s \in Seg, Acquire(s) \/ CommitRaises(s) \/ \E d \in Days : Submit(s, d)
      PROVE  StatusInv'
  <2>1. /\ UNCHANGED <<plan, fwd, queue, results>>
        /\ \/ task' = task
           \/ task[s] # "finished" /\ \E t \in {"running", "crashed"} : task' = [task EXCEPT ![s] = t]
    BY <1>4 DEF Acquire, CommitRaises, Submit, coordVars
  <2>2. \A q \in Seg : task[q] = "finished" => task'[q] = "finished"
    BY <1>0, <2>1 DEF TypeOK
  <2> QED
    BY <1>0, <2>1, <2>2, SegsOfPlan, StatusGrows
<1>5. ASSUME NEW s \in Seg, StreamFrame(s)
      PROVE  StatusInv'
  <2>1. /\ UNCHANGED <<plan, fwd, task, results>> /\ queue' = Append(queue, Item("chunk", s))
    BY <1>5 DEF StreamFrame, coordVars
  <2>2. Item("chunk", s).kind \notin EndKind
    BY DEF Item, EndKind
  <2>3. \A i \in 1..Len(queue') : \/ i \in 1..Len(queue) /\ queue'[i] = queue[i]
                                  \/ queue'[i] = Item("chunk", s)
    BY <1>0, <2>1, QueueSeq
  <2> QED
    BY <1>0, <2>1, <2>2, <2>3, StatusGrows
<1>6. ASSUME NEW s \in Seg, AgentReturns(s)
      PROVE  StatusInv'
  <2>1. PICK r \in Result : results' = [results EXCEPT ![plan[s]] = r]
    BY <1>0, <1>6, ReturnEffect
  <2>2. /\ task[s] = "running" /\ task' = [task EXCEPT ![s] = "upgrading"]
        /\ UNCHANGED <<plan, fwd, queue>>
    BY <1>6 DEF AgentReturns, coordVars
  <2>3. s \in Segs
    BY <1>0, <2>2, RunnerInPlan
  <2>4. \A q \in Segs : task[q] = "finished" =>
          task'[q] = "finished" /\ results'[plan[q]] = results[plan[q]]
    BY <1>0, <2>1, <2>2, <2>3, OthersKept
  <2> QED
    BY <1>0, <2>2, <2>4, StatusGrows
<1>7. ASSUME NEW s \in Seg, AgentFails(s)
      PROVE  StatusInv'
  <2> DEFINE a == Item("failed", s)
             b == Item("sentinel", s)
  <2>1. PICK r \in Result : /\ r.status = "failed"
                            /\ results' = [results EXCEPT ![plan[s]] = r]
    BY <1>0, <1>7, FailEffect
  <2>2. /\ task[s] = "running" /\ task' = [task EXCEPT ![s] = "finished"]
        /\ UNCHANGED <<plan, fwd>> /\ queue' = queue \o <<a, b>>
    BY <1>7 DEF AgentFails, coordVars
  <2>3. s \in Segs
    BY <1>0, <2>2, RunnerInPlan
  <2>4. /\ results'[plan[s]] = r
        /\ \A q \in Segs : task[q] = "finished" =>
             task'[q] = "finished" /\ results'[plan[q]] = results[plan[q]]
    BY <1>0, <2>1, <2>2, <2>3, OthersKept
  <2>5. /\ a \in QueueItem /\ b \in QueueItem /\ a.seg = s /\ a.kind = "failed" /\ b.kind = "sentinel"
    BY DEF Item, QueueItem, FrameKind
  <2> HIDE DEF a, b
  <2>6. \A i \in 1..Len(queue') : \/ i \in 1..Len(queue) /\ queue'[i] = queue[i]
                                  \/ queue'[i] \in {a, b}
    BY <1>0, <2>2, <2>5, QueueSeq, PushTwo
  <2> QED
    BY <1>0, <2>1, <2>2, <2>4, <2>5, <2>6, StatusGrows DEF EndKind
<1>8. ASSUME NEW s \in Seg, CommitSegment(s)
      PROVE  StatusInv'
  <2> DEFINE a == Item("committed", s)
             b == Item("ok", s)
             c == Item("sentinel", s)
  <2>1. /\ task[s] = "upgrading" /\ task' = [task EXCEPT ![s] = "finished"]
        /\ UNCHANGED <<plan, fwd, results>> /\ queue' = queue \o <<a, b, c>>
    BY <1>8 DEF CommitSegment, coordVars
  <2>2. s \in Segs
    BY <1>0, <2>1, RunnerInPlan
  <2>3. results[plan[s]].status = "ok"
    BY <2>1, <2>2 DEF ResultInv
  <2>4. \A q \in Seg : task[q] = "finished" => task'[q] = "finished"
    BY <1>0, <2>1 DEF TypeOK
  <2>5. /\ a \in QueueItem /\ b \in QueueItem /\ c \in QueueItem
        /\ a.kind = "committed" /\ b.kind = "ok" /\ b.seg = s /\ c.kind = "sentinel"
    BY DEF Item, QueueItem, FrameKind
  <2> HIDE DEF a, b, c
  <2>6. \A i \in 1..Len(queue') : \/ i \in 1..Len(queue) /\ queue'[i] = queue[i]
                                  \/ queue'[i] \in {a, b, c}
    BY <1>0, <2>1, <2>5, QueueSeq, PushThree
  <2>7. \A i \in 1..Len(queue') :
          \/ i \in 1..Len(queue) /\ queue'[i] = queue[i]
          \/ queue'[i].kind \in EndKind => results'[plan[queue'[i].seg]].status = queue'[i].kind
    BY <2>1, <2>3, <2>5, <2>6 DEF EndKind
  <2> QED
    BY <1>0, <2>1, <2>4, <2>7, SegsOfPlan, StatusGrows
<1> QED
  BY <1>1, <1>2, <1>3, <1>4, <1>5, <1>6, <1>7, <1>8 DEF Next, Coordinator, TaskStep, TaskEnds

-----------------------------------------------------------------------------
(* Every step keeps the sections of the final plan.                         *)

(* Once the merge has begun no task is left to take a step.                 *)
LEMMA NoTaskLeft ==
  ASSUME IInv, coord \in {"merging", "closed"}, NEW s \in Seg
  PROVE  ~TaskStep(s)
<1>1. task[s] \in {"none", "finished"}
  BY Drained DEF IInv, PlanInv
<1> QED
  BY <1>1 DEF TaskStep, TaskEnds, Acquire, StreamFrame, Submit, AgentReturns, AgentFails,
              CommitSegment, CommitRaises

(* The fields of the sections written.                                      *)
LEMMA MergedSeq ==
  ASSUME TypeOK
  PROVE  /\ Len(merged) \in Nat
         /\ \A k \in 1..Len(merged) : /\ merged[k].idx \in Idx /\ merged[k].idx \in Nat
                                      /\ merged[k].first \in Nat /\ merged[k].days \in Nat
<1>1. merged \in Seq([idx : Idx, seg : Seg, first : Nat, days : Nat])
  BY DEF TypeOK
<1>2. \A k \in 1..Len(merged) : merged[k] \in [idx : Idx, seg : Seg, first : Nat, days : Nat]
  BY <1>1, ElementOfSeq
<1>3. \A i \in Idx : i \in Nat
  BY MultiagentAssumption
<1>4. Len(merged) \in Nat
  BY <1>1
<1> QED
  BY <1>2, <1>3, <1>4

(* Steps beside the merge keep the written part of the plan.                *)
LEMMA WrittenKept ==
  ASSUME WrittenInv, UNCHANGED <<merged, day_offset, results>>, coord' = coord
  PROVE  WrittenInv'
<1>1. Unwritten' = Unwritten
  BY DEF Unwritten, Written
<1> QED
  BY <1>1 DEF WrittenInv

(* One more section extends it in order, its days after the last.           *)
LEMMA WrittenSection ==
  ASSUME TypeOK, WrittenInv, MergeSection
  PROVE  WrittenInv'
<1>1. PICK i \in Unwritten :
        /\ \A j \in Unwritten : i <= j
        /\ merged' = Append(merged, [idx |-> i, seg |-> results[i].seg,
                                     first |-> day_offset + 1, days |-> results[i].days])
        /\ day_offset' = day_offset + results[i].days
  BY DEF MergeSection
<1> DEFINE n == Len(merged)
           m == [idx |-> i, seg |-> results[i].seg, first |-> day_offset + 1, days |-> results[i].days]
<1>2. /\ n \in Nat /\ Idx \subseteq Nat /\ day_offset \in Nat
      /\ merged \in Seq([idx : Idx, seg : Seg, first : Nat, days : Nat])
  BY MergedSeq, MultiagentAssumption DEF TypeOK
<1>3. /\ i \in Idx /\ i \in Nat /\ results[i] # NoResult /\ i \notin Written
      /\ results[i].seg \in Seg /\ results[i].days \in Nat
  <2>1. i \in Idx /\ results[i] # NoResult /\ results[i] \in Result /\ i \notin Written
    BY DEF Unwritten, TypeOK
  <2>2. \A d \in Days \cup {0} : d \in Nat
    BY MultiagentAssumption
  <2>3. results[i].seg \in Seg /\ results[i].days \in Days \cup {0}
    BY <2>1 DEF Result
  <2> QED
    BY <1>2, <2>1, <2>2, <2>3
<1>4. /\ m.idx = i /\ m.seg = results[i].seg /\ m.first = day_offset + 1 /\ m.days = results[i].days
      /\ m \in [idx : Idx, seg : Seg, first : Nat, days : Nat]
  BY <1>2, <1>3
<1>5. merged' = Append(merged, m)
  BY <1>1
<1> HIDE DEF m
<1>6. /\ Len(merged') = n + 1 /\ merged'[n + 1] = m /\ merged' # <<>>
      /\ \A k \in 1..n : merged'[k] = merged[k]
  BY <1>2, <1>4, <1>5, AppendProperties, SMTT(30)
<1>7. Unwritten' = Unwritten \ {i}
  <2>1. results' = results
    BY DEF MergeSection, taskVars
  <2>2. DOMAIN merged' = 1..(n + 1) /\ DOMAIN merged = 1..n
    BY <1>2, <1>4, <1>5
  <2>3. Written' = Written \cup {i}
    <3>1. 1..(n + 1) = (1..n) \cup {n + 1}
      BY <1>2
    <3>2. \A k \in 1..n : merged'[k].idx = merged[k].idx
      BY <1>6
    <3>3. merged'[n + 1].idx = i
      BY <1>4, <1>6
    <3> QED
      BY <2>2, <3>1, <3>2, <3>3 DEF Written
  <2> QED
    BY <2>1, <2>3 DEF Unwritten
<1>8. coord = "merging" /\ coord' = "merging" /\ results' = results
  BY DEF MergeSection, taskVars
<1>9. n = 0 <=> merged = <<>>
  BY <1>2
<1>10. n > 0 => n \in 1..n
  BY <1>2
<1>11. ASSUME NEW k \in 1..Len(merged')
       PROVE  /\ results'[merged'[k].idx] # NoResult /\ merged'[k].seg = results'[merged'[k].idx].seg
              /\ \A j \in 1..Len(merged') : j < k => merged'[j].idx < merged'[k].idx
              /\ \A u \in Unwritten' : merged'[k].idx < u
              /\ k = 1 => merged'[k].first = 1
              /\ k > 1 => merged'[k].first = merged'[k-1].first + merged'[k-1].days
  <2>1. CASE k \in 1..n
    <3>1. /\ results[merged[k].idx] # NoResult /\ merged[k].seg = results[merged[k].idx].seg
          /\ \A j \in 1..n : j < k => merged[j].idx < merged[k].idx
          /\ \A u \in Unwritten : merged[k].idx < u
          /\ k = 1 => merged[k].first = 1
          /\ k > 1 => merged[k].first = merged[k-1].first + merged[k-1].days
      BY <1>8, <2>1 DEF WrittenInv
    <3>2. \A j \in 1..Len(merged') : j < k => j \in 1..n
      BY <1>2, <1>6, <2>1
    <3>3. k > 1 => k - 1 \in 1..n
      BY <1>2, <2>1
    <3> QED
      BY <1>6, <1>7, <1>8, <2>1, <3>1, <3>2, <3>3
  <2>2. CASE k = n + 1
    <3>1. \A j \in 1..n : merged[j].idx < i
      BY <1>8 DEF WrittenInv
    <3>2. \A j \in 1..Len(merged') : j < k => j \in 1..n
      BY <1>2, <1>6, <2>2
    <3>3. \A u \in Unwritten' : i < u
      <4>1. Unwritten \subseteq Nat
        BY <1>2 DEF Unwritten
      <4> QED
        BY <1>1, <1>3, <1>7, <4>1
    <3>4. day_offset + 1 = IF merged = <<>> THEN 1 ELSE merged[n].first + merged[n].days
      BY <1>8 DEF WrittenInv
    <3>5. k = 1 => m.first = 1
      BY <1>2, <1>4, <1>9, <2>2, <3>4
    <3>6. k > 1 => m.first = merged'[k-1].first + merged'[k-1].days
      <4> SUFFICES ASSUME k > 1
                   PROVE  m.first = merged'[k-1].first + merged'[k-1].days
        OBVIOUS
      <4>1. k - 1 = n /\ n > 0 /\ merged'[n] = merged[n]
        BY <1>2, <1>6, <1>10, <2>2
      <4>2. m.first = merged[n].first + merged[n].days
        BY <1>4, <1>9, <3>4, <4>1
      <4> QED
        BY <4>1, <4>2
    <3> QED
      BY <1>3, <1>4, <1>6, <1>8, <2>2, <3>1, <3>2, <3>3, <3>5, <3>6
  <2> QED
    BY <1>2, <1>6, <2>1, <2>2
<1>12. day_offset' + 1 = merged'[Len(merged')].first + merged'[Len(merged')].days
  <2>1. merged'[Len(merged')] = m
    BY <1>6
  <2>2. day_offset' = m.days + day_offset
    BY <1>1, <1>2, <1>3, <1>4
  <2> QED
    BY <1>2, <1>3, <1>4, <2>1, <2>2
<1> QED
  BY <1>6, <1>8, <1>11, <1>12 DEF WrittenInv

(* Each step keeps the written part a beginning of the plan.                *)
LEMMA WrittenStep ==
  ASSUME IInv, WrittenInv, Next
  PROVE  WrittenInv'
<1>0. TypeOK
  BY DEF IInv
<1>1. CASE SupervisorFails \/ CreateTasks \/ \E p \in Plans : SupervisorPlans(p)
  <2>1. /\ coord \in {"supervisor", "announcing"} /\ coord' \in {"announcing", "refused", "draining"}
        /\ UNCHANGED <<merged, day_offset>>
    BY <1>1 DEF SupervisorFails, CreateTasks, SupervisorPlans
  <2> QED
    BY <2>1 DEF WrittenInv
<1>2. CASE AnnounceSegment \/ Forward
  BY <1>2, WrittenKept DEF AnnounceSegment, Forward, taskVars
<1>3. CASE Gather
  <2>1. merged = <<>> /\ merged' = <<>> /\ day_offset' = 0 /\ coord' = "merging"
    BY <1>3 DEF Gather, WrittenInv
  <2>2. Len(merged') = 0
    BY <2>1
  <2> QED
    BY <2>1, <2>2 DEF WrittenInv
<1>4. CASE MergeSection
  BY <1>0, <1>4, WrittenSection
<1>5. CASE MergeDone
  <2>1. /\ coord = "merging" /\ coord' = "closed" /\ UNCHANGED <<merged, day_offset, results>>
        /\ Unwritten = {}
    BY <1>5 DEF MergeDone, taskVars
  <2>2. Unwritten' = Unwritten
    BY <2>1 DEF Unwritten, Written
  <2> QED
    BY <2>1, <2>2 DEF WrittenInv
<1>6. CASE Disconnect
  BY <1>6 DEF Disconnect, WrittenInv
<1>7. ASSUME NEW s \in Seg, TaskStep(s)
      PROVE  WrittenInv'
  <2>1. coord \notin {"merging", "closed"}
    BY <1>7, NoTaskLeft
  <2>2. UNCHANGED <<coord, merged, day_offset>>
    BY <1>7 DEF TaskStep, TaskEnds, Acquire, StreamFrame, Submit, AgentReturns, AgentFails,
                CommitSegment, CommitRaises, coordVars
  <2> QED
    BY <2>1, <2>2 DEF WrittenInv
<1> QED
  BY <1>1, <1>2, <1>3, <1>4, <1>5, <1>6, <1>7 DEF Next, Coordinator

-----------------------------------------------------------------------------
(* The plan that is written.                                                *)

(* A request begins with no result, end or section.                         *)
LEMMA InitPlanIInv == Init => ResultInv /\ StatusInv /\ WrittenInv
<1> SUFFICES ASSUME Init
             PROVE  ResultInv /\ StatusInv /\ WrittenInv
  OBVIOUS
<1>1. /\ coord = "supervisor" /\ merged = <<>> /\ day_offset = 0 /\ queue = <<>>
      /\ \A i \in Idx : results[i] = NoResult
      /\ \A s \in Seg : task[s] = "none" /\ fwd[s] = <<>>
  BY DEF Init
<1>2. TypeOK
  BY InitTypes
<1>3. Segs \subseteq Seg
  BY <1>2, SegsOfPlan
<1> QED
  BY <1>1, <1>3 DEF ResultInv, StatusInv, WrittenInv

(* Results, statuses, bubbles and the sections written stay in step, where  *)
(* the supervisor numbers its segments apart.                               *)
THEOREM PlanInductive == UniqueIdx => (Spec => []PlanIInv)
<1> SUFFICES ASSUME UniqueIdx
             PROVE  Spec => []PlanIInv
  OBVIOUS
<1> DEFINE Strengthening == ResultInv /\ StatusInv /\ WrittenInv
<1>1. Init => Strengthening
  BY InitPlanIInv
<1>2. IInv /\ Strengthening /\ [Next]_vars => Strengthening'
  <2>1. ASSUME IInv, Strengthening, Next
        PROVE  Strengthening'
    BY <2>1, ResultStep, StatusStep, WrittenStep
  <2>2. ASSUME Strengthening, UNCHANGED vars
        PROVE  Strengthening'
    BY <2>2 DEF vars, ResultInv, StatusInv, WrittenInv, Unwritten, Written, Segs
  <2> QED
    BY <2>1, <2>2
<1>3. IInv /\ Strengthening => PlanIInv
  BY DEF PlanIInv
<1> QED
  BY <1>1, <1>2, <1>3, Inductive, PTL DEF Spec

(* What the browser is told at the end of a segment is what its section of  *)
(* the plan is written with, where the supervisor numbers its segments      *)
(* apart.                                                                   *)
THEOREM BubblesTellTheResult == UniqueIdx => (Spec => []StatusAgrees)
<1> SUFFICES ASSUME UniqueIdx
             PROVE  Spec => []StatusAgrees
  OBVIOUS
<1>1. PlanIInv => StatusAgrees
  <2> SUFFICES ASSUME PlanIInv, NEW s \in Segs, NEW f \in EndKind, f \in SeqToSet(fwd[s])
               PROVE  results[plan[s]].status = f
    BY DEF StatusAgrees, EndKind
  <2>1. TypeOK /\ s \in Seg
    BY SegsOfPlan DEF PlanIInv, IInv
  <2>2. fwd[s] \in Seq(FrameKind)
    BY <2>1 DEF TypeOK
  <2>3. PICK k \in 1..Len(fwd[s]) : fwd[s][k] = f
    BY <2>2 DEF SeqToSet
  <2> QED
    BY <2>1, <2>3 DEF PlanIInv, StatusInv
<1> QED
  BY <1>1, PlanInductive, PTL

(* The numbers up to n are n.                                               *)
LEMMA CountUpTo ==
  ASSUME NEW n \in Nat
  PROVE  IsFiniteSet(1..n) /\ Cardinality(1..n) = n
  BY FS_Interval

(* At the end there is a result for every segment and a section for every   *)
(* result, and no two sections are about the same segment.                  *)
LEMMA SectionsAreSegments ==
  ASSUME UniqueIdx, PlanIInv, coord = "closed"
  PROVE  /\ {merged[k].seg : k \in 1..Len(merged)} = Segs
         /\ \A j, k \in 1..Len(merged) : merged[j].seg = merged[k].seg => j = k
<1>1. TypeOK /\ IInv /\ ResultInv /\ WrittenInv
  BY DEF PlanIInv, IInv
<1>2. /\ Segs \subseteq Seg
      /\ \A s \in Segs : plan[s] \in Idx /\ task[s] = "finished"
  BY <1>1, SegsOfPlan, Drained
<1>3. ASSUME NEW k \in 1..Len(merged)
      PROVE  merged[k].seg \in Segs /\ plan[merged[k].seg] = merged[k].idx
  <2>1. /\ merged[k].idx \in Idx /\ results[merged[k].idx] # NoResult
        /\ merged[k].seg = results[merged[k].idx].seg
    BY <1>1, MergedSeq DEF WrittenInv
  <2> QED
    BY <1>1, <2>1 DEF ResultInv
<1>4. ASSUME NEW s \in Segs
      PROVE  \E k \in 1..Len(merged) : merged[k].seg = s
  <2>1. results[plan[s]] # NoResult /\ results[plan[s]].seg = s
    BY <1>1, <1>2 DEF ResultInv
  <2>2. plan[s] \in Written
    BY <1>1, <1>2, <2>1 DEF WrittenInv, Unwritten
  <2>3. DOMAIN merged = 1..Len(merged)
    BY <1>1 DEF TypeOK
  <2>4. PICK k \in 1..Len(merged) : merged[k].idx = plan[s]
    BY <2>2, <2>3 DEF Written
  <2> QED
    BY <1>1, <2>1, <2>4 DEF WrittenInv
<1>5. ASSUME NEW j \in 1..Len(merged), NEW k \in 1..Len(merged), merged[j].seg = merged[k].seg
      PROVE  j = k
  <2>1. merged[j].idx = merged[k].idx /\ merged[k].idx \in Nat
    BY <1>1, <1>3, <1>5, MergedSeq
  <2>2. \A m, n \in 1..Len(merged) : m < n => merged[m].idx < merged[n].idx
    BY <1>1 DEF WrittenInv
  <2>3. ~(j < k) /\ ~(k < j)
    BY <2>1, <2>2
  <2> QED
    BY <1>1, <2>3, MergedSeq
<1> QED
  BY <1>3, <1>4, <1>5

(* The final plan has one section per segment, in the order of their        *)
(* numbers, and its days run on without a gap, whatever the order in which  *)
(* the tasks finished and whichever of them failed.                         *)
THEOREM FinalPlanIsWhole == UniqueIdx => (Spec => []MergedPlanComplete)
<1> SUFFICES ASSUME UniqueIdx
             PROVE  Spec => []MergedPlanComplete
  OBVIOUS
<1>1. PlanIInv => MergedPlanComplete
  <2> SUFFICES ASSUME PlanIInv, coord = "closed"
               PROVE  /\ {merged[k].seg : k \in DOMAIN merged} = Segs
                      /\ Len(merged) = Len(plan)
                      /\ \A k \in DOMAIN merged :
                           IF k = 1 THEN merged[k].first = 1
                           ELSE /\ merged[k-1].idx < merged[k].idx
                                /\ merged[k].first = merged[k-1].first + merged[k-1].days
    BY DEF MergedPlanComplete
  <2>1. TypeOK /\ WrittenInv
    BY DEF PlanIInv, IInv
  <2>2. DOMAIN merged = 1..Len(merged) /\ Len(merged) \in Nat /\ Len(plan) \in Nat
    BY <2>1, SegsOfPlan, MultiagentAssumption DEF TypeOK
  <2>3. {merged[k].seg : k \in DOMAIN merged} = Segs
    BY <2>2, SectionsAreSegments
  <2>4. Len(merged) = Len(plan)
    <3> DEFINE f == [k \in 1..Len(merged) |-> merged[k].seg]
    <3>1. f \in Bijection(1..Len(merged), Segs)
      <4>1. f \in Injection(1..Len(merged), Segs)
        BY SectionsAreSegments, Fun_IsInj
      <4>2. f \in Surjection(1..Len(merged), Segs)
        BY SectionsAreSegments, Fun_IsSurj
      <4> QED
        BY <4>1, <4>2 DEF Bijection
    <3>2. IsFiniteSet(1..Len(merged)) /\ Cardinality(1..Len(merged)) = Len(merged)
      BY <2>2, CountUpTo
    <3>3. Cardinality(1..Len(plan)) = Len(plan)
      BY <2>2, CountUpTo
    <3>4. Cardinality(Segs) = Cardinality(1..Len(merged))
      BY <3>1, <3>2, FS_Bijection DEF ExistsBijection
    <3> QED
      BY <3>2, <3>3, <3>4 DEF Segs
  <2>5. ASSUME NEW k \in DOMAIN merged
        PROVE  IF k = 1 THEN merged[k].first = 1
               ELSE /\ merged[k-1].idx < merged[k].idx
                    /\ merged[k].first = merged[k-1].first + merged[k-1].days
    <3>1. k \in 1..Len(merged)
      BY <2>2
    <3>2. k # 1 => k > 1 /\ k - 1 \in 1..Len(merged) /\ k - 1 < k
      BY <2>2, <3>1
    <3> QED
      BY <2>1, <3>1, <3>2 DEF WrittenInv
  <2> QED
    BY <2>3, <2>4, <2>5
<1> QED
  BY <1>1, PlanInductive, PTL

-----------------------------------------------------------------------------
(* What the browser has seen of a segment.                                  *)

(* What the browser can see of a segment.                                   *)
LEMMA SightIs ==
  ASSUME TypeOK, NEW s \in Seg
  PROVE  /\ Sight(s) \in {"hidden", "open", "committed", "ok", "failed"}
         /\ fwd[s] # <<>> => Sight(s) # "hidden"
         /\ fwd[s] # <<>> /\ fwd[s][Len(fwd[s])] \in EndKind => Sight(s) \in EndKind
<1>1. CASE fwd[s] = <<>>
  BY <1>1 DEF Sight
<1>2. CASE fwd[s] # <<>>
  <2>1. fwd[s] \in Seq(FrameKind)
    BY DEF TypeOK
  <2>2. Len(fwd[s]) \in 1..Len(fwd[s])
    BY <1>2, <2>1
  <2>3. fwd[s][Len(fwd[s])] \in FrameKind
    BY <2>1, <2>2, ElementOfSeq
  <2> QED
    BY <1>2, <2>3 DEF Sight, FrameKind, EndKind
<1> QED
  BY <1>1, <1>2

(* A forwarded frame changes what is seen of its segment only.              *)
LEMMA SightAfter ==
  ASSUME TypeOK, NEW s \in Seg, NEW f \in FrameKind, fwd' = [fwd EXCEPT ![s] = Append(@, f)]
  PROVE  /\ Sight(s)' = IF f \in {"start", "chunk"} THEN "open" ELSE f
         /\ \A r \in Seg : r # s => Sight(r)' = Sight(r)
<1>1. fwd[s] \in Seq(FrameKind) /\ fwd'[s] = Append(fwd[s], f)
  BY DEF TypeOK
<1>2. fwd'[s] # <<>> /\ fwd'[s][Len(fwd'[s])] = f
  BY <1>1, SMTT(30)
<1>3. \A r \in Seg : r # s => fwd'[r] = fwd[r]
  BY DEF TypeOK
<1> QED
  BY <1>2, <1>3 DEF Sight

(* The coordinator forwards an item of kind k about segment q.              *)
ForwardOf(q, k) ==
  /\ coord = "draining" /\ UNCHANGED <<coord, plan, announced, task>>
  /\ 1 \in 1..Len(queue) /\ queue[1].seg = q /\ queue[1].kind = k
  /\ \/ k = "sentinel" /\ fwd' = fwd
     \/ k # "sentinel" /\ fwd' = [fwd EXCEPT ![q] = Append(@, k)]
  /\ Len(queue) \in Nat /\ Len(queue') = Len(queue) - 1
  /\ \A i \in 1..Len(queue') : queue'[i] = queue[i + 1]

(* A forwarded item is about one segment and of one kind.                   *)
LEMMA ForwardEffect ==
  ASSUME TypeOK, Forward
  PROVE  \E q \in Seg, k \in FrameKind \cup {"sentinel"} : ForwardOf(q, k)
<1>1. /\ queue \in Seq(QueueItem) /\ queue # <<>> /\ Len(queue) \in Nat
      /\ coord = "draining" /\ UNCHANGED <<coord, plan, announced, task>>
  BY QueueSeq DEF Forward, taskVars
<1>2. 1 \in 1..Len(queue) /\ Head(queue) = queue[1]
  BY <1>1, EmptySeq
<1>3. /\ queue[1].seg \in Seg /\ queue[1].kind \in FrameKind \cup {"sentinel"}
  BY <1>2, QueueSeq DEF QueueItem
<1>4. Len(queue') = Len(queue) - 1 /\ \A i \in 1..Len(queue') : queue'[i] = queue[i + 1]
  BY <1>1, HeadTailProperties DEF Forward
<1>5. PICK q \in Seg, k \in FrameKind \cup {"sentinel"} : queue[1].seg = q /\ queue[1].kind = k
  BY <1>3
<1>6. \/ k = "sentinel" /\ fwd' = fwd
      \/ k # "sentinel" /\ fwd' = [fwd EXCEPT ![q] = Append(@, k)]
  BY <1>2, <1>5 DEF Forward
<1> QED
  BY <1>1, <1>2, <1>4, <1>5, <1>6 DEF ForwardOf

-----------------------------------------------------------------------------
(* Every step keeps what is announced.                                      *)

(* Steps that announce and forward nothing keep what was announced.         *)
LEMMA AnnounceKept ==
  ASSUME AnnounceInv, UNCHANGED <<coord, plan, announced, fwd>>,
         \A s \in Seg : task[s] = "none" => task'[s] = "none"
  PROVE  AnnounceInv'
  BY DEF AnnounceInv, Sight, Segs

(* Each step keeps the seen segments those of the plan.                     *)
LEMMA AnnounceStep ==
  ASSUME IInv, AnnounceInv, Next
  PROVE  AnnounceInv'
<1>0. TypeOK /\ PlanInv /\ QueueInv /\ Len(plan) \in Nat /\ Segs \subseteq Seg
  BY SegsOfPlan, MultiagentAssumption DEF IInv
<1>1. ASSUME NEW p \in Plans, SupervisorPlans(p)
      PROVE  AnnounceInv'
  <2>1. /\ coord = "supervisor" /\ coord' = "announcing" /\ plan' = p
        /\ announced' = 0 /\ fwd' = fwd
    BY <1>1 DEF SupervisorPlans, AnnounceInv
  <2>2. 0 <= Len(p)
    BY PlanIsSeq, MultiagentAssumption
  <2>3. \A s \in Seg : Sight(s)' = IF s <= announced' THEN "open" ELSE "hidden"
    BY <2>1 DEF Sight, AnnounceInv
  <2>4. \A s \in Seg : task'[s] = "none"
    BY <1>0, <1>1 DEF SupervisorPlans, taskVars, PlanInv
  <2> QED
    BY <2>1, <2>2, <2>3, <2>4 DEF AnnounceInv
<1>2. CASE SupervisorFails
  <2>1. \A s \in Seg : task'[s] = "none"
    BY <1>0, <1>2 DEF SupervisorFails, taskVars, PlanInv
  <2> QED
    BY <1>2, <2>1 DEF SupervisorFails, AnnounceInv
<1>3. CASE AnnounceSegment
  <2>1. /\ coord = "announcing" /\ coord' = "announcing" /\ plan' = plan
        /\ announced + 1 <= Len(plan) /\ announced \in Nat
    BY <1>0, <1>3, MultiagentAssumption DEF AnnounceSegment, TypeOK
  <2>2. PICK n \in Seg : n = announced + 1
    BY <1>0, <2>1 DEF Segs
  <2>3. announced' = n /\ fwd' = [fwd EXCEPT ![n] = Append(@, "start")] /\ "start" \in FrameKind
    BY <1>3, <2>2 DEF AnnounceSegment, FrameKind
  <2>4. Sight(n)' = "open" /\ \A r \in Seg : r # n => Sight(r)' = Sight(r)
    BY <1>0, <2>3, SightAfter
  <2>5. \A s \in Seg : Sight(s) = IF s <= announced THEN "open" ELSE "hidden"
    BY <2>1 DEF AnnounceInv
  <2>6. \A s \in Seg : Sight(s)' = IF s <= n THEN "open" ELSE "hidden"
    BY <2>1, <2>2, <2>4, <2>5 DEF Seg
  <2>7. \A s \in Seg : task'[s] = "none"
    BY <1>0, <1>3 DEF AnnounceSegment, taskVars, PlanInv
  <2> QED
    BY <2>1, <2>2, <2>3, <2>6, <2>7 DEF AnnounceInv
<1>4. CASE CreateTasks
  <2>1. /\ coord = "announcing" /\ coord' = "draining" /\ UNCHANGED <<plan, fwd>>
        /\ announced = Len(plan)
    BY <1>4 DEF CreateTasks
  <2>2. \A s \in Seg : Sight(s) = IF s <= Len(plan) THEN "open" ELSE "hidden"
    BY <2>1 DEF AnnounceInv
  <2>3. \A s \in Seg : s <= Len(plan) <=> s \in Segs
    BY <1>0, MultiagentAssumption DEF Seg, Segs
  <2>4. \A s \in Seg : Sight(s)' = "hidden" <=> s \notin Segs'
    BY <2>1, <2>2, <2>3 DEF Sight, Segs
  <2>5. \A s \in Seg : task'[s] # "none" => s \in Segs'
    BY <1>4, <2>1 DEF CreateTasks, Segs
  <2> QED
    BY <2>1, <2>4, <2>5 DEF AnnounceInv
<1>5. CASE Forward
  <2>1. PICK q \in Seg, k \in FrameKind \cup {"sentinel"} : ForwardOf(q, k)
    BY <1>0, <1>5, ForwardEffect
  <2>2. q \in Segs
    BY <1>0, <2>1 DEF PlanInv, QueueInv, ForwardOf
  <2>3. /\ coord = "draining" /\ coord' = "draining" /\ plan' = plan
        /\ \A s \in Seg : Sight(s) = "hidden" <=> s \notin Segs
    BY <2>1 DEF AnnounceInv, ForwardOf
  <2>4. \A s \in Seg : Sight(s)' = "hidden" <=> s \notin Segs
    <3>1. CASE fwd' = fwd
      BY <2>3, <3>1 DEF Sight
    <3>2. CASE k # "sentinel"
      <4>1. k \in FrameKind /\ fwd' = [fwd EXCEPT ![q] = Append(@, k)]
        BY <2>1, <3>2 DEF ForwardOf
      <4>2. /\ Sight(q)' = IF k \in {"start", "chunk"} THEN "open" ELSE k
            /\ \A r \in Seg : r # q => Sight(r)' = Sight(r)
        BY <1>0, <4>1, SightAfter
      <4> QED
        BY <2>2, <2>3, <4>1, <4>2 DEF FrameKind
    <3> QED
      BY <2>1, <3>1, <3>2 DEF ForwardOf
  <2>5. \A s \in Seg : task'[s] # "none" => s \in Segs
    BY <1>0, <2>1 DEF ForwardOf, PlanInv
  <2> QED
    BY <2>3, <2>4, <2>5 DEF AnnounceInv, Segs
<1>6. CASE Gather \/ MergeSection \/ MergeDone \/ Disconnect
  <2>1. /\ UNCHANGED <<plan, fwd, task>> /\ coord' \in {"merging", "closed", "gone"}
        /\ coord' \in {"merging", "closed"} => coord \in {"draining", "merging"}
    BY <1>6 DEF Gather, MergeSection, MergeDone, Disconnect, taskVars
  <2> QED
    BY <2>1 DEF AnnounceInv, Sight, Segs
<1>7. ASSUME NEW s \in Seg, TaskStep(s)
      PROVE  AnnounceInv'
  <2>1. /\ UNCHANGED <<coord, plan, announced, fwd>>
        /\ \A q \in Seg : task[q] = "none" => task'[q] = "none"
    BY <1>0, <1>7 DEF TypeOK, TaskStep, TaskEnds, Acquire, StreamFrame, Submit, AgentReturns,
                      AgentFails, CommitSegment, CommitRaises, coordVars
  <2> QED
    BY <2>1, AnnounceKept
<1> QED
  BY <1>1, <1>2, <1>3, <1>4, <1>5, <1>6, <1>7 DEF Next, Coordinator

-----------------------------------------------------------------------------
(* Every step of the fan-out keeps what the queue has to say.               *)

(* A step of an unfinished task: what it says, if anything, goes behind.    *)
LEMMA StoryGrows ==
  ASSUME TypeOK, QueueInv, StoryInv, fwd' = fwd, NEW s \in Seg, task[s] # "finished",
         \A q \in Seg : task[q] = "finished" => task'[q] = "finished",
         NEW n \in Nat, Len(queue') = Len(queue) + n,
         \A i \in 1..Len(queue) : queue'[i] = queue[i],
         \A i \in 1..Len(queue') : i > Len(queue) =>
           /\ queue'[i].seg = s /\ queue'[i].kind # "start" /\ Sight(s) = "open"
           /\ queue'[i].kind = "committed" =>
                /\ task'[s] = "finished"
                /\ \A j \in 1..Len(queue') : j > i => queue'[j].kind \in {"ok", "sentinel"}
           /\ queue'[i].kind = "ok" =>
                \E k \in 1..Len(queue') : k < i /\ queue'[k] = Item("committed", s)
  PROVE  StoryInv'
<1>1. Len(queue) \in Nat /\ \A i \in 1..Len(queue) : queue[i].seg \in Seg
  BY QueueSeq
<1>2. \A q \in Seg : Sight(q)' = Sight(q)
  BY DEF Sight
<1>3. \A q \in Seg : Sight(q)' \in {"committed", "ok", "failed"} => task'[q] = "finished"
  BY <1>2 DEF StoryInv
<1>4. ASSUME NEW i \in 1..Len(queue'), NEW q \in Seg, queue'[i].seg = q
      PROVE  /\ queue'[i].kind # "start"
             /\ queue'[i].kind \in {"chunk", "committed", "failed"} => Sight(q)' = "open"
             /\ queue'[i].kind = "committed" =>
                  /\ task'[q] = "finished"
                  /\ \A j \in 1..Len(queue') :
                       j > i /\ queue'[j].seg = q => queue'[j].kind \in {"ok", "sentinel"}
             /\ queue'[i].kind = "ok" =>
                  \/ Sight(q)' = "committed"
                  \/ Sight(q)' = "open" /\ \E k \in 1..Len(queue') :
                                              k < i /\ queue'[k] = Item("committed", q)
  <2>1. CASE i \in 1..Len(queue)
    <3>1. queue'[i] = queue[i] /\ queue[i].seg = q
      BY <1>4, <2>1
    <3>2. /\ queue[i].kind # "start"
          /\ queue[i].kind \in {"chunk", "committed", "failed"} => Sight(q) = "open"
          /\ queue[i].kind = "committed" =>
               /\ task[q] = "finished"
               /\ \A j \in 1..Len(queue) :
                    j > i /\ queue[j].seg = q => queue[j].kind \in {"ok", "sentinel"}
          /\ queue[i].kind = "ok" =>
               \/ Sight(q) = "committed"
               \/ Sight(q) = "open" /\ \E k \in 1..Len(queue) :
                                          k < i /\ queue[k] = Item("committed", q)
      BY <2>1, <3>1 DEF StoryInv
    <3>3. queue[i].kind = "committed" => \A j \in 1..Len(queue') :
            j > i /\ queue'[j].seg = q => queue'[j].kind \in {"ok", "sentinel"}
      <4> SUFFICES ASSUME queue[i].kind = "committed", NEW j \in 1..Len(queue'), j > i,
                          queue'[j].seg = q
                   PROVE  queue'[j].kind \in {"ok", "sentinel"}
        OBVIOUS
      <4>1. q # s
        BY <3>2
      <4>2. j \in 1..Len(queue)
        BY <1>1, <4>1
      <4> QED
        BY <3>2, <4>2
    <3>4. (\E k \in 1..Len(queue) : k < i /\ queue[k] = Item("committed", q)) =>
            \E k \in 1..Len(queue') : k < i /\ queue'[k] = Item("committed", q)
      BY <1>1
    <3> QED
      BY <1>2, <3>1, <3>2, <3>3, <3>4
  <2>2. CASE i \notin 1..Len(queue)
    <3>1. i > Len(queue) /\ q = s
      BY <1>1, <1>4, <2>2
    <3> QED
      BY <1>2, <1>4, <3>1
  <2> QED
    BY <2>1, <2>2
<1>5. \A i \in 1..Len(queue') : queue'[i].seg \in Seg
  BY <1>1
<1> QED
  BY <1>3, <1>4, <1>5 DEF StoryInv

(* Forwarding an item keeps the rest a continuation of what was seen.       *)
LEMMA StoryForward ==
  ASSUME TypeOK, QueueInv, StoryInv, Forward
  PROVE  StoryInv'
<1>1. PICK q \in Seg, k \in FrameKind \cup {"sentinel"} : ForwardOf(q, k)
  BY ForwardEffect
<1>2. /\ 1 \in 1..Len(queue) /\ queue[1].seg = q /\ queue[1].kind = k
      /\ Len(queue) \in Nat /\ task' = task
      /\ \A i \in 1..Len(queue') : i + 1 \in 1..Len(queue) /\ i + 1 > 1 /\ queue'[i] = queue[i + 1]
      /\ \A i \in 1..Len(queue) : queue[i].seg \in Seg
  BY <1>1, QueueSeq DEF ForwardOf
<1>3. /\ \A r \in Seg : r # q => Sight(r)' = Sight(r)
      /\ Sight(q)' = IF k = "sentinel" THEN Sight(q)
                     ELSE IF k = "chunk" THEN "open" ELSE k
  <2>1. CASE k = "sentinel"
    BY <1>1, <2>1 DEF ForwardOf, Sight
  <2>2. CASE k # "sentinel"
    <3>1. k \in FrameKind /\ fwd' = [fwd EXCEPT ![q] = Append(@, k)] /\ k # "start"
      BY <1>1, <1>2, <2>2 DEF ForwardOf, StoryInv
    <3> QED
      BY <2>2, <3>1, SightAfter
  <2> QED
    BY <2>1, <2>2
<1>4. /\ k # "start"
      /\ k \in {"chunk", "committed", "failed"} => Sight(q) = "open"
      /\ k \in {"committed", "ok", "failed"} => task[q] = "finished"
      /\ k \in {"ok", "failed", "sentinel"} =>
           \A j \in 1..Len(queue) : j > 1 /\ queue[j].seg = q => k # "sentinel" /\ queue[j].kind = "sentinel"
      /\ k = "committed" =>
           \A j \in 1..Len(queue) : j > 1 /\ queue[j].seg = q => queue[j].kind \in {"ok", "sentinel"}
  BY <1>2 DEF StoryInv, QueueInv, EndKind
<1>5. \A r \in Seg : Sight(r)' \in {"committed", "ok", "failed"} => task'[r] = "finished"
  <2>1. \A r \in Seg : Sight(r) \in {"committed", "ok", "failed"} => task[r] = "finished"
    BY DEF StoryInv
  <2> QED
    BY <1>2, <1>3, <1>4, <2>1
<1>6. ASSUME NEW i \in 1..Len(queue'), NEW r \in Seg, queue'[i].seg = r
      PROVE  /\ queue'[i].kind # "start"
             /\ queue'[i].kind \in {"chunk", "committed", "failed"} => Sight(r)' = "open"
             /\ queue'[i].kind = "committed" =>
                  /\ task'[r] = "finished"
                  /\ \A j \in 1..Len(queue') :
                       j > i /\ queue'[j].seg = r => queue'[j].kind \in {"ok", "sentinel"}
             /\ queue'[i].kind = "ok" =>
                  \/ Sight(r)' = "committed"
                  \/ Sight(r)' = "open" /\ \E m \in 1..Len(queue') :
                                              m < i /\ queue'[m] = Item("committed", r)
  <2> DEFINE x == queue[i + 1]
  <2>1. queue'[i] = x /\ i + 1 \in 1..Len(queue) /\ x.seg = r /\ i + 1 > 1
    BY <1>2, <1>6
  <2>2. /\ x.kind # "start"
        /\ x.kind \in {"chunk", "committed", "failed"} => Sight(r) = "open"
        /\ x.kind = "committed" =>
             /\ task[r] = "finished"
             /\ \A j \in 1..Len(queue) :
                  j > i + 1 /\ queue[j].seg = r => queue[j].kind \in {"ok", "sentinel"}
        /\ x.kind = "ok" =>
             \/ Sight(r) = "committed"
             \/ Sight(r) = "open" /\ \E m \in 1..Len(queue) :
                                        m < i + 1 /\ queue[m] = Item("committed", r)
    BY <2>1 DEF StoryInv
  <2>3. x.kind = "committed" => \A j \in 1..Len(queue') :
          j > i /\ queue'[j].seg = r => queue'[j].kind \in {"ok", "sentinel"}
    <3> SUFFICES ASSUME x.kind = "committed", NEW j \in 1..Len(queue'), j > i, queue'[j].seg = r
                 PROVE  queue'[j].kind \in {"ok", "sentinel"}
      OBVIOUS
    <3>1. j + 1 > i + 1 /\ j + 1 \in 1..Len(queue) /\ queue'[j] = queue[j + 1]
      BY <1>2
    <3> QED
      BY <2>2, <3>1
  <2>4. Item("committed", r).kind = "committed" /\ Item("committed", r).seg = r
    BY DEF Item
  <2>5. ASSUME NEW m \in 1..Len(queue), m < i + 1, queue[m] = Item("committed", r)
        PROVE  \/ m = 1 /\ q = r /\ k = "committed"
               \/ m - 1 \in 1..Len(queue') /\ m - 1 < i /\ queue'[m - 1] = Item("committed", r)
    <3>1. m = 1 => q = r /\ k = "committed"
      BY <1>2, <2>4, <2>5
    <3>2. m # 1 => m - 1 \in 1..Len(queue') /\ m - 1 < i
      BY <1>2, <2>1, <2>5
    <3>3. m # 1 => queue'[m - 1] = queue[m]
      <4>1. (m - 1) + 1 = m
        BY <1>2
      <4> QED
        BY <1>2, <3>2, <4>1
    <3> QED
      BY <2>5, <3>1, <3>2, <3>3
  <2> HIDE DEF x
  <2>6. CASE r # q
    <3>1. Sight(r)' = Sight(r)
      BY <1>3, <2>6
    <3>2. x.kind = "ok" /\ Sight(r) # "committed" =>
            \E m \in 1..Len(queue') : m < i /\ queue'[m] = Item("committed", r)
      BY <2>2, <2>5, <2>6
    <3> QED
      BY <1>2, <2>1, <2>2, <2>3, <3>1, <3>2
  <2>7. CASE r = q
    <3>1. CASE k = "chunk"
      <4>1. Sight(r)' = "open" /\ Sight(r) = "open"
        BY <1>3, <1>4, <2>7, <3>1
      <4>2. x.kind = "ok" => \E m \in 1..Len(queue') : m < i /\ queue'[m] = Item("committed", r)
        BY <2>2, <2>5, <3>1, <4>1
      <4> QED
        BY <1>2, <2>1, <2>2, <2>3, <4>1, <4>2
    <3>2. CASE k = "committed"
      <4>1. Sight(r)' = "committed" /\ x.kind \in {"ok", "sentinel"}
        BY <1>3, <1>4, <2>1, <2>7, <3>2 DEF x
      <4> QED
        BY <2>1, <4>1
    <3>3. CASE k \in {"ok", "failed", "sentinel"}
      <4>1. x.kind = "sentinel"
        BY <1>4, <2>1, <2>7, <3>3 DEF x
      <4> QED
        BY <2>1, <4>1
    <3>4. k = "chunk" \/ k = "committed" \/ k \in {"ok", "failed", "sentinel"}
      BY <1>4 DEF FrameKind
    <3> QED
      BY <3>1, <3>2, <3>3, <3>4
  <2> QED
    BY <2>6, <2>7
<1>7. \A i \in 1..Len(queue') : queue'[i].seg \in Seg
  BY <1>2
<1> QED
  BY <1>5, <1>6, <1>7 DEF StoryInv

(* So does every step of the coordinator and the tasks.                     *)
LEMMA StoryStep ==
  ASSUME IInv, AnnounceInv, StoryInv, Next
  PROVE  StoryInv'
<1>0. /\ TypeOK /\ PlanInv /\ QueueInv /\ Len(queue) \in Nat
      /\ Len(queue) + 0 = Len(queue)
  BY QueueSeq DEF IInv
<1>1. CASE CreateTasks \/ AnnounceSegment
  <2>1. queue' = <<>> /\ coord = "announcing"
    BY <1>0, <1>1 DEF CreateTasks, AnnounceSegment, PlanInv
  <2>2. \A s \in Seg : Sight(s)' \in {"open", "hidden"}
    <3>1. CASE CreateTasks
      BY <2>1, <3>1 DEF AnnounceInv, Sight, CreateTasks
    <3>2. CASE AnnounceSegment
      <4>1. coord' = "announcing"
        BY <2>1, <3>2 DEF AnnounceSegment
      <4>2. AnnounceInv'
        BY AnnounceStep
      <4> QED
        BY <4>1, <4>2 DEF AnnounceInv
    <3> QED
      BY <1>1, <3>1, <3>2
  <2> QED
    BY <2>1, <2>2 DEF StoryInv
<1>2. CASE Forward
  BY <1>0, <1>2, StoryForward
<1>3. CASE \/ SupervisorFails \/ Gather \/ MergeSection \/ MergeDone
           \/ Disconnect \/ \E p \in Plans : SupervisorPlans(p)
  <2>1. UNCHANGED <<queue, fwd, task>>
    BY <1>3 DEF SupervisorFails, Gather, MergeSection, MergeDone, Disconnect, SupervisorPlans,
                taskVars
  <2> QED
    BY <2>1 DEF StoryInv, Sight
<1>4. ASSUME NEW s \in Seg, TaskStep(s)
      PROVE  StoryInv'
  <2>1. /\ task[s] \notin {"none", "finished"} /\ UNCHANGED <<coord, fwd>>
        /\ \A q \in Seg : task[q] = "finished" => task'[q] = "finished"
    BY <1>0, <1>4 DEF TypeOK, TaskStep, TaskEnds, Acquire, StreamFrame, Submit, AgentReturns,
                      AgentFails, CommitSegment, CommitRaises, coordVars
  <2>2. Sight(s) # "hidden"
    BY <2>1 DEF AnnounceInv
  <2>3. Sight(s) = "open"
    BY <1>0, <2>1, <2>2, SightIs DEF StoryInv
  <2>4. CASE Acquire(s) \/ (\E d \in Days : Submit(s, d)) \/ AgentReturns(s) \/ CommitRaises(s)
    <3>1. queue' = queue
      BY <2>4 DEF Acquire, Submit, AgentReturns, CommitRaises
    <3>2. /\ Len(queue') = Len(queue) + 0 /\ \A i \in 1..Len(queue) : queue'[i] = queue[i]
          /\ \A i \in 1..Len(queue') : ~(i > Len(queue))
      BY <1>0, <3>1
    <3> QED
      BY <1>0, <2>1, <3>2, StoryGrows
  <2>5. CASE StreamFrame(s)
    <3>1. queue' = Append(queue, Item("chunk", s)) /\ Item("chunk", s) \in QueueItem
      BY <2>5 DEF StreamFrame, Item, QueueItem, FrameKind
    <3>2. /\ Len(queue') = Len(queue) + 1 /\ \A i \in 1..Len(queue) : queue'[i] = queue[i]
          /\ queue'[Len(queue) + 1] = Item("chunk", s)
      BY <1>0, <3>1, QueueSeq, AppendProperties
    <3>3. Item("chunk", s).kind = "chunk" /\ Item("chunk", s).seg = s
      BY DEF Item
    <3>4. \A i \in 1..Len(queue') : i > Len(queue) => queue'[i].kind = "chunk" /\ queue'[i].seg = s
      BY <1>0, <3>2, <3>3
    <3> QED
      BY <1>0, <2>1, <2>3, <3>2, <3>4, StoryGrows
  <2>6. CASE AgentFails(s)
    <3> DEFINE a == Item("failed", s)
               b == Item("sentinel", s)
    <3>1. /\ a \in QueueItem /\ b \in QueueItem
          /\ a.seg = s /\ a.kind = "failed" /\ b.seg = s /\ b.kind = "sentinel"
      BY DEF Item, QueueItem, FrameKind
    <3>2. queue' = queue \o <<a, b>>
      BY <2>6 DEF AgentFails
    <3> HIDE DEF a, b
    <3>3. /\ Len(queue') = Len(queue) + 2 /\ \A i \in 1..Len(queue) : queue'[i] = queue[i]
          /\ queue'[Len(queue) + 1] = a /\ queue'[Len(queue) + 2] = b
      BY <1>0, <3>1, <3>2, QueueSeq, PushTwo
    <3>4. \A i \in 1..Len(queue') : i > Len(queue) =>
            queue'[i].kind \in {"failed", "sentinel"} /\ queue'[i].seg = s
      <4>1. \A i \in 1..Len(queue') : i > Len(queue) => i = Len(queue) + 1 \/ i = Len(queue) + 2
        BY <1>0, <3>3
      <4> QED
        BY <3>1, <3>3, <4>1
    <3> QED
      BY <1>0, <2>1, <2>3, <3>3, <3>4, StoryGrows
  <2>7. CASE CommitSegment(s)
    <3> DEFINE a == Item("committed", s)
               b == Item("ok", s)
               c == Item("sentinel", s)
    <3>1. /\ a \in QueueItem /\ b \in QueueItem /\ c \in QueueItem
          /\ a.seg = s /\ a.kind = "committed" /\ b.seg = s /\ b.kind = "ok"
          /\ c.seg = s /\ c.kind = "sentinel"
      BY DEF Item, QueueItem, FrameKind
    <3>2. queue' = queue \o <<a, b, c>> /\ task' = [task EXCEPT ![s] = "finished"]
      BY <2>7 DEF CommitSegment
    <3>a. a = Item("committed", s)
      OBVIOUS
    <3> HIDE DEF a, b, c
    <3>3. /\ Len(queue') = Len(queue) + 3 /\ \A i \in 1..Len(queue) : queue'[i] = queue[i]
          /\ queue'[Len(queue) + 1] = a /\ queue'[Len(queue) + 2] = b /\ queue'[Len(queue) + 3] = c
      BY <1>0, <3>1, <3>2, QueueSeq, PushThree
    <3>4. \A i \in 1..Len(queue') : i > Len(queue) =>
            i = Len(queue) + 1 \/ i = Len(queue) + 2 \/ i = Len(queue) + 3
      BY <1>0, <3>3
    <3>5. task'[s] = "finished"
      BY <1>0, <3>2 DEF TypeOK
    <3>6. ASSUME NEW i \in 1..Len(queue'), i > Len(queue)
          PROVE  /\ queue'[i].seg = s /\ queue'[i].kind # "start" /\ Sight(s) = "open"
                 /\ queue'[i].kind = "committed" =>
                      /\ task'[s] = "finished"
                      /\ \A j \in 1..Len(queue') : j > i => queue'[j].kind \in {"ok", "sentinel"}
                 /\ queue'[i].kind = "ok" =>
                      \E k \in 1..Len(queue') : k < i /\ queue'[k] = Item("committed", s)
      <4>1. queue'[i].kind = "committed" => i = Len(queue) + 1
        BY <3>1, <3>3, <3>4, <3>6
      <4>2. queue'[i].kind = "ok" => i = Len(queue) + 2
        BY <3>1, <3>3, <3>4, <3>6
      <4>3. \A j \in 1..Len(queue') : j > Len(queue) + 1 => queue'[j].kind \in {"ok", "sentinel"}
        BY <1>0, <3>1, <3>3, <3>4
      <4>4. /\ Len(queue) + 1 \in 1..Len(queue') /\ Len(queue) + 1 < Len(queue) + 2
            /\ queue'[Len(queue) + 1] = Item("committed", s)
        BY <1>0, <3>3, <3>a
      <4>5. queue'[i].seg = s /\ queue'[i].kind # "start"
        BY <3>1, <3>3, <3>4, <3>6
      <4> QED
        BY <2>3, <3>5, <4>1, <4>2, <4>3, <4>4, <4>5
    <3>7. 3 \in Nat
      OBVIOUS
    <3> QED
      BY <1>0, <2>1, <3>3, <3>6, <3>7, StoryGrows
  <2> QED
    BY <1>4, <2>4, <2>5, <2>6, <2>7 DEF TaskStep, TaskEnds
<1> QED
  BY <1>1, <1>2, <1>3, <1>4 DEF Next, Coordinator

(* The last frame forwarded is what is seen.                                *)
LEMMA LastSeen ==
  ASSUME TypeOK, NEW s \in Seg
  PROVE  /\ fwd[s] \in Seq(FrameKind) /\ Len(fwd[s]) \in Nat
         /\ Sight(s) = "hidden" <=> fwd[s] = <<>>
         /\ fwd[s] # <<>> => Len(fwd[s]) \in 1..Len(fwd[s])
         /\ Sight(s) = "open" => fwd[s] # <<>> /\ fwd[s][Len(fwd[s])] \in {"start", "chunk"}
         /\ Sight(s) \in {"committed", "ok", "failed"} =>
              fwd[s] # <<>> /\ fwd[s][Len(fwd[s])] = Sight(s)
<1>1. fwd[s] \in Seq(FrameKind)
  BY DEF TypeOK
<1>2. fwd[s] # <<>> => Len(fwd[s]) \in 1..Len(fwd[s]) /\ fwd[s][Len(fwd[s])] \in FrameKind
  BY <1>1, ElementOfSeq
<1> QED
  BY <1>1, <1>2 DEF Sight, FrameKind

(* What is forwarded next continues what was forwarded.                     *)
LEMMA ToldAppend ==
  ASSUME TypeOK, ToldInv, NEW q \in Seg, NEW k \in FrameKind,
         fwd' = [fwd EXCEPT ![q] = Append(@, k)],
         IF k = "start" THEN Sight(q) = "hidden"
         ELSE IF k = "ok" THEN Sight(q) = "committed" ELSE Sight(q) = "open"
  PROVE  ToldInv'
<1> DEFINE f == fwd[q]
           L == Len(fwd[q])
<1>1. /\ f \in Seq(FrameKind) /\ L \in Nat
      /\ Sight(q) = "hidden" <=> f = <<>>
      /\ f # <<>> => L \in 1..L
      /\ Sight(q) = "open" => f # <<>> /\ f[L] \in {"start", "chunk"}
      /\ Sight(q) = "committed" => f # <<>> /\ f[L] = "committed"
  BY LastSeen
<1>2. fwd'[q] = Append(f, k) /\ \A r \in Seg : r # q => fwd'[r] = fwd[r]
  BY DEF TypeOK
<1>3. \A i \in 1..L :
        /\ f[i] = "start" <=> i = 1
        /\ f[i] = "committed" => i = L \/ f[i + 1] = "ok"
        /\ f[i] = "ok" => i > 1 /\ f[i - 1] = "committed"
        /\ f[i] \in EndKind => i = L
  BY DEF ToldInv
<1> DEFINE g == fwd'[q]
<1>4. Len(g) = L + 1 /\ g[L + 1] = k /\ \A i \in 1..L : g[i] = f[i]
  BY <1>1, <1>2, AppendProperties
<1>5. k = "start" => L = 0
  BY <1>1
<1>6. k # "start" => L \in 1..L /\ f[L] \notin EndKind
  BY <1>1 DEF EndKind
<1>7. k = "ok" <=> L \in 1..L /\ f[L] = "committed"
  <2>1. k = "ok" => L \in 1..L /\ f[L] = "committed"
    BY <1>1
  <2>2. k # "ok" /\ L \in 1..L => f[L] # "committed"
    BY <1>1, <1>5
  <2> QED
    BY <2>1, <2>2
<1> HIDE DEF f, L, g
<1>8. ASSUME NEW i \in 1..(L + 1)
      PROVE  /\ g[i] = "start" <=> i = 1
             /\ g[i] = "committed" => i = L + 1 \/ g[i + 1] = "ok"
             /\ g[i] = "ok" => i > 1 /\ g[i - 1] = "committed"
             /\ g[i] \in EndKind => i = L + 1
  <2>1. CASE i \in 1..L
    <3>1. g[i] = f[i]
      BY <1>4, <2>1
    <3>2. f[i] = "start" <=> i = 1
      BY <1>3, <2>1
    <3>3. f[i] = "committed" => g[i + 1] = "ok"
      <4>1. CASE i = L
        BY <1>4, <1>7, <2>1, <4>1
      <4>2. CASE i # L
        <5>1. i + 1 \in 1..L
          BY <1>1, <2>1, <4>2 DEF L
        <5> QED
          BY <1>3, <1>4, <2>1, <4>2, <5>1
      <4> QED
        BY <4>1, <4>2
    <3>4. f[i] = "ok" => i > 1 /\ g[i - 1] = "committed"
      <4>1. i > 1 => i - 1 \in 1..L
        BY <1>1, <2>1 DEF L
      <4> QED
        BY <1>3, <1>4, <2>1, <4>1
    <3>5. f[i] \notin EndKind
      BY <1>1, <1>3, <1>5, <1>6, <2>1 DEF L
    <3> QED
      BY <3>1, <3>2, <3>3, <3>4, <3>5
  <2>2. CASE i = L + 1
    <3>1. g[i] = k
      BY <1>4, <2>2
    <3>2. k = "start" <=> i = 1
      BY <1>1, <1>5, <1>6, <2>2 DEF L
    <3>3. k = "ok" => i > 1 /\ g[i - 1] = "committed"
      <4>1. L \in 1..L => i > 1 /\ i - 1 = L
        BY <1>1, <2>2 DEF L
      <4> QED
        BY <1>4, <1>7, <4>1
    <3> QED
      BY <2>2, <3>1, <3>2, <3>3
  <2> QED
    BY <1>1, <2>1, <2>2 DEF L
<1> QED
  BY <1>2, <1>4, <1>8 DEF ToldInv, g

(* Every step forwards a continuation or nothing.                           *)
LEMMA ToldStep ==
  ASSUME IInv, AnnounceInv, StoryInv, ToldInv, Next
  PROVE  ToldInv'
<1>0. TypeOK /\ PlanInv /\ QueueInv /\ Len(plan) \in Nat /\ Segs \subseteq Seg
  BY SegsOfPlan, MultiagentAssumption DEF IInv
<1>1. CASE AnnounceSegment
  <2>1. /\ coord = "announcing" /\ announced + 1 <= Len(plan) /\ announced \in Nat
    BY <1>0, <1>1, MultiagentAssumption DEF AnnounceSegment, TypeOK
  <2>2. PICK n \in Seg : n = announced + 1
    BY <1>0, <2>1 DEF Segs
  <2>3. fwd' = [fwd EXCEPT ![n] = Append(@, "start")] /\ "start" \in FrameKind
    BY <1>1, <2>2 DEF AnnounceSegment, FrameKind
  <2>4. Sight(n) = "hidden"
    BY <2>1, <2>2 DEF AnnounceInv
  <2> QED
    BY <1>0, <2>3, <2>4, ToldAppend
<1>2. CASE Forward
  <2>1. PICK q \in Seg, k \in FrameKind \cup {"sentinel"} : ForwardOf(q, k)
    BY <1>0, <1>2, ForwardEffect
  <2>2. CASE k = "sentinel"
    BY <2>1, <2>2 DEF ForwardOf, ToldInv
  <2>3. CASE k # "sentinel"
    <3>1. k \in FrameKind /\ fwd' = [fwd EXCEPT ![q] = Append(@, k)]
      BY <2>1, <2>3 DEF ForwardOf
    <3>2. /\ 1 \in 1..Len(queue) /\ queue[1].seg = q /\ queue[1].kind = k
          /\ \A m \in 1..Len(queue) : ~(m < 1)
      BY <2>1 DEF ForwardOf
    <3>3. /\ k # "start"
          /\ k \in {"chunk", "committed", "failed"} => Sight(q) = "open"
          /\ k = "ok" => Sight(q) = "committed"
      BY <3>2 DEF StoryInv
    <3> QED
      BY <1>0, <3>1, <3>3, ToldAppend DEF FrameKind
  <2> QED
    BY <2>2, <2>3
<1>3. CASE fwd' = fwd
  BY <1>3 DEF ToldInv
<1> QED
  BY <1>1, <1>2, <1>3 DEF Next, Coordinator, SupervisorPlans, SupervisorFails, CreateTasks, Gather,
     MergeSection, MergeDone, Disconnect, TaskStep, TaskEnds, Acquire, StreamFrame, Submit,
     AgentReturns, AgentFails, CommitSegment, CommitRaises, coordVars

-----------------------------------------------------------------------------
(* While frames are forwarded, the browser's picture of every segment is    *)
(* what its task has queued, less what is still in the queue.               *)
THEOREM StoryInductive == Spec => []StoryIInv
<1> DEFINE Strengthening == AnnounceInv /\ StoryInv /\ ToldInv
<1>1. Init => Strengthening
  <2> SUFFICES ASSUME Init
               PROVE  Strengthening
    OBVIOUS
  <2>1. /\ coord = "supervisor" /\ announced = 0 /\ plan = <<>> /\ queue = <<>>
        /\ \A s \in Seg : fwd[s] = <<>> /\ task[s] = "none"
    BY DEF Init
  <2>2. announced <= Len(plan) /\ \A s \in Seg : ~(s <= announced)
    BY <2>1, MultiagentAssumption DEF Seg
  <2>3. \A s \in Seg : Sight(s) = "hidden"
    BY <2>1 DEF Sight
  <2> QED
    BY <2>1, <2>2, <2>3 DEF AnnounceInv, StoryInv, ToldInv
<1>2. IInv /\ Strengthening /\ [Next]_vars => Strengthening'
  <2>1. ASSUME IInv, Strengthening, Next
        PROVE  Strengthening'
    BY <2>1, AnnounceStep, StoryStep, ToldStep
  <2>2. ASSUME Strengthening, UNCHANGED vars
        PROVE  Strengthening'
    BY <2>2 DEF vars, AnnounceInv, StoryInv, ToldInv, Sight, Segs
  <2> QED
    BY <2>1, <2>2
<1>3. IInv /\ Strengthening => StoryIInv
  BY DEF StoryIInv
<1> QED
  BY <1>1, <1>2, <1>3, Inductive, PTL DEF Spec

-----------------------------------------------------------------------------
(* The story of a segment, from what was forwarded and what is queued.      *)

(* A moment is a frame forwarded or an item queued about the segment.       *)
LEMMA MomentsAre ==
  ASSUME TypeOK, NEW s \in Seg
  PROVE  /\ Len(fwd[s]) \in Nat
         /\ \A m \in Moments(s) :
              \/ m \in 1..Len(fwd[s]) /\ Said(s, m) = fwd[s][m]
              \/ \E j \in 1..Len(queue) : /\ m = Len(fwd[s]) + j /\ queue[j].seg = s
                                          /\ Said(s, m) = queue[j].kind
         /\ \A i \in 1..Len(fwd[s]) : i \in Moments(s) /\ Said(s, i) = fwd[s][i]
         /\ \A j \in 1..Len(queue) : queue[j].seg = s =>
              Len(fwd[s]) + j \in Moments(s) /\ Said(s, Len(fwd[s]) + j) = queue[j].kind
<1>1. /\ Len(fwd[s]) \in Nat /\ DOMAIN fwd[s] = 1..Len(fwd[s])
      /\ Len(queue) \in Nat /\ DOMAIN queue = 1..Len(queue)
  BY DEF TypeOK
<1>2. ASSUME NEW j \in 1..Len(queue)
      PROVE  /\ Len(fwd[s]) + j \notin 1..Len(fwd[s])
             /\ Said(s, Len(fwd[s]) + j) = queue[j].kind
  <2>1. Len(fwd[s]) + j \notin 1..Len(fwd[s]) /\ (Len(fwd[s]) + j) - Len(fwd[s]) = j
    BY <1>1
  <2> QED
    BY <1>1, <2>1 DEF Said
<1>3. \A i \in 1..Len(fwd[s]) : i \in Moments(s) /\ Said(s, i) = fwd[s][i]
  BY <1>1 DEF Moments, Said
<1>4. \A j \in 1..Len(queue) : queue[j].seg = s => Len(fwd[s]) + j \in Moments(s)
  BY <1>1 DEF Moments
<1>5. \A m \in Moments(s) :
        \/ m \in 1..Len(fwd[s])
        \/ \E j \in 1..Len(queue) : m = Len(fwd[s]) + j /\ queue[j].seg = s
  BY <1>1 DEF Moments
<1> QED
  BY <1>1, <1>2, <1>3, <1>4, <1>5

(* Something is queued about a segment only when its start has gone out.    *)
LEMMA QueuedIsBegun ==
  ASSUME StoryIInv, NEW j \in 1..Len(queue)
  PROVE  Len(fwd[queue[j].seg]) \in Nat \ {0}
<1>1. TypeOK /\ QueueInv /\ AnnounceInv
  BY DEF StoryIInv, IInv
<1>2. PICK s \in Seg : queue[j].seg = s
  BY <1>1, QueueSeq
<1>3. Sight(s) # "hidden"
  BY <1>1, <1>2 DEF QueueInv, AnnounceInv
<1> QED
  BY <1>1, <1>2, <1>3, LastSeen

(* Two moments with nothing queued between them follow one another.         *)
LEMMA FollowsInQueue ==
  ASSUME TypeOK, NEW s \in Seg, NEW i \in 0..Len(queue), NEW j \in 1..Len(queue), i < j,
         \A k \in 1..Len(queue) : ~(i < k /\ k < j /\ queue[k].seg = s)
  PROVE  Follows(s, Len(fwd[s]) + i, Len(fwd[s]) + j)
<1>1. Len(queue) \in Nat /\ Len(fwd[s]) \in Nat
  BY MomentsAre DEF TypeOK
<1>2. ASSUME NEW k \in Moments(s)
      PROVE  k <= Len(fwd[s]) + i \/ Len(fwd[s]) + j <= k
  <2>1. CASE k \in 1..Len(fwd[s])
    BY <1>1, <2>1
  <2>2. ASSUME NEW n \in 1..Len(queue), k = Len(fwd[s]) + n, queue[n].seg = s
        PROVE  k <= Len(fwd[s]) + i \/ Len(fwd[s]) + j <= k
    BY <1>1, <2>2
  <2> QED
    BY <2>1, <2>2, MomentsAre
<1> QED
  BY <1>1, <1>2 DEF Follows

(* No end and no sentinel is queued before an end.                          *)
LEMMA OneEndQueued ==
  ASSUME QueueInv, NEW i \in 1..Len(queue), NEW j \in 1..Len(queue), i < j,
         queue[i].seg = queue[j].seg, queue[j].kind \in EndKind
  PROVE  queue[i].kind \notin {"ok", "failed", "sentinel"}
  BY DEF QueueInv, EndKind

(* A segment's story begins with its start, and nothing else is one.        *)
LEMMA StartIsFirst ==
  ASSUME StoryIInv, NEW s \in Seg, NEW m \in Moments(s)
  PROVE  Said(s, m) = "start" <=> \A n \in Moments(s) : m <= n
<1>1. TypeOK /\ StoryInv /\ ToldInv /\ Len(fwd[s]) \in Nat
  BY MomentsAre DEF StoryIInv, IInv
<1>2. \A n \in Moments(s) : n \in Nat \ {0}
  <2>1. \A j \in 1..Len(queue) : Len(fwd[s]) + j \in Nat \ {0}
    BY <1>1
  <2> QED
    BY <1>1, <2>1, MomentsAre
<1>3. CASE m \in 1..Len(fwd[s]) /\ Said(s, m) = fwd[s][m]
  <2>1. Said(s, m) = "start" <=> m = 1
    BY <1>1, <1>3 DEF ToldInv
  <2>2. 1 \in Moments(s)
    BY <1>1, <1>3, MomentsAre
  <2> QED
    BY <1>2, <1>3, <2>1, <2>2
<1>4. ASSUME NEW j \in 1..Len(queue), m = Len(fwd[s]) + j, queue[j].seg = s,
             Said(s, m) = queue[j].kind
      PROVE  Said(s, m) = "start" <=> \A n \in Moments(s) : m <= n
  <2>1. Said(s, m) # "start"
    BY <1>1, <1>4 DEF StoryInv
  <2>2. 1 \in 1..Len(fwd[s])
    BY <1>1, <1>4, QueuedIsBegun
  <2>3. 1 \in Moments(s) /\ ~(m <= 1)
    BY <1>1, <1>4, <2>2, MomentsAre
  <2> QED
    BY <2>1, <2>3
<1> QED
  BY <1>1, <1>3, <1>4, MomentsAre

(* An ok end comes right behind a commit.                                   *)
LEMMA OkAfterCommit ==
  ASSUME StoryIInv, NEW s \in Seg, NEW m \in Moments(s), Said(s, m) = "ok"
  PROVE  \E n \in Moments(s) : Follows(s, n, m) /\ Said(s, n) = "committed"
<1>1. TypeOK /\ QueueInv /\ StoryInv /\ ToldInv /\ Len(fwd[s]) \in Nat /\ Len(queue) \in Nat
  BY MomentsAre DEF StoryIInv, IInv, TypeOK
<1>2. CASE m \in 1..Len(fwd[s]) /\ Said(s, m) = fwd[s][m]
  <2>1. m > 1 /\ fwd[s][m - 1] = "committed"
    BY <1>1, <1>2 DEF ToldInv
  <2>2. m - 1 \in 1..Len(fwd[s])
    BY <1>1, <1>2, <2>1
  <2>3. m - 1 \in Moments(s) /\ Said(s, m - 1) = "committed"
    BY <1>1, <2>1, <2>2, MomentsAre
  <2>4. \A k \in Moments(s) : k \in Nat
    <3>1. \A j \in 1..Len(queue) : Len(fwd[s]) + j \in Nat
      BY <1>1
    <3> QED
      BY <1>1, <3>1, MomentsAre
  <2>5. Follows(s, m - 1, m)
    <3>1. m \in Nat /\ m - 1 < m /\ \A k \in Nat : k <= m - 1 \/ m <= k
      BY <1>1, <1>2
    <3> QED
      BY <2>4, <3>1 DEF Follows
  <2> QED
    BY <2>3, <2>5
<1>3. ASSUME NEW j \in 1..Len(queue), m = Len(fwd[s]) + j, queue[j].seg = s,
             queue[j].kind = "ok"
      PROVE  \E n \in Moments(s) : Follows(s, n, m) /\ Said(s, n) = "committed"
  <2>1. \A i \in 1..Len(queue) : i < j /\ queue[i].seg = s =>
          queue[i].kind \notin {"ok", "failed", "sentinel"}
    BY <1>1, <1>3, OneEndQueued DEF EndKind
  <2>2. CASE Sight(s) = "committed"
    <3>1. Len(fwd[s]) \in 1..Len(fwd[s]) /\ fwd[s][Len(fwd[s])] = "committed"
      BY <1>1, <2>2, LastSeen
    <3>2. \A i \in 1..Len(queue) : queue[i].seg = s =>
            queue[i].kind \notin {"start", "chunk", "committed", "failed"}
      BY <1>1, <2>2 DEF StoryInv
    <3>3. \A i \in 1..Len(queue) : queue[i].kind \in FrameKind \cup {"sentinel"}
      BY <1>1, QueueSeq DEF QueueItem
    <3>4. \A i \in 1..Len(queue) : ~(0 < i /\ i < j /\ queue[i].seg = s)
      BY <2>1, <3>2, <3>3 DEF FrameKind
    <3>5. Follows(s, Len(fwd[s]) + 0, m)
      BY <1>1, <1>3, <3>4, FollowsInQueue
    <3>6. Len(fwd[s]) + 0 = Len(fwd[s])
      BY <1>1
    <3> QED
      BY <1>1, <3>1, <3>5, <3>6, MomentsAre
  <2>3. ASSUME NEW k \in 1..Len(queue), k < j, queue[k] = Item("committed", s)
        PROVE  \E n \in Moments(s) : Follows(s, n, m) /\ Said(s, n) = "committed"
    <3>1. queue[k].kind = "committed" /\ queue[k].seg = s
      BY <2>3 DEF Item
    <3>2. \A i \in 1..Len(queue) : i > k /\ queue[i].seg = s => queue[i].kind \in {"ok", "sentinel"}
      BY <1>1, <3>1 DEF StoryInv
    <3>3. \A i \in 1..Len(queue) : ~(k < i /\ i < j /\ queue[i].seg = s)
      BY <2>1, <3>2
    <3>4. Follows(s, Len(fwd[s]) + k, m)
      BY <1>1, <1>3, <2>3, <3>3, FollowsInQueue
    <3> QED
      BY <1>1, <3>1, <3>4, MomentsAre
  <2> QED
    BY <1>1, <1>3, <2>2, <2>3 DEF StoryInv
<1> QED
  BY <1>1, <1>2, <1>3, MomentsAre

(* The end of a committed segment is queued, and it is the next moment      *)
(* after place i of the queue, where i is the commit's, or none if the      *)
(* commit was the last frame forwarded.                                     *)
LEMMA EndAwaits ==
  ASSUME StoryIInv, NEW s \in Seg, task[s] = "finished",
         NEW i \in 0..Len(queue),
         Len(fwd[s]) > 0, fwd[s][Len(fwd[s])] \notin EndKind,
         \A e \in 1..Len(queue) : queue[e].seg = s =>
           (queue[e].kind \in EndKind \/ e > i => e > i /\ queue[e].kind \in {"ok", "sentinel"})
  PROVE  \E n \in Moments(s) : Follows(s, Len(fwd[s]) + i, n) /\ Said(s, n) = "ok"
<1>1. TypeOK /\ QueueInv /\ EndInv
  BY DEF StoryIInv, IInv
<1>2. EndQueued(s)
  BY <1>1 DEF EndInv, EndForwarded
<1>3. PICK e \in 1..Len(queue) : queue[e].seg = s /\ queue[e].kind \in EndKind
  BY <1>2 DEF EndQueued
<1>4. e > i /\ queue[e].kind = "ok"
  BY <1>3 DEF EndKind
<1>5. \A k \in 1..Len(queue) : ~(i < k /\ k < e /\ queue[k].seg = s)
  <2> SUFFICES ASSUME NEW k \in 1..Len(queue), i < k, k < e, queue[k].seg = s
               PROVE  FALSE
    OBVIOUS
  <2>1. queue[k].kind \in {"ok", "sentinel"}
    OBVIOUS
  <2> QED
    BY <1>1, <1>3, <2>1, OneEndQueued
<1>6. Follows(s, Len(fwd[s]) + i, Len(fwd[s]) + e)
  BY <1>1, <1>4, <1>5, FollowsInQueue
<1> QED
  BY <1>1, <1>3, <1>4, <1>6, MomentsAre

(* A commit is followed by the ok end.                                      *)
LEMMA CommitBeforeOk ==
  ASSUME StoryIInv, NEW s \in Seg, NEW m \in Moments(s), Said(s, m) = "committed"
  PROVE  \E n \in Moments(s) : Follows(s, m, n) /\ Said(s, n) = "ok"
<1>1. TypeOK /\ QueueInv /\ StoryInv /\ ToldInv /\ Len(fwd[s]) \in Nat /\ Len(queue) \in Nat
  BY MomentsAre DEF StoryIInv, IInv, TypeOK
<1>2. \A i \in 1..Len(queue) : queue[i].kind \in FrameKind \cup {"sentinel"}
  BY <1>1, QueueSeq DEF QueueItem
<1>3. CASE m \in 1..Len(fwd[s]) /\ Said(s, m) = fwd[s][m]
  <2>1. CASE m # Len(fwd[s])
    <3>1. fwd[s][m + 1] = "ok" /\ m + 1 \in 1..Len(fwd[s])
      BY <1>1, <1>3, <2>1 DEF ToldInv
    <3>2. \A k \in Moments(s) : k \in Nat
      <4>1. \A j \in 1..Len(queue) : Len(fwd[s]) + j \in Nat
        BY <1>1
      <4> QED
        BY <1>1, <4>1, MomentsAre
    <3>3. Follows(s, m, m + 1)
      BY <1>1, <1>3, <3>2 DEF Follows
    <3> QED
      BY <1>1, <3>1, <3>3, MomentsAre
  <2>2. CASE m = Len(fwd[s])
    <3>1. fwd[s] # <<>> /\ fwd[s][Len(fwd[s])] = "committed" /\ Len(fwd[s]) > 0
      BY <1>1, <1>3, <2>2, LastSeen
    <3>2. Sight(s) = "committed"
      BY <3>1 DEF Sight
    <3>3. task[s] = "finished"
      BY <1>1, <3>2 DEF StoryInv
    <3>4. \A i \in 1..Len(queue) : queue[i].seg = s => queue[i].kind \in {"ok", "sentinel"}
      BY <1>1, <1>2, <3>2 DEF StoryInv, FrameKind
    <3>5. m + 0 = m /\ 0 \in 0..Len(queue)
      BY <1>1, <1>3
    <3>6. \E n \in Moments(s) : Follows(s, Len(fwd[s]) + 0, n) /\ Said(s, n) = "ok"
      BY <3>1, <3>3, <3>4, <3>5, EndAwaits DEF EndKind
    <3> QED
      BY <2>2, <3>5, <3>6
  <2> QED
    BY <2>1, <2>2
<1>4. ASSUME NEW j \in 1..Len(queue), m = Len(fwd[s]) + j, queue[j].seg = s,
             queue[j].kind = "committed"
      PROVE  \E n \in Moments(s) : Follows(s, m, n) /\ Said(s, n) = "ok"
  <2>1. /\ Sight(s) = "open" /\ task[s] = "finished"
        /\ \A e \in 1..Len(queue) : e > j /\ queue[e].seg = s => queue[e].kind \in {"ok", "sentinel"}
    BY <1>1, <1>4 DEF StoryInv
  <2>2. Len(fwd[s]) > 0 /\ fwd[s][Len(fwd[s])] \notin EndKind
    BY <1>1, <2>1, LastSeen DEF EndKind
  <2>3. \A e \in 1..Len(queue) : queue[e].seg = s /\ queue[e].kind \in EndKind => e > j
    BY <1>1, <1>4 DEF QueueInv, EndKind
  <2> QED
    BY <1>4, <2>1, <2>2, <2>3, EndAwaits
<1> QED
  BY <1>1, <1>3, <1>4, MomentsAre

(* After an end comes the task's sentinel, and nothing else.                *)
LEMMA NothingAfterEnd ==
  ASSUME StoryIInv, NEW s \in Seg, NEW m \in Moments(s), Said(s, m) \in {"ok", "failed"},
         NEW n \in Moments(s), n > m
  PROVE  Said(s, n) = "sentinel" /\ Follows(s, m, n)
<1>1. TypeOK /\ QueueInv /\ StoryInv /\ ToldInv /\ Len(fwd[s]) \in Nat /\ Len(queue) \in Nat
  BY MomentsAre DEF StoryIInv, IInv, TypeOK
<1>2. \A i \in 1..Len(queue) : queue[i].kind \in FrameKind \cup {"sentinel"}
  BY <1>1, QueueSeq DEF QueueItem
<1>3. PICK i \in 0..Len(queue) :
        /\ m = Len(fwd[s]) + i
        /\ \A k \in 1..Len(queue) : k > i /\ queue[k].seg = s => queue[k].kind = "sentinel"
  <2>1. CASE m \in 1..Len(fwd[s]) /\ Said(s, m) = fwd[s][m]
    <3>1. m = Len(fwd[s]) /\ m = Len(fwd[s]) + 0 /\ 0 \in 0..Len(queue)
      BY <1>1, <2>1 DEF ToldInv, EndKind
    <3>2. Sight(s) \in {"ok", "failed"}
      BY <1>1, <2>1, <3>1, LastSeen DEF Sight
    <3>3. \A k \in 1..Len(queue) : queue[k].seg = s => queue[k].kind = "sentinel"
      BY <1>1, <1>2, <3>2 DEF StoryInv, FrameKind
    <3> QED
      BY <3>1, <3>3
  <2>2. ASSUME NEW j \in 1..Len(queue), m = Len(fwd[s]) + j, queue[j].seg = s,
               Said(s, m) = queue[j].kind
        PROVE  \A k \in 1..Len(queue) : k > j /\ queue[k].seg = s => queue[k].kind = "sentinel"
    BY <1>1, <2>2 DEF QueueInv, EndKind
  <2>3. CASE \E j \in 1..Len(queue) : /\ m = Len(fwd[s]) + j /\ queue[j].seg = s
                                     /\ Said(s, m) = queue[j].kind
    <3>1. PICK j \in 1..Len(queue) : /\ m = Len(fwd[s]) + j /\ queue[j].seg = s
                                     /\ Said(s, m) = queue[j].kind
      BY <2>3
    <3>2. \A k \in 1..Len(queue) : k > j /\ queue[k].seg = s => queue[k].kind = "sentinel"
      BY <2>2, <3>1
    <3>3. j \in 0..Len(queue)
      BY <1>1
    <3> QED
      BY <3>1, <3>2, <3>3
  <2> QED
    BY <1>1, <2>1, <2>3, MomentsAre
<1>4. PICK j \in 1..Len(queue) : n = Len(fwd[s]) + j /\ queue[j].seg = s /\ Said(s, n) = queue[j].kind
  <2>1. n \notin 1..Len(fwd[s])
    BY <1>1, <1>3
  <2> QED
    BY <1>1, <2>1, MomentsAre
<1>5. i < j
  BY <1>1, <1>3, <1>4
<1>6. \A k \in 1..Len(queue) : ~(i < k /\ k < j /\ queue[k].seg = s)
  BY <1>1, <1>3, <1>4 DEF QueueInv
<1>7. Follows(s, m, n)
  BY <1>1, <1>3, <1>4, <1>5, <1>6, FollowsInQueue
<1> QED
  BY <1>3, <1>4, <1>5, <1>7

(* Every segment's frames reach the browser as a story with one ending:     *)
(* nothing before its start, a commit only right before the ok end, nothing *)
(* after the end but the task's sentinel.                                   *)
THEOREM StoryIsTold == Spec => []StoryOfSegment
<1>1. StoryIInv => StoryOfSegment
  <2> SUFFICES ASSUME StoryIInv, NEW s \in Segs, NEW m \in Moments(s)
               PROVE  /\ Said(s, m) = "start" <=> \A n \in Moments(s) : m <= n
                      /\ Said(s, m) = "ok" =>
                           \E n \in Moments(s) : Follows(s, n, m) /\ Said(s, n) = "committed"
                      /\ Said(s, m) = "committed" =>
                           \E n \in Moments(s) : Follows(s, m, n) /\ Said(s, n) = "ok"
                      /\ Said(s, m) \in {"ok", "failed"} =>
                           \A n \in Moments(s) : n > m => Said(s, n) = "sentinel" /\ Follows(s, m, n)
    BY DEF StoryOfSegment
  <2>1. s \in Seg
    BY SegsOfPlan DEF StoryIInv, IInv
  <2> QED
    BY <2>1, StartIsFirst, OkAfterCommit, CommitBeforeOk, NothingAfterEnd
<1> QED
  BY <1>1, StoryInductive, PTL

-----------------------------------------------------------------------------
(* To the browser the coordinator is a fan-out that joins.                  *)

(* A request begins as a fan-out that has shown nothing.                    *)
LEMMA BrowserInit == Init => Browser!Init
  BY DEF Init, Browser!Init, Phase, Sight

(* A step that leaves a segment's frames alone leaves what was seen of it.  *)
LEMMA SeenKept ==
  ASSUME fwd' = fwd
  PROVE  [s \in Seg |-> Sight(s)]' = [s \in Seg |-> Sight(s)]
  BY DEF Sight

(* Every step is, to the browser, a step of a fan-out, or none.             *)
LEMMA BrowserStep == StoryIInv /\ StoryIInv' /\ [Next]_vars => [Browser!Next]_(Browser!fanVars)
<1> SUFFICES ASSUME StoryIInv, StoryIInv', [Next]_vars
             PROVE  Browser!Next \/ UNCHANGED Browser!fanVars
  OBVIOUS
<1> DEFINE seen == [s \in Seg |-> Sight(s)]
<1>0. /\ TypeOK /\ PlanInv /\ QueueInv /\ AnnounceInv /\ Segs \subseteq Seg
      /\ coord = "draining" => StoryInv
  BY SegsOfPlan DEF StoryIInv, IInv
<1>1. CASE SupervisorFails
  <2>1. coord = "supervisor" /\ coord' = "refused" /\ fwd' = fwd
    BY <1>1 DEF SupervisorFails
  <2>2. \A s \in Seg : seen[s] = "hidden"
    BY <1>0, <2>1, MultiagentAssumption DEF AnnounceInv, Seg
  <2>3. Browser!Refuse
    BY <2>1, <2>2, SeenKept DEF Browser!Refuse, Phase
  <2> QED
    BY <2>3 DEF Browser!Next, Browser!Progress
<1>2. CASE AnnounceSegment
  <2>1. /\ coord = "announcing" /\ coord' = "announcing" /\ announced \in Nat
        /\ announced + 1 <= Len(plan) /\ Len(plan) \in Nat
    BY <1>0, <1>2, SegsOfPlan, MultiagentAssumption DEF AnnounceSegment, TypeOK
  <2>2. PICK n \in Seg : n = announced + 1
    BY <1>0, <2>1 DEF Segs
  <2>3. fwd' = [fwd EXCEPT ![n] = Append(@, "start")] /\ "start" \in FrameKind
    BY <1>2, <2>2 DEF AnnounceSegment, FrameKind
  <2>4. Sight(n)' = "open" /\ \A r \in Seg : r # n => Sight(r)' = Sight(r)
    BY <1>0, <2>3, SightAfter
  <2>5. seen[n] = "hidden"
    BY <1>0, <2>1, <2>2 DEF AnnounceInv
  <2>6. seen' = [seen EXCEPT ![n] = "open"]
    BY <2>4
  <2>7. Browser!Announce(n)
    BY <2>1, <2>5, <2>6 DEF Browser!Announce, Browser!See, Phase
  <2> QED
    BY <2>7 DEF Browser!Next
<1>3. CASE CreateTasks
  <2>1. Browser!Open
    BY <1>3, SeenKept DEF CreateTasks, Browser!Open, Phase
  <2> QED
    BY <2>1 DEF Browser!Next, Browser!Progress
<1>4. CASE Forward
  <2>1. PICK q \in Seg, k \in FrameKind \cup {"sentinel"} : ForwardOf(q, k)
    BY <1>0, <1>4, ForwardEffect
  <2>2. coord = "draining" /\ coord' = "draining"
    BY <2>1 DEF ForwardOf
  <2>3. CASE k = "sentinel"
    <3>1. fwd' = fwd
      BY <2>1, <2>3 DEF ForwardOf
    <3> QED
      BY <2>2, <3>1, SeenKept DEF Browser!fanVars, Phase
  <2>4. CASE k # "sentinel"
    <3>1. k \in FrameKind /\ fwd' = [fwd EXCEPT ![q] = Append(@, k)]
      BY <2>1, <2>4 DEF ForwardOf
    <3>2. /\ Sight(q)' = IF k \in {"start", "chunk"} THEN "open" ELSE k
          /\ \A r \in Seg : r # q => Sight(r)' = Sight(r)
      BY <1>0, <3>1, SightAfter
    <3>3. 1 \in 1..Len(queue) /\ queue[1].seg = q /\ queue[1].kind = k
      BY <2>1 DEF ForwardOf
    <3>4. /\ k # "start"
          /\ k \in {"chunk", "committed", "failed"} => Sight(q) = "open"
          /\ k = "ok" => Sight(q) = "committed"
      BY <1>0, <2>2, <3>3 DEF StoryInv
    <3>5. CASE k = "chunk"
      <4>1. seen' = seen
        BY <3>2, <3>4, <3>5
      <4> QED
        BY <2>2, <4>1 DEF Browser!fanVars, Phase
    <3>6. CASE k = "committed"
      <4>1. seen[q] = "open" /\ seen' = [seen EXCEPT ![q] = "committed"]
        BY <3>2, <3>4, <3>6
      <4>2. Browser!Commit(q)
        BY <2>2, <4>1 DEF Browser!Commit, Browser!See, Phase
      <4> QED
        BY <4>2 DEF Browser!Next, Browser!Progress
    <3>7. CASE k = "ok"
      <4>1. seen[q] = "committed" /\ seen' = [seen EXCEPT ![q] = "ok"]
        BY <3>2, <3>4, <3>7
      <4>2. Browser!Succeed(q)
        BY <2>2, <4>1 DEF Browser!Succeed, Browser!See, Phase
      <4> QED
        BY <4>2 DEF Browser!Next, Browser!Progress
    <3>8. CASE k = "failed"
      <4>1. seen[q] = "open" /\ seen' = [seen EXCEPT ![q] = "failed"]
        BY <3>2, <3>4, <3>8
      <4>2. Browser!Fail(q)
        BY <2>2, <4>1 DEF Browser!Fail, Browser!See, Phase
      <4> QED
        BY <4>2 DEF Browser!Next, Browser!Progress
    <3> QED
      BY <3>1, <3>4, <3>5, <3>6, <3>7, <3>8 DEF FrameKind
  <2> QED
    BY <2>3, <2>4
<1>5. CASE Gather
  <2>1. /\ coord = "draining" /\ coord' = "merging" /\ fwd' = fwd /\ plan' = plan
    BY <1>5 DEF Gather
  <2>2. /\ IInv' /\ coord' \in {"merging", "closed"}
    BY <2>1 DEF StoryIInv
  <2>3. \A s \in Segs : fwd[s] # <<>> /\ fwd[s][Len(fwd[s])] \in EndKind
    <3>1. MergeAfterEveryFrame'
      BY <2>2, IInvMerges, PTL
    <3> QED
      BY <2>1, <3>1 DEF MergeAfterEveryFrame, Segs, EndKind
  <2>4. \A s \in Seg : seen[s] \in {"hidden", "ok", "failed"}
    <3> SUFFICES ASSUME NEW s \in Seg
                 PROVE  Sight(s) \in {"hidden", "ok", "failed"}
      OBVIOUS
    <3>1. CASE s \in Segs
      BY <1>0, <2>3, <3>1, SightIs DEF EndKind
    <3>2. CASE s \notin Segs
      BY <1>0, <2>1, <3>2 DEF AnnounceInv
    <3> QED
      BY <3>1, <3>2
  <2>5. Browser!Join
    BY <2>1, <2>4, SeenKept DEF Browser!Join, Phase
  <2> QED
    BY <2>5 DEF Browser!Next, Browser!Progress
<1>6. CASE Disconnect
  <2>1. Browser!Abandon
    BY <1>6, SeenKept DEF Disconnect, Present, Browser!Abandon, Phase
  <2> QED
    BY <2>1 DEF Browser!Next
<1>7. CASE MergeSection \/ MergeDone \/ (\E p \in Plans : SupervisorPlans(p)) \/ UNCHANGED vars
  <2>1. fwd' = fwd /\ Phase' = Phase
    BY <1>7 DEF MergeSection, MergeDone, SupervisorPlans, vars, Phase
  <2> QED
    BY <2>1, SeenKept DEF Browser!fanVars
<1>8. ASSUME NEW s \in Seg, TaskStep(s)
      PROVE  UNCHANGED Browser!fanVars
  <2>1. fwd' = fwd /\ coord' = coord
    BY <1>8 DEF TaskStep, TaskEnds, Acquire, StreamFrame, Submit, AgentReturns, AgentFails,
                CommitSegment, CommitRaises, coordVars
  <2> QED
    BY <2>1, SeenKept DEF Browser!fanVars, Phase
<1> QED
  BY <1>1, <1>2, <1>3, <1>4, <1>5, <1>6, <1>7, <1>8 DEF Next, Coordinator

(* What a fan-out promises the browser, step by step: a segment is announced*)
(* before it makes progress and ends once, a commit is followed by success, *)
(* and the stream joins only when every segment has ended.                  *)
THEOREM CoordinatorIsFanOut == Spec => Browser!Safety
<1>1. Init => Browser!Init
  BY BrowserInit
<1>2. StoryIInv /\ StoryIInv' /\ [Next]_vars => [Browser!Next]_(Browser!fanVars)
  BY BrowserStep
<1> QED
  BY <1>1, <1>2, StoryInductive, PTL DEF Spec, Browser!Safety
=============================================================================
