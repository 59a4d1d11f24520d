--------------------------- MODULE EnrichmentProofs ---------------------------
(***************************************************************************)
(* Theorems about a follow-up request: whatever the message and however    *)
(* many overnights the plan has, the agents that run are those the message *)
(* asked for, each of them ends before the request does, and the browser   *)
(* sees a fan-out that joins.                                              *)
(***************************************************************************)
EXTENDS Enrichment, FiniteSetTheorems, FunctionTheorems, SequenceTheorems, TLAPS

EndKind == {"ok", "failed"}
Message == [kind : {"chunk", "ok", "failed", "sentinel"}, job : Job]
Running == {j \in Job : task[j] = "running"}
Asked == Range(Jobs)

-----------------------------------------------------------------------------
(* The semaphore neither leaks nor invents a permit.                        *)
PermitsConserved == permits + Cardinality(Running) = MaxParallel

(* The agents of this request are announced in order, before any task, and  *)
(* only after the dispatch has seen what the message asks for.              *)
RequestInv ==
  /\ coord \in {"dispatch", "extracting", "planner", "asked", "extract_failed", "raised"} =>
       announced = 0 /\ \A j \in Job : seen[j] = "hidden"
  /\ coord \in {"extracting", "announcing", "draining", "closed"} =>
       Scope # {} /\ ("lodging" \in Scope => Prefs)
  /\ coord = "announcing" =>
       /\ announced <= Len(Jobs)
       /\ \A j \in Job : seen[j] = IF \E i \in 1..announced : Jobs[i] = j THEN "open" ELSE "hidden"
  /\ coord \in {"draining", "closed"} => \A j \in Job : seen[j] # "hidden" <=> j \in Asked
  /\ \A j \in Job : seen[j] # "hidden" => j \in Asked /\ ("lodging" \in Scope => Prefs)

(* Tasks exist once they are created, and only for announced agents.        *)
TaskInv ==
  /\ coord \notin {"draining", "closed", "gone"} =>
       queue = <<>> /\ done_sentinels = 0 /\ \A j \in Job : task[j] = "none"
  /\ \A j \in Job : task[j] # "none" => j \in Asked
  /\ \A j \in Job : task[j] \in {"waiting", "running"} => seen[j] = "open"
  /\ coord = "closed" => done_sentinels = Len(Jobs)

(* A task's last two items are its end frame and its sentinel, in this      *)
(* order; until then its agent is open.                                     *)
QueueInv ==
  /\ \A i \in 1..Len(queue) :
       /\ task[queue[i].job] # "none"
       /\ queue[i].kind # "chunk" => task[queue[i].job] = "finished"
       /\ queue[i].kind # "sentinel" => seen[queue[i].job] = "open"
  /\ \A i, k \in 1..Len(queue) :
       (queue[i].job = queue[k].job /\ i < k) =>
         /\ queue[i].kind # "sentinel"
         /\ queue[i].kind \in EndKind => queue[k].kind = "sentinel"

(* A finished task's end is still to come, with its sentinel behind it, or  *)
(* the browser has seen it.                                                 *)
EndQueued(j) ==
  \E i, k \in 1..Len(queue) :
    /\ i < k
    /\ queue[i].job = j /\ queue[i].kind \in EndKind
    /\ queue[k].job = j /\ queue[k].kind = "sentinel"

EndInv == \A j \in Job : task[j] = "finished" => EndQueued(j) \/ seen[j] \in EndKind

(* The sentinels counted are those of the finished tasks that have none in  *)
(* the queue.                                                               *)
Awaited == {j \in Job : \E k \in 1..Len(queue) : queue[k].job = j /\ queue[k].kind = "sentinel"}
Counted == {j \in Job : task[j] = "finished"} \ Awaited
CountInv == done_sentinels = Cardinality(Counted)

IInv == TypeOK /\ PermitsConserved /\ RequestInv /\ TaskInv /\ QueueInv /\ EndInv /\ CountInv

-----------------------------------------------------------------------------
(* The agents a message asks for.                                           *)

(* There are finitely many jobs.                                            *)
LEMMA JobFinite == IsFiniteSet(Job) /\ Cardinality(Job) \in Nat
<1>1. IsFiniteSet(1..MaxOvernights) /\ IsFiniteSet(1..(MaxOvernights - 1))
  BY EnrichmentAssumption, FS_Interval
<1>2. IsFiniteSet({"lodging"}) /\ IsFiniteSet({"transit"})
  BY FS_Singleton
<1>3. IsFiniteSet({"lodging"} \X (1..MaxOvernights))
  BY <1>1, <1>2, FS_Product
<1>4. IsFiniteSet({"transit"} \X (1..(MaxOvernights - 1)))
  BY <1>1, <1>2, FS_Product
<1> QED
  BY <1>3, <1>4, FS_Union, FS_CardinalityType DEF Job

NLodging == IF "lodging" \in Scope THEN overnights ELSE 0
NTransit == IF "transit" \in Scope /\ overnights # 0 THEN overnights - 1 ELSE 0

(* The job list: lodging searches first, then train lookups.                *)
LEMMA JobsAre ==
  ASSUME TypeOK
  PROVE  /\ NLodging \in Nat /\ NTransit \in Nat
         /\ Jobs \in Seq(Job) /\ Len(Jobs) = NLodging + NTransit
         /\ \A i \in 1..NLodging : Jobs[i] = <<"lodging", i>>
         /\ \A i \in 1..NTransit : Jobs[NLodging + i] = <<"transit", i>>
<1> DEFINE n == IF overnights = 0 THEN 0 ELSE overnights - 1
           L == [i \in 1..overnights |-> <<"lodging", i>>]
           T == [i \in 1..n |-> <<"transit", i>>]
           A == IF "lodging" \in Scope THEN L ELSE <<>>
           B == IF "transit" \in Scope THEN T ELSE <<>>
<1>1. /\ overnights \in Nat /\ n \in Nat
      /\ \A i \in 1..overnights : <<"lodging", i>> \in Job
      /\ \A i \in 1..n : <<"transit", i>> \in Job
  BY EnrichmentAssumption DEF TypeOK, Job
<1>2. Jobs = A \o B
  BY DEF Jobs
<1> HIDE DEF n
<1>3. L \in Seq(Job) /\ Len(L) = overnights /\ \A i \in 1..overnights : L[i] = <<"lodging", i>>
  BY <1>1
<1>4. T \in Seq(Job) /\ Len(T) = n /\ \A i \in 1..n : T[i] = <<"transit", i>>
  BY <1>1
<1>5. NTransit = (IF "transit" \in Scope THEN n ELSE 0) /\ NTransit \in Nat /\ NLodging \in Nat
  BY <1>1 DEF NTransit, NLodging, n
<1> HIDE DEF L, T
<1>6. A \in Seq(Job) /\ Len(A) = NLodging /\ \A i \in 1..NLodging : A[i] = <<"lodging", i>>
  BY <1>3 DEF NLodging
<1>7. B \in Seq(Job) /\ Len(B) = NTransit /\ \A i \in 1..NTransit : B[i] = <<"transit", i>>
  BY <1>4, <1>5
<1> HIDE DEF A, B
<1>8. /\ A \o B \in Seq(Job) /\ Len(A \o B) = NLodging + NTransit
      /\ \A i \in 1..NLodging : (A \o B)[i] = A[i]
      /\ \A i \in 1..NTransit : (A \o B)[NLodging + i] = B[i]
  <2>1. /\ A \o B \in Seq(Job) /\ Len(A \o B) = Len(A) + Len(B)
        /\ \A i \in 1..(Len(A) + Len(B)) :
             (A \o B)[i] = IF i <= Len(A) THEN A[i] ELSE B[i - Len(A)]
    BY <1>6, <1>7, ConcatProperties
  <2>2. \A i \in 1..NTransit : /\ NLodging + i \in 1..(NLodging + NTransit)
                              /\ ~(NLodging + i <= NLodging) /\ NLodging + i - NLodging = i
    BY <1>5
  <2>3. \A i \in 1..NLodging : i \in 1..(NLodging + NTransit) /\ i <= NLodging
    BY <1>5
  <2> QED
    BY <1>5, <1>6, <1>7, <2>1, <2>2, <2>3, SMTT(30)
<1> QED
  BY <1>2, <1>5, <1>6, <1>7, <1>8

(* The agents are those of the kinds asked for, one per overnight and one   *)
(* per pair of overnights.                                                  *)
LEMMA AskedAre ==
  ASSUME TypeOK
  PROVE  /\ Asked = {j \in Job : /\ j[1] \in Scope
                                /\ j[2] + (IF j[1] = "transit" THEN 1 ELSE 0) <= overnights}
         /\ DOMAIN Jobs = 1..Len(Jobs) /\ \A i \in 1..Len(Jobs) : Jobs[i] \in Asked
         /\ \A i, k \in 1..Len(Jobs) : Jobs[i] = Jobs[k] => i = k
<1>1. overnights \in Nat /\ overnights <= MaxOvernights
  BY EnrichmentAssumption DEF TypeOK
<1>2. /\ NLodging \in Nat /\ NTransit \in Nat
      /\ Jobs \in Seq(Job) /\ Len(Jobs) = NLodging + NTransit
      /\ \A i \in 1..NLodging : Jobs[i] = <<"lodging", i>>
      /\ \A i \in 1..NTransit : Jobs[NLodging + i] = <<"transit", i>>
  BY JobsAre
<1>3. DOMAIN Jobs = 1..Len(Jobs)
  BY <1>2
<1>4. \A i \in 1..Len(Jobs) :
        \/ i \in 1..NLodging /\ Jobs[i] = <<"lodging", i>>
        \/ i - NLodging \in 1..NTransit /\ Jobs[i] = <<"transit", i - NLodging>>
  <2> SUFFICES ASSUME NEW i \in 1..Len(Jobs)
               PROVE  \/ i \in 1..NLodging /\ Jobs[i] = <<"lodging", i>>
                      \/ i - NLodging \in 1..NTransit /\ Jobs[i] = <<"transit", i - NLodging>>
    OBVIOUS
  <2>1. CASE i \in 1..NLodging
    BY <1>2, <2>1
  <2>2. CASE i \notin 1..NLodging
    <3>1. i - NLodging \in 1..NTransit /\ NLodging + (i - NLodging) = i
      BY <1>2, <2>2
    <3> QED
      BY <1>2, <3>1
  <2> QED
    BY <2>1, <2>2
<1>5. ASSUME NEW j \in Asked
      PROVE  /\ j \in Job /\ j[1] \in Scope
             /\ j[2] + (IF j[1] = "transit" THEN 1 ELSE 0) <= overnights
  <2>1. PICK i \in 1..Len(Jobs) : Jobs[i] = j
    BY <1>3 DEF Asked, Range
  <2>2. j \in Job
    BY <1>2, <2>1, ElementOfSeq
  <2>3. CASE i \in 1..NLodging /\ j = <<"lodging", i>>
    BY <1>1, <2>2, <2>3 DEF NLodging
  <2>4. CASE i - NLodging \in 1..NTransit /\ j = <<"transit", i - NLodging>>
    BY <1>1, <1>2, <2>2, <2>4 DEF NTransit
  <2> QED
    BY <1>4, <2>1, <2>3, <2>4
<1>6. ASSUME NEW j \in Job, j[1] \in Scope,
             j[2] + (IF j[1] = "transit" THEN 1 ELSE 0) <= overnights
      PROVE  j \in Asked
  <2>1. CASE j \in {"lodging"} \X (1..MaxOvernights)
    <3>1. PICK i \in 1..MaxOvernights : j = <<"lodging", i>>
      BY <2>1
    <3>2. i \in 1..NLodging
      BY <1>1, <1>6, <3>1, EnrichmentAssumption DEF NLodging
    <3>3. i \in 1..Len(Jobs) /\ Jobs[i] = j
      BY <1>2, <3>1, <3>2
    <3> QED
      BY <1>3, <3>3 DEF Asked, Range
  <2>2. CASE j \in {"transit"} \X (1..(MaxOvernights - 1))
    <3>1. PICK i \in 1..(MaxOvernights - 1) : j = <<"transit", i>>
      BY <2>2
    <3>2. i \in 1..NTransit
      BY <1>1, <1>6, <3>1, EnrichmentAssumption DEF NTransit
    <3>3. NLodging + i \in 1..Len(Jobs) /\ Jobs[NLodging + i] = j
      BY <1>2, <3>1, <3>2
    <3> QED
      BY <1>3, <3>3 DEF Asked, Range
  <2> QED
    BY <2>1, <2>2 DEF Job
<1>7. \A i \in 1..Len(Jobs) : Jobs[i] \in Asked
  BY <1>3 DEF Asked, Range
<1>8. ASSUME NEW i \in 1..Len(Jobs), NEW k \in 1..Len(Jobs), Jobs[i] = Jobs[k]
      PROVE  i = k
  BY <1>2, <1>4, <1>8
<1> QED
  BY <1>3, <1>5, <1>6, <1>7, <1>8

(* A request asks for as many agents as the job list has entries.           *)
LEMMA AskedCount ==
  ASSUME TypeOK
  PROVE  /\ Asked \subseteq Job /\ IsFiniteSet(Asked) /\ Cardinality(Asked) = Len(Jobs)
         /\ Len(Jobs) \in Nat /\ Len(Jobs) <= Cardinality(Job)
<1>1. Asked \subseteq Job /\ Jobs \in Seq(Job)
  BY AskedAre, JobsAre
<1>2. IsFiniteSet(Asked) /\ Cardinality(Asked) <= Cardinality(Job)
  BY <1>1, JobFinite, FS_Subset
<1>3. Len(Jobs) \in Nat
  BY <1>1
<1>4. Jobs \in Bijection(1..Len(Jobs), Asked)
  <2>1. Jobs \in [1..Len(Jobs) -> Asked]
    BY <1>1, AskedAre
  <2>2. Jobs \in Injection(1..Len(Jobs), Asked)
    BY <2>1, AskedAre, Fun_IsInj
  <2>3. \A j \in Asked : \E i \in 1..Len(Jobs) : Jobs[i] = j
    BY AskedAre DEF Asked, Range
  <2>4. Jobs \in Surjection(1..Len(Jobs), Asked)
    BY <2>1, <2>3, Fun_IsSurj
  <2> QED
    BY <2>2, <2>4 DEF Bijection
<1>5. IsFiniteSet(1..Len(Jobs)) /\ Cardinality(1..Len(Jobs)) = Len(Jobs)
  BY <1>3, FS_Interval, SMTT(30)
<1>6. Cardinality(Asked) = Len(Jobs)
  BY <1>4, <1>5, FS_Bijection DEF ExistsBijection
<1> QED
  BY <1>1, <1>2, <1>3, <1>6

(* What is asked for stays the same for the rest of the request.            *)
LEMMA AskedKept ==
  ASSUME UNCHANGED <<prior, msg, hinted, overnights>>
  PROVE  Jobs' = Jobs /\ Asked' = Asked /\ Scope' = Scope /\ Prefs' = Prefs
<1>1. Scope' = Scope /\ Prefs' = Prefs
  BY DEF Scope, Prefs
<1>2. Jobs' = Jobs
  BY <1>1 DEF Jobs
<1> QED
  BY <1>1, <1>2 DEF Asked

JobsCounted == Len(Jobs) \in Nat /\ Asked \subseteq Job

(* The counts of jobs are within the kinds' bounds.                         *)
LEMMA JobsTyped == TypeOK => JobsCounted
  BY AskedCount DEF JobsCounted

-----------------------------------------------------------------------------
(* Facts about the queue.                                                   *)

(* Queued items are about jobs.                                             *)
LEMMA QueueSeq ==
  ASSUME TypeOK
  PROVE  /\ queue \in Seq(Message) /\ Len(queue) \in Nat
         /\ \A i \in 1..Len(queue) : queue[i] \in Message /\ queue[i].job \in Job
<1>1. queue \in Seq(Message) /\ Len(queue) \in Nat
  BY DEF TypeOK, Message
<1>2. \A i \in 1..Len(queue) : queue[i] \in Message
  BY <1>1, ElementOfSeq
<1> QED
  BY <1>1, <1>2 DEF Message

(* What a task's end appends.                                               *)
LEMMA PushTwo ==
  ASSUME NEW S, NEW q \in Seq(S), NEW a \in S, NEW b \in S
  PROVE  /\ q \o <<a, b>> \in Seq(S)
         /\ Len(q \o <<a, b>>) = Len(q) + 2
         /\ \A i \in 1..Len(q) : (q \o <<a, b>>)[i] = q[i]
         /\ (q \o <<a, b>>)[Len(q) + 1] = a
         /\ (q \o <<a, b>>)[Len(q) + 2] = b
<1>1. <<a, b>> \in Seq(S) /\ Len(<<a, b>>) = 2 /\ <<a, b>>[1] = a /\ <<a, b>>[2] = b
  OBVIOUS
<1>2. Len(q) \in Nat
  OBVIOUS
<1> QED
  BY <1>1, <1>2, ConcatProperties

(* The request forwards an item of kind k about agent q.                    *)
ForwardOf(q, k) ==
  /\ coord = "draining" /\ done_sentinels < Len(Jobs)
  /\ UNCHANGED <<prior, msg, hinted, coord, overnights, announced, task, permits, chunks>>
  /\ 1 \in 1..Len(queue) /\ queue[1].job = q /\ queue[1].kind = k
  /\ \/ k = "sentinel" /\ seen' = seen /\ done_sentinels' = done_sentinels + 1
     \/ k = "chunk" /\ seen' = seen /\ done_sentinels' = done_sentinels
     \/ k \in EndKind /\ seen' = [seen EXCEPT ![q] = k] /\ done_sentinels' = done_sentinels
  /\ Len(queue) \in Nat /\ Len(queue') = Len(queue) - 1 /\ queue' \in Seq(Message)
  /\ \A i \in 1..Len(queue') : queue'[i] = queue[i + 1]

(* A forwarded item is about one job and of one kind.                       *)
LEMMA ForwardEffect ==
  ASSUME TypeOK, Forward
  PROVE  \E q \in Job, k \in {"chunk", "ok", "failed", "sentinel"} : ForwardOf(q, k)
<1>1. /\ queue \in Seq(Message) /\ queue # <<>> /\ Len(queue) \in Nat
      /\ coord = "draining" /\ done_sentinels < Len(Jobs) /\ queue' = Tail(queue)
      /\ UNCHANGED <<prior, msg, hinted, coord, overnights, announced, task, permits, chunks>>
  BY QueueSeq DEF Forward, tasks, request
<1>2. 1 \in 1..Len(queue) /\ Head(queue) = queue[1]
  BY <1>1, EmptySeq
<1>3. queue[1].job \in Job /\ queue[1].kind \in {"chunk", "ok", "failed", "sentinel"}
  BY <1>2, QueueSeq DEF Message
<1>4. /\ Len(queue') = Len(queue) - 1 /\ \A i \in 1..Len(queue') : queue'[i] = queue[i + 1]
      /\ queue' \in Seq(Message)
  BY <1>1, HeadTailProperties
<1>5. PICK q \in Job, k \in {"chunk", "ok", "failed", "sentinel"} :
        queue[1].job = q /\ queue[1].kind = k
  BY <1>3
<1>6. \/ k = "sentinel" /\ seen' = seen /\ done_sentinels' = done_sentinels + 1
      \/ /\ k # "sentinel" /\ done_sentinels' = done_sentinels
         /\ seen' = [seen EXCEPT ![q] = IF k = "chunk" THEN @ ELSE k]
  BY <1>2, <1>5 DEF Forward
<1>7. k = "chunk" => [seen EXCEPT ![q] = IF k = "chunk" THEN @ ELSE k] = seen
  BY DEF TypeOK
<1> QED
  BY <1>1, <1>2, <1>4, <1>5, <1>6, <1>7 DEF ForwardOf, EndKind

-----------------------------------------------------------------------------
(* Types and permits.                                                       *)

(* A request begins well-typed and with every permit free.                  *)
LEMMA InitTypes == Init => TypeOK /\ PermitsConserved
<1> SUFFICES ASSUME Init PROVE TypeOK /\ PermitsConserved
  OBVIOUS
<1> USE EnrichmentAssumption DEF Init
<1>1. Running = {}
  BY DEF Running
<1>2. PermitsConserved
  BY <1>1, FS_EmptySet DEF PermitsConserved
<1>3. TypeOK
  BY JobFinite DEF TypeOK
<1> QED
  BY <1>2, <1>3

(* Permits are held by finitely many tasks.                                 *)
LEMMA RunningFinite == IsFiniteSet(Running) /\ Cardinality(Running) \in Nat
  BY JobFinite, FS_Subset, FS_CardinalityType DEF Running

(* When the last agent is announced, all that are asked for are open.       *)
LEMMA AnnouncedAll ==
  ASSUME TypeOK, RequestInv, coord = "announcing", announced = Len(Jobs)
  PROVE  \A j \in Job : /\ seen[j] # "hidden" <=> j \in Asked
                       /\ seen[j] \in {"hidden", "open"}
<1>1. \A j \in Job : seen[j] = IF \E i \in 1..Len(Jobs) : Jobs[i] = j THEN "open" ELSE "hidden"
  BY DEF RequestInv
<1>2. \A j \in Job : (\E i \in 1..Len(Jobs) : Jobs[i] = j) <=> j \in Asked
  BY AskedAre DEF Asked, Range
<1> QED
  BY <1>1, <1>2

(* Each step keeps types, and no permit is lost or invented.                *)
LEMMA TypeStep ==
  ASSUME TypeOK, PermitsConserved, TaskInv, [Next]_vars
  PROVE  TypeOK' /\ PermitsConserved'
<1> USE EnrichmentAssumption
<1>0. Len(Jobs) \in Nat /\ Len(Jobs) <= Cardinality(Job) /\ Cardinality(Job) \in Nat
  BY AskedCount, JobFinite
<1>a. ASSUME UNCHANGED <<task, permits>>
      PROVE  PermitsConserved'
  BY <1>a DEF PermitsConserved, Running
<1>1. ASSUME NEW c \in {"planner", "asked", "extracting", "extract_failed", "raised", "closed", "gone"},
             Goto(c)
      PROVE  TypeOK' /\ PermitsConserved'
  BY <1>1, <1>a DEF Goto, TypeOK, Over, request, tasks
<1>2. ASSUME NEW n \in 0..MaxOvernights, Extracted(n)
      PROVE  TypeOK' /\ PermitsConserved'
  BY <1>2, <1>a DEF Extracted, TypeOK, Over, request, tasks
<1>3. CASE Announce
  <2>1. announced' \in 0..Cardinality(Job)
    BY <1>0, <1>3 DEF Announce, TypeOK
  <2>2. seen' \in [Job -> {"hidden", "open", "ok", "failed"}]
    BY <1>3 DEF Announce, TypeOK
  <2> QED
    BY <1>3, <1>a, <2>1, <2>2 DEF Announce, TypeOK, request, tasks
<1>4. CASE CreateTasks
  <2>1. /\ task' \in [Job -> {"none", "waiting", "running", "finished"}]
        /\ Running = {} /\ Running' = {}
    BY <1>4 DEF CreateTasks, Running, TaskInv
  <2>2. PermitsConserved'
    BY <1>4, <2>1 DEF CreateTasks, PermitsConserved
  <2> QED
    BY <1>4, <2>1, <2>2 DEF CreateTasks, TypeOK, request
<1>5. CASE Forward
  <2>1. PICK q \in Job, k \in {"chunk", "ok", "failed", "sentinel"} : ForwardOf(q, k)
    BY <1>5, ForwardEffect
  <2>2. /\ UNCHANGED <<prior, msg, hinted, coord, overnights, announced, task, permits, chunks>>
        /\ queue' \in Seq(Message)
    BY <2>1 DEF ForwardOf
  <2>3. done_sentinels' \in 0..Cardinality(Job)
    BY <1>0, <2>1 DEF ForwardOf, TypeOK
  <2>4. seen' \in [Job -> {"hidden", "open", "ok", "failed"}]
    BY <2>1 DEF ForwardOf, TypeOK, EndKind
  <2> QED
    BY <1>a, <2>2, <2>3, <2>4 DEF TypeOK, Message
<1>6. ASSUME NEW j \in Job, Acquire(j)
      PROVE  TypeOK' /\ PermitsConserved'
  <2>1. Running' = Running \cup {j} /\ j \notin Running
    BY <1>6 DEF Acquire, Running, TypeOK
  <2>2. Cardinality(Running') = Cardinality(Running) + 1
    BY <2>1, RunningFinite, FS_AddElement
  <2>3. PermitsConserved'
    BY <1>6, <2>2, RunningFinite DEF Acquire, PermitsConserved, TypeOK
  <2> QED
    BY <1>6, <2>3 DEF Acquire, TypeOK, coordVars, request
<1>7. ASSUME NEW j \in Job, StreamFrame(j)
      PROVE  TypeOK' /\ PermitsConserved'
  <2>1. Item("chunk", j) \in Message
    BY DEF Item, Message
  <2>2. queue' \in Seq(Message)
    BY <1>7, <2>1, QueueSeq, AppendProperties DEF StreamFrame
  <2>3. chunks' \in [Job -> 0..MaxChunks]
    BY <1>7 DEF StreamFrame, TypeOK
  <2> QED
    BY <1>7, <1>a, <2>2, <2>3 DEF StreamFrame, TypeOK, coordVars, request, Message
<1>8. ASSUME NEW j \in Job, End(j)
      PROVE  TypeOK' /\ PermitsConserved'
  <2>1. PICK st \in {"ok", "failed"} : queue' = queue \o <<Item(st, j), Item("sentinel", j)>>
    BY <1>8 DEF End
  <2>2. Item(st, j) \in Message /\ Item("sentinel", j) \in Message
    BY DEF Item, Message
  <2>3. queue' \in Seq(Message)
    BY <2>1, <2>2, QueueSeq, PushTwo
  <2>4. /\ task[j] = "running" /\ task' = [task EXCEPT ![j] = "finished"] /\ permits' = permits + 1
        /\ UNCHANGED <<coordVars, chunks>>
    BY <1>8 DEF End
  <2>5. Running' = Running \ {j} /\ j \in Running
    BY <2>4 DEF Running, TypeOK
  <2>6. Cardinality(Running') = Cardinality(Running) - 1 /\ Cardinality(Running') \in Nat
    BY <2>5, RunningFinite, FS_RemoveElement, FS_CardinalityType
  <2>7. PermitsConserved' /\ permits' \in 0..MaxParallel
    BY <2>4, <2>6, RunningFinite DEF PermitsConserved, TypeOK
  <2> QED
    BY <2>3, <2>4, <2>7 DEF TypeOK, coordVars, request, Message
<1>9. CASE UNCHANGED vars
  BY <1>9, <1>a DEF vars, TypeOK, request, tasks
<1> QED
  BY <1>1, <1>2, <1>3, <1>4, <1>5, <1>6, <1>7, <1>8, <1>9
  DEF Next, Coordinator, DispatchPlanner, AskPrefs, DispatchExtract, ExtractFails, ExtractRaises,
      Gather, Disconnect

-----------------------------------------------------------------------------
(* What is asked for and what the browser has seen.                         *)

(* Steps after the announcement that show the browser no new agent.         *)
LEMMA RequestKept ==
  ASSUME TypeOK, RequestInv, UNCHANGED <<prior, msg, hinted, overnights, announced, coord>>,
         \A j \in Job : seen'[j] = "hidden" <=> seen[j] = "hidden",
         coord \in {"dispatch", "extracting", "announcing"} => seen' = seen
  PROVE  RequestInv'
<1>1. Jobs' = Jobs /\ Asked' = Asked /\ Scope' = Scope /\ Prefs' = Prefs
  BY AskedKept
<1>2. CASE coord \in {"dispatch", "extracting", "announcing"}
  BY <1>1, <1>2 DEF RequestInv
<1>3. CASE coord \notin {"dispatch", "extracting", "announcing"}
  BY <1>1, <1>3 DEF RequestInv
<1> QED
  BY <1>2, <1>3

(* Each step keeps the request as the message asked.                        *)
LEMMA RequestStep ==
  ASSUME TypeOK, TypeOK', RequestInv, TaskInv, QueueInv, [Next]_vars
  PROVE  RequestInv'
<1>0. /\ Len(Jobs) \in Nat /\ Asked \subseteq Job
      /\ Len(Jobs)' \in Nat
      /\ announced \in Nat
  <2>1. JobsCounted /\ JobsCounted'
    BY JobsTyped, PTL
  <2> QED
    BY <2>1, JobFinite DEF TypeOK, JobsCounted
<1>1. CASE DispatchPlanner \/ AskPrefs \/ DispatchExtract \/ ExtractFails \/ ExtractRaises
           \/ Gather \/ Disconnect
  <2>1. UNCHANGED <<prior, msg, hinted, overnights, announced, seen>>
    BY <1>1 DEF DispatchPlanner, AskPrefs, DispatchExtract, ExtractFails, ExtractRaises,
                Gather, Disconnect, Goto, request
  <2>2. Jobs' = Jobs /\ Asked' = Asked /\ Scope' = Scope /\ Prefs' = Prefs
    BY <2>1, AskedKept
  <2>3. \/ /\ coord \in {"dispatch", "extracting"}
           /\ coord' \in {"planner", "asked", "extract_failed", "raised"}
        \/ /\ coord = "dispatch" /\ coord' = "extracting"
           /\ Scope # {} /\ ("lodging" \in Scope => Prefs)
        \/ coord = "draining" /\ coord' = "closed"
        \/ coord' = "gone"
    BY <1>1 DEF DispatchPlanner, AskPrefs, DispatchExtract, ExtractFails, ExtractRaises,
                Gather, Disconnect, Goto
  <2> QED
    BY <2>1, <2>2, <2>3 DEF RequestInv
<1>2. ASSUME NEW n \in 0..MaxOvernights, Extracted(n)
      PROVE  RequestInv'
  <2>1. /\ coord = "extracting" /\ coord' = "announcing" /\ announced' = 0
        /\ UNCHANGED <<prior, msg, hinted, seen>> /\ \A j \in Job : seen[j] = "hidden"
    BY <1>2 DEF Extracted, RequestInv, request
  <2>2. Scope' = Scope /\ Prefs' = Prefs
    BY <2>1 DEF Scope, Prefs
  <2>3. 1..announced' = {} /\ announced' <= Len(Jobs)'
    BY <1>0, <2>1
  <2> QED
    BY <2>1, <2>2, <2>3 DEF RequestInv
<1>3. CASE Announce
  <2>1. /\ coord = "announcing" /\ announced < Len(Jobs) /\ announced' = announced + 1
        /\ seen' = [seen EXCEPT ![Jobs[announced + 1]] = "open"]
        /\ UNCHANGED <<prior, msg, hinted, overnights, coord>>
    BY <1>3 DEF Announce, request
  <2>2. Jobs' = Jobs /\ Asked' = Asked /\ Scope' = Scope /\ Prefs' = Prefs
    BY <2>1, AskedKept
  <2>3. announced + 1 \in 1..Len(Jobs) /\ 1..(announced + 1) = (1..announced) \cup {announced + 1}
    BY <1>0, <2>1
  <2>4. PICK q \in Job : q = Jobs[announced + 1] /\ q \in Asked
    BY <1>0, <2>3, AskedAre
  <2>5. seen'[q] = "open" /\ \A j \in Job : j # q => seen'[j] = seen[j]
    BY <2>1, <2>4 DEF TypeOK
  <2>6. \A j \in Job : seen'[j] = IF \E i \in 1..announced' : Jobs[i] = j THEN "open" ELSE "hidden"
    <3>1. \A j \in Job : seen[j] = IF \E i \in 1..announced : Jobs[i] = j THEN "open" ELSE "hidden"
      BY <2>1 DEF RequestInv
    <3>2. \A j \in Job : (\E i \in 1..announced' : Jobs[i] = j) <=>
                          ((\E i \in 1..announced : Jobs[i] = j) \/ j = q)
      BY <2>1, <2>3, <2>4
    <3> QED
      BY <2>5, <3>1, <3>2
  <2>7. announced' <= Len(Jobs)
    BY <1>0, <2>1
  <2>8. \A j \in Job : seen'[j] # "hidden" => j \in Asked /\ ("lodging" \in Scope => Prefs)
    BY <2>1, <2>4, <2>5 DEF RequestInv
  <2>9. Scope # {} /\ ("lodging" \in Scope => Prefs)
    BY <2>1 DEF RequestInv
  <2> QED
    BY <2>1, <2>2, <2>6, <2>7, <2>8, <2>9 DEF RequestInv
<1>4. CASE CreateTasks
  <2>1. /\ coord = "announcing" /\ coord' = "draining" /\ announced = Len(Jobs)
        /\ UNCHANGED <<prior, msg, hinted, overnights, announced, seen>>
    BY <1>4 DEF CreateTasks, request
  <2>2. Jobs' = Jobs /\ Asked' = Asked /\ Scope' = Scope /\ Prefs' = Prefs
    BY <2>1, AskedKept
  <2>3. \A j \in Job : seen[j] # "hidden" <=> j \in Asked
    BY <2>1, AnnouncedAll
  <2> QED
    BY <2>1, <2>2, <2>3 DEF RequestInv
<1>5. CASE Forward
  <2>1. PICK q \in Job, k \in {"chunk", "ok", "failed", "sentinel"} : ForwardOf(q, k)
    BY <1>5, ForwardEffect
  <2>2. coord = "draining" /\ UNCHANGED <<prior, msg, hinted, overnights, announced, coord>>
    BY <2>1 DEF ForwardOf
  <2>3. k \in EndKind => seen[q] = "open"
    BY <2>1 DEF ForwardOf, QueueInv, EndKind
  <2>4. \A j \in Job : seen'[j] = "hidden" <=> seen[j] = "hidden"
    BY <2>1, <2>3 DEF ForwardOf, TypeOK, EndKind
  <2> QED
    BY <2>2, <2>4, RequestKept
<1>6. CASE (\E j \in Job : Acquire(j) \/ StreamFrame(j) \/ End(j)) \/ UNCHANGED vars
  <2>1. UNCHANGED <<prior, msg, hinted, overnights, announced, coord, seen>>
    BY <1>6 DEF Acquire, StreamFrame, End, coordVars, vars, request
  <2> QED
    BY <2>1, RequestKept
<1> QED
  BY <1>1, <1>2, <1>3, <1>4, <1>5, <1>6 DEF Next, Coordinator

-----------------------------------------------------------------------------
(* Where tasks exist.                                                       *)

(* Each step keeps a task for each job that was asked for, and no other.    *)
LEMMA TasksStep ==
  ASSUME TypeOK, RequestInv, TaskInv, QueueInv, [Next]_vars
  PROVE  TaskInv'
<1>1. CASE DispatchPlanner \/ AskPrefs \/ DispatchExtract \/ ExtractFails \/ ExtractRaises
           \/ Gather \/ Disconnect
  <2>1. UNCHANGED <<prior, msg, hinted, overnights, task, queue, done_sentinels, seen>>
    BY <1>1 DEF DispatchPlanner, AskPrefs, DispatchExtract, ExtractFails, ExtractRaises,
                Gather, Disconnect, Goto, request, tasks
  <2>2. Jobs' = Jobs /\ Asked' = Asked
    BY <2>1, AskedKept
  <2>3. \/ coord \notin {"draining", "closed", "gone"} /\ coord' \notin {"draining", "closed", "gone"}
        \/ coord' = "closed" /\ done_sentinels = Len(Jobs)
        \/ coord' = "gone"
    BY <1>1 DEF DispatchPlanner, AskPrefs, DispatchExtract, ExtractFails, ExtractRaises,
                Gather, Disconnect, Goto
  <2> QED
    BY <2>1, <2>2, <2>3 DEF TaskInv
<1>2. CASE Announce \/ \E n \in 0..MaxOvernights : Extracted(n)
  <2>1. /\ coord \in {"extracting", "announcing"} /\ coord' = "announcing"
        /\ UNCHANGED <<task, queue, done_sentinels>>
    BY <1>2 DEF Announce, Extracted, tasks
  <2>2. \A j \in Job : task'[j] = "none"
    BY <2>1 DEF TaskInv
  <2> QED
    BY <2>1, <2>2 DEF TaskInv
<1>3. CASE CreateTasks
  <2>1. /\ coord = "announcing" /\ coord' = "draining" /\ announced = Len(Jobs)
        /\ UNCHANGED <<prior, msg, hinted, overnights, seen>>
        /\ task' = [j \in Job |-> IF j \in Asked THEN "waiting" ELSE "none"]
    BY <1>3 DEF CreateTasks, request, Asked
  <2>2. Jobs' = Jobs /\ Asked' = Asked
    BY <2>1, AskedKept
  <2>3. \A j \in Job : j \in Asked => seen[j] = "open"
    BY <2>1, AnnouncedAll
  <2> QED
    BY <2>1, <2>2, <2>3 DEF TaskInv
<1>4. CASE Forward
  <2>1. PICK q \in Job, k \in {"chunk", "ok", "failed", "sentinel"} : ForwardOf(q, k)
    BY <1>4, ForwardEffect
  <2>2. coord = "draining" /\ UNCHANGED <<prior, msg, hinted, overnights, coord, task>>
    BY <2>1 DEF ForwardOf
  <2>3. Jobs' = Jobs /\ Asked' = Asked
    BY <2>2, AskedKept
  <2>4. k \in EndKind => task[q] = "finished"
    BY <2>1 DEF ForwardOf, QueueInv, EndKind
  <2>5. \A j \in Job : task[j] \in {"waiting", "running"} => seen'[j] = seen[j]
    BY <2>1, <2>4 DEF ForwardOf, TypeOK
  <2> QED
    BY <2>2, <2>3, <2>5 DEF TaskInv
<1>5. ASSUME NEW j \in Job, Acquire(j) \/ StreamFrame(j) \/ End(j)
      PROVE  TaskInv'
  <2>1. /\ UNCHANGED <<prior, msg, hinted, overnights, coord, seen, done_sentinels>>
        /\ task[j] \in {"waiting", "running"}
        /\ \/ task' = task
           \/ \E t \in {"running", "finished"} : task' = [task EXCEPT ![j] = t]
    BY <1>5 DEF Acquire, StreamFrame, End, coordVars, request
  <2>2. Jobs' = Jobs /\ Asked' = Asked
    BY <2>1, AskedKept
  <2>3. \A i \in Job : i # j => task'[i] = task[i]
    BY <2>1 DEF TypeOK
  <2>4. j \in Asked /\ seen[j] = "open" /\ coord \in {"draining", "closed", "gone"}
    BY <2>1 DEF TaskInv
  <2> QED
    BY <2>1, <2>2, <2>3, <2>4 DEF TaskInv
<1>6. CASE UNCHANGED vars
  <2>1. UNCHANGED <<prior, msg, hinted, overnights, coord, seen, done_sentinels, task, queue>>
    BY <1>6 DEF vars
  <2>2. Jobs' = Jobs /\ Asked' = Asked
    BY <2>1, AskedKept
  <2> QED
    BY <2>1, <2>2 DEF TaskInv
<1> QED
  BY <1>1, <1>2, <1>3, <1>4, <1>5, <1>6 DEF Next, Coordinator

-----------------------------------------------------------------------------
(* The order of a task's last items, and the count of sentinels.            *)

QueueFacts == QueueInv /\ EndInv /\ CountInv

(* Steps beside tasks and queue keep what is known of the queue.            *)
LEMMA QueueUnchanged ==
  QueueFacts /\ UNCHANGED <<task, queue, seen, done_sentinels>> => QueueFacts'
  BY DEF QueueFacts, QueueInv, EndInv, EndQueued, CountInv, Counted, Awaited

(* Before the tasks exist there is nothing to say about them.               *)
LEMMA QueueBefore ==
  ASSUME queue' = <<>>, done_sentinels' = 0, \A j \in Job : task'[j] \in {"none", "waiting"}
  PROVE  QueueFacts'
<1>1. Counted' = {}
  BY DEF Counted
<1>2. CountInv'
  BY <1>1, FS_EmptySet DEF CountInv
<1> QED
  BY <1>2 DEF QueueFacts, QueueInv, EndInv

(* A permit is taken.                                                       *)
LEMMA QueueMoved ==
  ASSUME TypeOK, QueueFacts, NEW j \in Job, Acquire(j)
  PROVE  QueueFacts'
<1>1. /\ task[j] = "waiting" /\ task' = [task EXCEPT ![j] = "running"]
      /\ UNCHANGED <<queue, seen, done_sentinels>>
  BY DEF Acquire, coordVars
<1>2. \A i \in Job : /\ task'[i] = "finished" <=> task[i] = "finished"
                     /\ task'[i] = "none" <=> task[i] = "none"
  BY <1>1 DEF TypeOK
<1>3. \A i \in 1..Len(queue) : queue[i].job \in Job
  BY QueueSeq
<1>4. QueueInv' /\ EndInv'
  BY <1>1, <1>2, <1>3 DEF QueueFacts, QueueInv, EndInv, EndQueued
<1>5. Counted' = Counted
  BY <1>1, <1>2 DEF Counted, Awaited
<1> QED
  BY <1>1, <1>4, <1>5 DEF QueueFacts, CountInv

(* A frame of a running agent joins the queue.                              *)
LEMMA QueueFrame ==
  ASSUME TypeOK, TaskInv, QueueFacts, NEW j \in Job, StreamFrame(j)
  PROVE  QueueFacts'
<1>1. /\ task[j] = "running" /\ UNCHANGED <<task, seen, done_sentinels>>
      /\ queue' = Append(queue, Item("chunk", j))
  BY DEF StreamFrame, coordVars
<1>2. Item("chunk", j).job = j /\ Item("chunk", j).kind = "chunk" /\ Item("chunk", j) \in Message
  BY DEF Item, Message
<1>3. /\ Len(queue') = Len(queue) + 1 /\ Len(queue) \in Nat
      /\ \A i \in 1..Len(queue) : queue'[i] = queue[i]
      /\ queue'[Len(queue) + 1].job = j /\ queue'[Len(queue) + 1].kind = "chunk"
  BY <1>1, <1>2, QueueSeq, AppendProperties
<1>4. \A i \in 1..Len(queue) : queue[i].kind # "chunk" => queue[i].job # j
  BY <1>1 DEF QueueFacts, QueueInv
<1>5. seen[j] = "open"
  BY <1>1 DEF TaskInv
<1>6. \A i \in 1..Len(queue) : queue[i].kind \in EndKind \cup {"sentinel"} => queue[i].job # j
  BY <1>4 DEF EndKind
<1>7. QueueInv'
  <2>1. \A i \in 1..Len(queue') :
          /\ task[queue'[i].job] # "none"
          /\ queue'[i].kind # "chunk" => task[queue'[i].job] = "finished"
          /\ queue'[i].kind # "sentinel" => seen[queue'[i].job] = "open"
    BY <1>1, <1>3, <1>5 DEF QueueFacts, QueueInv
  <2>2. ASSUME NEW i \in 1..Len(queue'), NEW k \in 1..Len(queue'),
               queue'[i].job = queue'[k].job, i < k
        PROVE  /\ queue'[i].kind # "sentinel"
               /\ queue'[i].kind \in EndKind => queue'[k].kind = "sentinel"
    <3>1. i \in 1..Len(queue)
      BY <1>3, <2>2
    <3>2. CASE k \in 1..Len(queue)
      BY <1>3, <2>2, <3>1, <3>2 DEF QueueFacts, QueueInv
    <3>3. CASE k = Len(queue) + 1
      <4>1. queue[i].job = j
        BY <1>3, <2>2, <3>1, <3>3
      <4> QED
        BY <1>3, <1>6, <3>1, <4>1
    <3> QED
      BY <1>3, <3>2, <3>3
  <2> QED
    BY <1>1, <2>1, <2>2 DEF QueueInv
<1>8. EndInv'
  <2> SUFFICES ASSUME NEW r \in Job, task[r] = "finished"
               PROVE  EndQueued(r)' \/ seen[r] \in EndKind
    BY <1>1 DEF EndInv
  <2>1. CASE EndQueued(r)
    BY <1>3, <2>1 DEF EndQueued
  <2> QED
    BY <2>1 DEF QueueFacts, EndInv
<1>9. Awaited' = Awaited
  BY <1>3 DEF Awaited
<1> QED
  BY <1>1, <1>7, <1>8, <1>9 DEF QueueFacts, CountInv, Counted

(* A task ends: its end frame and its sentinel join the queue.              *)
LEMMA QueueFinish ==
  ASSUME TypeOK, TaskInv, QueueFacts, NEW j \in Job, End(j)
  PROVE  QueueFacts'
<1>1. PICK st \in EndKind : queue' = queue \o <<Item(st, j), Item("sentinel", j)>>
  BY DEF End, EndKind
<1>2. /\ task[j] = "running" /\ task' = [task EXCEPT ![j] = "finished"]
      /\ UNCHANGED <<seen, done_sentinels>>
  BY DEF End, coordVars
<1> DEFINE a == Item(st, j)
           b == Item("sentinel", j)
           n == Len(queue)
<1>3. /\ a \in Message /\ b \in Message /\ a.job = j /\ a.kind = st /\ b.job = j /\ b.kind = "sentinel"
  BY DEF Item, Message, EndKind
<1>4. queue' = queue \o <<a, b>> /\ n \in Nat /\ \A i \in 1..n : queue[i].job \in Job
  BY <1>1, QueueSeq
<1> HIDE DEF a, b
<1>5. /\ Len(queue') = n + 2 /\ \A i \in 1..n : queue'[i] = queue[i]
      /\ queue'[n + 1] = a /\ queue'[n + 2] = b
  BY <1>3, <1>4, QueueSeq, PushTwo
<1> HIDE DEF n
<1>a. \A i \in 1..Len(queue') : i \in 1..n \/ i = n + 1 \/ i = n + 2
  BY <1>4, <1>5
<1>6. task'[j] = "finished" /\ \A r \in Job : r # j => task'[r] = task[r]
  BY <1>2 DEF TypeOK
<1>7. seen[j] = "open"
  BY <1>2 DEF TaskInv
<1>8. \A i \in 1..n : queue[i].job = j => queue[i].kind \notin EndKind \cup {"sentinel"}
  BY <1>2 DEF QueueFacts, QueueInv, EndKind, n
<1>9. QueueInv'
  <2>1. \A i \in 1..n :
          /\ task'[queue[i].job] # "none"
          /\ queue[i].kind # "chunk" => task'[queue[i].job] = "finished"
          /\ queue[i].kind # "sentinel" => seen[queue[i].job] = "open"
    BY <1>4, <1>6 DEF QueueFacts, QueueInv, n
  <2>2. \A i \in 1..Len(queue') :
          /\ task'[queue'[i].job] # "none"
          /\ queue'[i].kind # "chunk" => task'[queue'[i].job] = "finished"
          /\ queue'[i].kind # "sentinel" => seen'[queue'[i].job] = "open"
    BY <1>2, <1>3, <1>5, <1>6, <1>7, <1>a, <2>1
  <2>3. ASSUME NEW i \in 1..Len(queue'), NEW k \in 1..Len(queue'),
               queue'[i].job = queue'[k].job, i < k
        PROVE  /\ queue'[i].kind # "sentinel"
               /\ queue'[i].kind \in EndKind => queue'[k].kind = "sentinel"
    <3>1. CASE k \in 1..n
      <4>1. i \in 1..n
        BY <1>4, <1>a, <2>3, <3>1
      <4> QED
        BY <1>5, <2>3, <3>1, <4>1 DEF QueueFacts, QueueInv, n
    <3>2. CASE k \notin 1..n
      <4>1. queue'[k].job = j
        BY <1>3, <1>5, <1>a, <3>2
      <4>2. CASE i \in 1..n
        BY <1>5, <1>8, <2>3, <4>1, <4>2
      <4>3. CASE i \notin 1..n
        <5>1. i = n + 1 /\ k = n + 2
          BY <1>4, <1>a, <2>3, <3>2, <4>3
        <5> QED
          BY <1>3, <1>5, <5>1 DEF EndKind
      <4> QED
        BY <4>2, <4>3
    <3> QED
      BY <3>1, <3>2
  <2> QED
    BY <2>2, <2>3 DEF QueueInv
<1>10. n + 1 \in 1..Len(queue') /\ n + 2 \in 1..Len(queue') /\ n + 1 < n + 2
       /\ \A i \in 1..n : i \in 1..Len(queue')
  BY <1>4, <1>5
<1>11. EndInv'
  <2>1. EndQueued(j)'
    BY <1>3, <1>5, <1>10 DEF EndQueued
  <2>2. ASSUME NEW r \in Job, r # j, task'[r] = "finished"
        PROVE  EndQueued(r)' \/ seen'[r] \in EndKind
    <3>1. EndQueued(r) \/ seen[r] \in EndKind
      BY <1>6, <2>2 DEF QueueFacts, EndInv
    <3>2. CASE EndQueued(r)
      <4>1. PICK i \in 1..n, k \in 1..n :
              /\ i < k
              /\ queue[i].job = r /\ queue[i].kind \in EndKind
              /\ queue[k].job = r /\ queue[k].kind = "sentinel"
        BY <3>2 DEF EndQueued, n
      <4> QED
        BY <1>5, <1>10, <4>1 DEF EndQueued
    <3> QED
      BY <1>2, <3>1, <3>2
  <2> QED
    BY <2>1, <2>2 DEF EndInv
<1>12. Counted' = Counted
  <2>1. j \in Awaited'
    BY <1>3, <1>5, <1>10 DEF Awaited
  <2>2. ASSUME NEW r \in Job, r # j
        PROVE  r \in Awaited' <=> r \in Awaited
    <3>1. ASSUME NEW i \in 1..Len(queue'), queue'[i].job = r
          PROVE  i \in 1..n /\ queue[i] = queue'[i]
      BY <1>3, <1>5, <1>a, <2>2, <3>1
    <3> QED
      BY <1>5, <1>10, <3>1 DEF Awaited, n
  <2> QED
    BY <1>2, <1>6, <2>1, <2>2 DEF Counted
<1> QED
  BY <1>2, <1>9, <1>11, <1>12 DEF QueueFacts, CountInv

(* The request takes the first item of the queue: it shows the browser a    *)
(* frame, or counts a sentinel, which is then the last thing queued about   *)
(* its agent.                                                               *)
LEMMA QueueForward ==
  ASSUME TypeOK, QueueFacts, Forward
  PROVE  QueueFacts'
<1>1. PICK q \in Job, k \in {"chunk", "ok", "failed", "sentinel"} : ForwardOf(q, k)
  BY ForwardEffect
<1>2. /\ task' = task /\ 1 \in 1..Len(queue) /\ queue[1].job = q /\ queue[1].kind = k
      /\ Len(queue) \in Nat /\ Len(queue') = Len(queue) - 1
      /\ \A i \in 1..Len(queue') : queue'[i] = queue[i + 1]
      /\ \/ k = "sentinel" /\ seen' = seen /\ done_sentinels' = done_sentinels + 1
         \/ k = "chunk" /\ seen' = seen /\ done_sentinels' = done_sentinels
         \/ k \in EndKind /\ seen' = [seen EXCEPT ![q] = k] /\ done_sentinels' = done_sentinels
  BY <1>1 DEF ForwardOf
<1>3. \A i \in 1..Len(queue') : /\ i + 1 \in 1..Len(queue) /\ i + 1 # 1 /\ 1 < i + 1
                               /\ queue'[i] = queue[i + 1]
  BY <1>2
<1>4. \A i \in 1..Len(queue) : i # 1 => i - 1 \in 1..Len(queue') /\ queue'[i - 1] = queue[i]
  <2> SUFFICES ASSUME NEW i \in 1..Len(queue), i # 1
               PROVE  i - 1 \in 1..Len(queue') /\ queue'[i - 1] = queue[i]
    OBVIOUS
  <2>1. i - 1 \in 1..Len(queue') /\ (i - 1) + 1 = i
    BY <1>2
  <2> QED
    BY <1>2, <2>1
<1>5. \A i \in 1..Len(queue) : (i # 1 /\ queue[i].job = q) =>
        k # "sentinel" /\ (k \in EndKind => queue[i].kind = "sentinel")
  <2> SUFFICES ASSUME NEW i \in 1..Len(queue), i # 1, queue[i].job = q
               PROVE  k # "sentinel" /\ (k \in EndKind => queue[i].kind = "sentinel")
    OBVIOUS
  <2>1. 1 < i
    BY <1>2
  <2> QED
    BY <1>2, <2>1 DEF QueueFacts, QueueInv
<1>6. /\ k # "chunk" => task[q] = "finished"
      /\ k # "sentinel" => seen[q] = "open"
  BY <1>2 DEF QueueFacts, QueueInv
<1>7. \A r \in Job : r # q => seen'[r] = seen[r]
  BY <1>2 DEF TypeOK
<1>8. QueueInv'
  <2>1. ASSUME NEW i \in 1..Len(queue')
        PROVE  /\ task[queue'[i].job] # "none"
               /\ queue'[i].kind # "chunk" => task[queue'[i].job] = "finished"
               /\ queue'[i].kind # "sentinel" => seen'[queue'[i].job] = "open"
    <3>1. /\ task[queue'[i].job] # "none"
          /\ queue'[i].kind # "chunk" => task[queue'[i].job] = "finished"
          /\ queue'[i].kind # "sentinel" => seen[queue'[i].job] = "open"
      BY <1>3 DEF QueueFacts, QueueInv
    <3>2. queue'[i].job \in Job
      BY <1>3, QueueSeq
    <3>3. queue'[i].job = q /\ queue'[i].kind # "sentinel" => seen' = seen
      <4>1. queue'[i].job = q => (k \in EndKind => queue'[i].kind = "sentinel")
        BY <1>3, <1>5
      <4> QED
        BY <1>2, <4>1
    <3> QED
      BY <1>7, <3>1, <3>2, <3>3
  <2>2. ASSUME NEW i \in 1..Len(queue'), NEW m \in 1..Len(queue'),
               queue'[i].job = queue'[m].job, i < m
        PROVE  /\ queue'[i].kind # "sentinel"
               /\ queue'[i].kind \in EndKind => queue'[m].kind = "sentinel"
    <3>1. i + 1 < m + 1
      BY <1>2, <2>2
    <3> QED
      BY <1>3, <2>2, <3>1 DEF QueueFacts, QueueInv
  <2> QED
    BY <1>2, <2>1, <2>2 DEF QueueInv
<1>9. EndInv'
  <2> SUFFICES ASSUME NEW r \in Job, task[r] = "finished"
               PROVE  EndQueued(r)' \/ seen'[r] \in EndKind
    BY <1>2 DEF EndInv
  <2>1. CASE seen[r] \in EndKind
    <3>1. r = q => k = "sentinel"
      BY <1>6, <2>1 DEF EndKind
    <3>2. seen'[r] = seen[r]
      BY <1>2, <1>7, <3>1 DEF EndKind
    <3> QED
      BY <2>1, <3>2
  <2>2. CASE EndQueued(r)
    <3>1. PICK i \in 1..Len(queue), m \in 1..Len(queue) :
            /\ i < m
            /\ queue[i].job = r /\ queue[i].kind \in EndKind
            /\ queue[m].job = r /\ queue[m].kind = "sentinel"
      BY <2>2 DEF EndQueued
    <3>2. CASE i = 1
      <4>1. q = r /\ k \in EndKind
        BY <1>2, <3>1, <3>2
      <4>2. seen'[r] = k
        BY <1>2, <4>1 DEF TypeOK, EndKind
      <4> QED
        BY <4>1, <4>2
    <3>3. CASE i # 1
      <4>1. m # 1 /\ i - 1 < m - 1
        BY <1>2, <3>1, <3>3
      <4> QED
        BY <1>4, <3>1, <3>3, <4>1 DEF EndQueued
    <3> QED
      BY <3>2, <3>3
  <2> QED
    BY <2>1, <2>2 DEF QueueFacts, EndInv
<1>10. Awaited' = IF k = "sentinel" THEN Awaited \ {q} ELSE Awaited
  <2>1. Awaited' \subseteq Awaited
    BY <1>3 DEF Awaited
  <2>2. k = "sentinel" => q \notin Awaited'
    BY <1>3, <1>5 DEF Awaited
  <2>3. \A r \in Awaited : r \in Awaited' \/ (k = "sentinel" /\ q = r)
    BY <1>2, <1>4 DEF Awaited
  <2> QED
    BY <2>1, <2>2, <2>3
<1>11. CountInv'
  <2>0. IsFiniteSet(Counted)
    BY JobFinite, FS_Subset DEF Counted
  <2>1. CASE k = "sentinel"
    <3>1. q \in Awaited /\ task[q] = "finished"
      BY <1>2, <1>6, <2>1 DEF Awaited
    <3>2. Counted' = Counted \cup {q} /\ q \notin Counted
      BY <1>2, <1>10, <2>1, <3>1 DEF Counted
    <3>3. Cardinality(Counted') = Cardinality(Counted) + 1
      BY <2>0, <3>2, FS_AddElement
    <3>4. done_sentinels' = done_sentinels + 1
      BY <1>2, <2>1 DEF EndKind
    <3> QED
      BY <3>3, <3>4 DEF QueueFacts, CountInv
  <2>2. CASE k # "sentinel"
    <3>1. Counted' = Counted
      BY <1>2, <1>10, <2>2 DEF Counted
    <3>2. done_sentinels' = done_sentinels
      BY <1>2, <2>2
    <3> QED
      BY <3>1, <3>2 DEF QueueFacts, CountInv
  <2> QED
    BY <2>1, <2>2
<1> QED
  BY <1>8, <1>9, <1>11 DEF QueueFacts

(* Each step keeps what is known of the queue.                              *)
LEMMA QueueStep ==
  ASSUME TypeOK, TaskInv, QueueFacts, [Next]_vars
  PROVE  QueueFacts'
<1>1. CASE DispatchPlanner \/ AskPrefs \/ DispatchExtract \/ ExtractFails \/ ExtractRaises
           \/ Gather \/ Disconnect \/ UNCHANGED vars
  <2>1. UNCHANGED <<task, queue, seen, done_sentinels>>
    BY <1>1 DEF DispatchPlanner, AskPrefs, DispatchExtract, ExtractFails, ExtractRaises,
                Gather, Disconnect, Goto, tasks, vars
  <2> QED
    BY <2>1, QueueUnchanged
<1>2. CASE Announce \/ CreateTasks \/ \E n \in 0..MaxOvernights : Extracted(n)
  <2>1. /\ coord \in {"extracting", "announcing"} /\ UNCHANGED <<queue, done_sentinels>>
        /\ \/ task' = task
           \/ task' = [j \in Job |-> IF j \in Range(Jobs) THEN "waiting" ELSE "none"]
    BY <1>2 DEF Announce, CreateTasks, Extracted, tasks
  <2>2. queue' = <<>> /\ done_sentinels' = 0 /\ \A j \in Job : task'[j] \in {"none", "waiting"}
    BY <2>1 DEF TaskInv
  <2> QED
    BY <2>2, QueueBefore
<1>3. CASE Forward
  BY <1>3, QueueForward
<1>4. ASSUME NEW j \in Job, Acquire(j) \/ StreamFrame(j) \/ End(j)
      PROVE  QueueFacts'
  BY <1>4, QueueMoved, QueueFrame, QueueFinish
<1> QED
  BY <1>1, <1>2, <1>3, <1>4 DEF Next, Coordinator

-----------------------------------------------------------------------------
(* Theorems.                                                                *)

(* A request begins with the invariant.                                     *)
LEMMA InitIInv == Init => IInv
<1> SUFFICES ASSUME Init PROVE IInv
  OBVIOUS
<1>1. TypeOK /\ PermitsConserved
  BY InitTypes
<1>2. RequestInv
  BY DEF Init, RequestInv
<1>3. TaskInv
  BY DEF Init, TaskInv
<1>4. Counted = {}
  BY DEF Init, Counted
<1>5. QueueInv /\ EndInv /\ CountInv
  BY <1>4, FS_EmptySet DEF Init, QueueInv, EndInv, CountInv
<1> QED
  BY <1>1, <1>2, <1>3, <1>5 DEF IInv

(* Tasks, queue, sentinels and permits of a follow-up request stay in step. *)
THEOREM RequestInductive == Spec => []IInv
<1>1. Init => IInv
  BY InitIInv
<1>2. IInv /\ [Next]_vars => IInv'
  <2> SUFFICES ASSUME IInv, [Next]_vars
               PROVE  IInv'
    OBVIOUS
  <2>1. TypeOK /\ PermitsConserved /\ RequestInv /\ TaskInv /\ QueueInv /\ QueueFacts
    BY DEF IInv, QueueFacts
  <2>2. TypeOK' /\ PermitsConserved'
    BY <2>1, TypeStep
  <2>3. RequestInv'
    BY <2>1, <2>2, RequestStep
  <2>4. TaskInv'
    BY <2>1, TasksStep
  <2>5. QueueFacts'
    BY <2>1, QueueStep
  <2> QED
    BY <2>2, <2>3, <2>4, <2>5 DEF IInv, QueueFacts
<1> QED
  BY <1>1, <1>2, PTL DEF Spec

(* Every variable of a follow-up request keeps its type.                    *)
THEOREM RequestTypeCorrect == Spec => []TypeOK
<1>1. IInv => TypeOK
  BY DEF IInv
<1> QED
  BY <1>1, RequestInductive, PTL

(* When every sentinel is counted, every agent asked for was seen to end.   *)
LEMMA AllEnded ==
  ASSUME IInv, done_sentinels = Len(Jobs)
  PROVE  \A j \in Job : j \in Asked => seen[j] \in EndKind
<1>1. /\ IsFiniteSet(Asked) /\ Cardinality(Asked) = Len(Jobs) /\ Asked \subseteq Job
  BY AskedCount DEF IInv
<1>2. Counted \subseteq Asked /\ Cardinality(Counted) = Len(Jobs)
  BY DEF IInv, TaskInv, CountInv, Counted
<1>3. Counted = Asked
  BY <1>1, <1>2, FS_Subset
<1> QED
  BY <1>3 DEF IInv, EndInv, EndQueued, Counted, Awaited

(* The user gets what the message asked for and nothing else: no agent of a *)
(* kind that was not asked for, no hotel search before any preference is    *)
(* known, and an ended bubble for every overnight and pair at the end.      *)
THEOREM AnswersTheMessage == Spec => []JobsMatchRequest
<1>1. IInv => JobsMatchRequest
  <2> SUFFICES ASSUME IInv
               PROVE  JobsMatchRequest
    OBVIOUS
  <2>1. TypeOK /\ RequestInv /\ TaskInv
    BY DEF IInv
  <2>2. /\ Asked = {j \in Job : /\ j[1] \in Scope
                              /\ j[2] + (IF j[1] = "transit" THEN 1 ELSE 0) <= overnights}
        /\ overnights \in Nat
    BY <2>1, AskedAre, EnrichmentAssumption DEF TypeOK
  <2>3. ASSUME NEW j \in Job, seen[j] # "hidden"
        PROVE  /\ j[1] \in msg \/ "both" \in msg
               /\ j[1] = "lodging" => "prefs" \in msg
               /\ j[2] <= overnights
    <3>1. j \in Asked /\ ("lodging" \in Scope => Prefs)
      BY <2>1, <2>3 DEF RequestInv
    <3>2. j[1] \in msg \/ "both" \in msg
      BY <2>2, <3>1 DEF Scope
    <3>3. j[1] = "lodging" => "prefs" \in msg
      BY <2>2, <3>1 DEF Prefs
    <3>4. j[2] \in Nat
      BY EnrichmentAssumption DEF Job
    <3>5. j[2] <= overnights
      BY <2>2, <3>1, <3>4
    <3> QED
      BY <3>2, <3>3, <3>5
  <2>4. ASSUME coord = "closed", NEW j \in Job, j[1] \in Scope,
               j[2] + (IF j[1] = "transit" THEN 1 ELSE 0) <= overnights
        PROVE  seen[j] \in {"ok", "failed"}
    BY <2>1, <2>2, <2>4, AllEnded DEF TaskInv, EndKind
  <2> QED
    BY <2>3, <2>4 DEF JobsMatchRequest
<1> QED
  BY <1>1, RequestInductive, PTL

-----------------------------------------------------------------------------
(* To the browser the request is a fan-out that joins.                      *)

(* A request begins as a fan-out that has shown nothing.                    *)
LEMMA BrowserInit == Init => Browser!Init
  BY DEF Init, Browser!Init, Phase

(* Every step is, to the browser, a step of a fan-out, or none.             *)
LEMMA BrowserStep == IInv /\ [Next]_vars => [Browser!Next]_(Browser!fanVars)
<1> SUFFICES ASSUME IInv, [Next]_vars
             PROVE  Browser!Next \/ UNCHANGED Browser!fanVars
  OBVIOUS
<1>0. TypeOK /\ RequestInv /\ TaskInv /\ QueueInv /\ announced \in Nat
  BY JobFinite DEF IInv, TypeOK
<1>1. CASE DispatchPlanner \/ AskPrefs \/ ExtractFails \/ ExtractRaises
  <2>1. /\ coord \in {"dispatch", "extracting"} /\ seen' = seen
        /\ coord' \in {"planner", "asked", "extract_failed", "raised"}
    BY <1>1 DEF DispatchPlanner, AskPrefs, ExtractFails, ExtractRaises, Goto
  <2>2. Browser!Refuse
    BY <1>0, <2>1 DEF Browser!Refuse, Phase, RequestInv
  <2> QED
    BY <2>2 DEF Browser!Next, Browser!Progress
<1>2. CASE DispatchExtract \/ \E n \in 0..MaxOvernights : Extracted(n)
  BY <1>2 DEF DispatchExtract, Extracted, Goto, Phase, Browser!fanVars
<1>3. CASE Announce
  <2>1. /\ coord = "announcing" /\ coord' = "announcing" /\ announced < Len(Jobs)
        /\ seen' = [seen EXCEPT ![Jobs[announced + 1]] = "open"]
    BY <1>3 DEF Announce
  <2>2. announced + 1 \in 1..Len(Jobs) /\ announced + 1 \notin 1..announced /\ Len(Jobs) \in Nat
    BY <1>0, <2>1, AskedCount
  <2>3. PICK q \in Job : q = Jobs[announced + 1]
    BY <1>0, <2>2, AskedAre, AskedCount
  <2>4. ~ \E i \in 1..announced : Jobs[i] = q
    <3>1. \A i \in 1..announced : i \in 1..Len(Jobs) /\ i # announced + 1
      BY <1>0, <2>2
    <3> QED
      BY <1>0, <2>2, <2>3, <3>1, AskedAre
  <2>5. seen[q] = "hidden"
    BY <1>0, <2>1, <2>4 DEF RequestInv
  <2>6. Browser!Announce(q)
    BY <2>1, <2>3, <2>5 DEF Browser!Announce, Browser!See, Phase
  <2> QED
    BY <2>6 DEF Browser!Next
<1>4. CASE CreateTasks
  <2>1. Browser!Open
    BY <1>4 DEF CreateTasks, Browser!Open, Phase
  <2> QED
    BY <2>1 DEF Browser!Next, Browser!Progress
<1>5. CASE Forward
  <2>1. PICK q \in Job, k \in {"chunk", "ok", "failed", "sentinel"} : ForwardOf(q, k)
    BY <1>0, <1>5, ForwardEffect
  <2>2. coord = "draining" /\ coord' = "draining"
    BY <2>1 DEF ForwardOf
  <2>3. CASE k \notin EndKind
    <3>1. seen' = seen
      BY <2>1, <2>3 DEF ForwardOf
    <3> QED
      BY <2>2, <3>1 DEF Browser!fanVars, Phase
  <2>4. CASE k \in EndKind
    <3>1. seen' = [seen EXCEPT ![q] = k] /\ seen[q] = "open"
      BY <1>0, <2>1, <2>4 DEF ForwardOf, QueueInv, EndKind
    <3>2. k = "ok" => Browser!Succeed(q)
      BY <2>2, <3>1 DEF Browser!Succeed, Browser!See, Phase
    <3>3. k = "failed" => Browser!Fail(q)
      BY <2>2, <3>1 DEF Browser!Fail, Browser!See, Phase
    <3> QED
      BY <2>4, <3>2, <3>3 DEF Browser!Next, Browser!Progress, EndKind
  <2> QED
    BY <2>3, <2>4
<1>6. CASE Gather
  <2>1. /\ coord = "draining" /\ coord' = "closed" /\ seen' = seen
        /\ done_sentinels = Len(Jobs)
    BY <1>6 DEF Gather, Goto
  <2>2. \A j \in Job : seen[j] \in {"hidden", "ok", "failed"}
    BY <1>0, <2>1, AllEnded DEF RequestInv, EndKind
  <2>3. Browser!Join
    BY <2>1, <2>2 DEF Browser!Join, Phase
  <2> QED
    BY <2>3 DEF Browser!Next, Browser!Progress
<1>7. CASE Disconnect
  <2>1. Browser!Abandon
    BY <1>0, <1>7 DEF Disconnect, Goto, Over, Browser!Abandon, Phase, TypeOK
  <2> QED
    BY <2>1 DEF Browser!Next
<1>8. CASE (\E j \in Job : Acquire(j) \/ StreamFrame(j) \/ End(j)) \/ UNCHANGED vars
  BY <1>8 DEF Acquire, StreamFrame, End, coordVars, vars, Phase, Browser!fanVars
<1> QED
  BY <1>1, <1>2, <1>3, <1>4, <1>5, <1>6, <1>7, <1>8 DEF Next, Coordinator

(* Lodging and transit agents keep, step by step, what a fan-out promises:  *)
(* announced before they make progress, ended once, joined when all ended.  *)
THEOREM EnrichmentIsFanOut == Spec => Browser!Safety
<1>1. Init => Browser!Init
  BY BrowserInit
<1>2. IInv /\ [Next]_vars => [Browser!Next]_(Browser!fanVars)
  BY BrowserStep
<1> QED
  BY <1>1, <1>2, RequestInductive, PTL DEF Spec, Browser!Safety
===============================================================================
