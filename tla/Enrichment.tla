----------------------------- MODULE Enrichment -----------------------------
(***************************************************************************)
(* One follow-up request: chat.py decides from the last message whether it *)
(* asks to enrich an earlier plan, multiagent.py's run_enrichment_followup *)
(* asks for lodging preferences or extracts the overnights of the plan,    *)
(* and enrichment.py's run_enrichment_stage runs one agent per overnight   *)
(* and one per pair of consecutive overnights over a semaphore and a queue.*)
(*                                                                         *)
(* A message is the set of word classes found in it.  As in Multiagent,    *)
(* code between two awaits is one action and an agent is an AgentStream.   *)
(***************************************************************************)
EXTENDS Naturals, Sequences, FiniteSets, Functions

CONSTANTS MaxOvernights,  \* bound: overnights of a plan
          MaxParallel,    \* MAX_PARALLEL_ENRICHMENT
          MaxChunks,      \* bound: frames an agent streams
          Words           \* word classes a message may contain

ASSUME EnrichmentAssumption ==
  /\ MaxOvernights \in Nat \ {0}
  /\ MaxParallel \in Nat \ {0}
  /\ MaxChunks \in Nat
  /\ Words \subseteq {"lodging", "transit", "both", "prefs"}

VARIABLES
  prior,           \* the assistant turn before this message: "none", "plan" or "ask"
  msg,             \* word classes of the last user message
  hinted,          \* an earlier message named preferences; nobody looks at it
  coord,           \* where the request is
  overnights,      \* how many overnights were extracted and found in the profile
  announced,       \* agent_start frames sent
  task,            \* position of each job's task
  permits,         \* the semaphore's value
  chunks,          \* frames each agent has streamed
  queue,           \* the shared queue
  done_sentinels,  \* sentinels counted
  seen             \* what the browser last saw of each job

vars == <<prior, msg, hinted, coord, overnights, announced, task, permits, chunks, queue,
          done_sentinels, seen>>
request == <<prior, msg, hinted>>
tasks == <<task, permits, chunks>>

-----------------------------------------------------------------------------
Job == ({"lodging"} \X (1..MaxOvernights)) \cup ({"transit"} \X (1..(MaxOvernights - 1)))

(* _detect_enrichment_scope: there must be a turn to enrich; a phrase for   *)
(* both beats the others.                                                   *)
Scope ==
  IF prior = "none" THEN {}
  ELSE IF "both" \in msg THEN {"lodging", "transit"}
  ELSE msg \cap {"lodging", "transit"}

(* _detect_lodging_prefs looks at the last user message only.               *)
Prefs == "prefs" \in msg

(* The jobs of this request, in the order they are announced and created.   *)
Jobs ==
  LET lodging == [i \in 1..overnights |-> <<"lodging", i>>]
      transit == [i \in 1..(IF overnights = 0 THEN 0 ELSE overnights - 1) |-> <<"transit", i>>]
  IN (IF "lodging" \in Scope THEN lodging ELSE <<>>)
     \o (IF "transit" \in Scope THEN transit ELSE <<>>)

Item(k, j) == [kind |-> k, job |-> j]

Over == {"planner", "asked", "extract_failed", "raised", "closed", "gone"}

Init ==
  /\ prior \in {"none", "plan", "ask"}
  /\ msg \in SUBSET Words
  /\ hinted \in BOOLEAN /\ (prior = "none" => ~hinted)
  /\ coord = "dispatch"
  /\ overnights = 0 /\ announced = 0
  /\ task = [j \in Job |-> "none"]
  /\ permits = MaxParallel
  /\ chunks = [j \in Job |-> 0]
  /\ queue = <<>> /\ done_sentinels = 0
  /\ seen = [j \in Job |-> "hidden"]

Goto(c) == coord' = c /\ UNCHANGED <<request, overnights, announced, tasks, queue, done_sentinels, seen>>

-----------------------------------------------------------------------------
(* The request.                                                             *)

(* Not a follow-up: the whole planner runs (module Multiagent).             *)
DispatchPlanner ==
  /\ coord = "dispatch"
  /\ Scope = {}
  /\ Goto("planner")

(* Lodging without a hint of what kind: ask, and do nothing else this turn. *)
AskPrefs ==
  /\ coord = "dispatch"
  /\ "lodging" \in Scope /\ ~Prefs
  /\ Goto("asked")

(* Slip: the preferences are not looked at.                                 *)
DispatchExtractAnyway ==
  /\ coord = "dispatch"
  /\ Scope # {}
  /\ Goto("extracting")

DispatchExtract ==
  /\ coord = "dispatch"
  /\ Scope # {}
  /\ "lodging" \in Scope => Prefs
  /\ Goto("extracting")

(* The extractor found overnights; those whose ref the profile does not     *)
(* know are dropped, all of them possibly.                                  *)
Extracted(n) ==
  /\ coord = "extracting"
  /\ coord' = "announcing"
  /\ overnights' = n
  /\ UNCHANGED <<request, announced, tasks, queue, done_sentinels, seen>>

ExtractFails == coord = "extracting" /\ Goto("extract_failed")

(* The extractor's stream, or loading the profile, raised.                  *)
ExtractRaises == coord = "extracting" /\ Goto("raised")

Announce ==
  /\ coord = "announcing"
  /\ announced < Len(Jobs)
  /\ announced' = announced + 1
  /\ seen' = [seen EXCEPT ![Jobs[announced + 1]] = "open"]
  /\ UNCHANGED <<request, coord, overnights, tasks, queue, done_sentinels>>

CreateTasks ==
  /\ coord = "announcing"
  /\ announced = Len(Jobs)
  /\ task' = [j \in Job |-> IF j \in Range(Jobs) THEN "waiting" ELSE "none"]
  /\ coord' = "draining"
  /\ UNCHANGED <<request, overnights, announced, permits, chunks, queue, done_sentinels, seen>>

Forward ==
  /\ coord = "draining"
  /\ done_sentinels < Len(Jobs)
  /\ queue # <<>>
  /\ queue' = Tail(queue)
  /\ LET item == Head(queue) IN
       \/ /\ item.kind = "sentinel"
          /\ done_sentinels' = done_sentinels + 1
          /\ UNCHANGED seen
       \/ /\ item.kind # "sentinel"
          /\ seen' = [seen EXCEPT ![item.job] = IF item.kind = "chunk" THEN @ ELSE item.kind]
          /\ UNCHANGED done_sentinels
  /\ UNCHANGED <<request, coord, overnights, announced, tasks>>

(* One sentinel per task was counted and every task has returned: done.     *)
Gather ==
  /\ coord = "draining"
  /\ done_sentinels = Len(Jobs)
  /\ \A j \in Range(Jobs) : task[j] = "finished"
  /\ Goto("closed")

Disconnect == coord \notin Over /\ Goto("gone")

-----------------------------------------------------------------------------
(* A job's task: _run_lodging, _run_transit.                                *)

coordVars == <<request, coord, overnights, announced, done_sentinels, seen>>

Acquire(j) ==
  /\ task[j] = "waiting"
  /\ permits > 0
  /\ permits' = permits - 1
  /\ task' = [task EXCEPT ![j] = "running"]
  /\ UNCHANGED <<coordVars, chunks, queue>>

StreamFrame(j) ==
  /\ task[j] = "running"
  /\ chunks[j] < MaxChunks
  /\ chunks' = [chunks EXCEPT ![j] = @ + 1]
  /\ queue' = Append(queue, Item("chunk", j))
  /\ UNCHANGED <<coordVars, task, permits>>

(* Slip: the sentinel overtakes the end frame.                              *)
EndSentinelFirst(j) ==
  /\ task[j] = "running"
  /\ permits' = permits + 1
  /\ task' = [task EXCEPT ![j] = "finished"]
  /\ \E status \in {"ok", "failed"} : queue' = queue \o <<Item("sentinel", j), Item(status, j)>>
  /\ UNCHANGED <<coordVars, chunks>>

(* Slip: the handlers of a failure queue the end frame and return, so no    *)
(* sentinel follows it.                                                     *)
EndFailedWithoutSentinel(j) ==
  /\ task[j] = "running"
  /\ permits' = permits + 1
  /\ task' = [task EXCEPT ![j] = "finished"]
  /\ \/ queue' = queue \o <<Item("ok", j), Item("sentinel", j)>>
     \/ queue' = Append(queue, Item("failed", j))
  /\ UNCHANGED <<coordVars, chunks>>

(* The agent's stream was exhausted ("ok", with or without a submission),   *)
(* raised or timed out ("failed"): end frame and sentinel follow at once.   *)
End(j) ==
  /\ task[j] = "running"
  /\ permits' = permits + 1
  /\ task' = [task EXCEPT ![j] = "finished"]
  /\ \E status \in {"ok", "failed"} : queue' = queue \o <<Item(status, j), Item("sentinel", j)>>
  /\ UNCHANGED <<coordVars, chunks>>

-----------------------------------------------------------------------------
Coordinator == DispatchPlanner \/ AskPrefs \/ DispatchExtract
               \/ (\E n \in 0..MaxOvernights : Extracted(n)) \/ ExtractFails \/ ExtractRaises
               \/ Announce \/ CreateTasks \/ Forward \/ Gather

Next == Coordinator \/ Disconnect \/ \E j \in Job : Acquire(j) \/ StreamFrame(j) \/ End(j)

(* As in Multiagent; ENRICHMENT_TIMEOUT_S ends a stalled agent.             *)
Spec == /\ Init /\ [][Next]_vars
        /\ WF_vars(Coordinator)
        /\ \A j \in Job : WF_vars(Acquire(j)) /\ WF_vars(End(j))

-----------------------------------------------------------------------------
(* Properties.                                                              *)

TypeOK ==
  /\ prior \in {"none", "plan", "ask"} /\ msg \subseteq Words
  /\ hinted \in BOOLEAN
  /\ coord \in {"dispatch", "extracting", "announcing", "draining"} \cup Over
  /\ overnights \in 0..MaxOvernights
  /\ announced \in 0..Cardinality(Job) /\ done_sentinels \in 0..Cardinality(Job)
  /\ task \in [Job -> {"none", "waiting", "running", "finished"}]
  /\ permits \in 0..MaxParallel
  /\ chunks \in [Job -> 0..MaxChunks]
  /\ queue \in Seq([kind : {"chunk", "ok", "failed", "sentinel"}, job : Job])
  /\ seen \in [Job -> {"hidden", "open", "ok", "failed"}]

(* The user gets what the message asked for and nothing else: no agent of a *)
(* kind that was not asked for, no hotel search before any preference was   *)
(* named, now or earlier, and when the request closes a bubble for every    *)
(* overnight and pair (chat.py 224-250, multiagent.py 752-759,              *)
(* enrichment.py 215-246).  Whether one named earlier is asked for again is *)
(* left open: multiagent.py 755-757 says no, 617-621 and the code say yes.  *)
JobsMatchRequest ==
  /\ \A j \in Job : seen[j] # "hidden" =>
       /\ \/ j[1] \in msg
          \/ "both" \in msg
       /\ j[1] = "lodging" => "prefs" \in msg \/ hinted
       /\ j[2] <= overnights
  /\ coord = "closed" =>
       \A j \in Job : (j[1] \in Scope /\ j[2] + (IF j[1] = "transit" THEN 1 ELSE 0) <= overnights)
                         => seen[j] \in {"ok", "failed"}

(* The request ends; tasks whose client left end as well.                   *)
RequestEnds ==
  /\ <>(coord \in Over)
  /\ \A j \in Job : task[j] = "waiting" ~> task[j] = "finished"

(* To the browser, lodging and transit agents are a fan-out that joins, of  *)
(* jobs that commit nothing.                                                *)
Phase == IF coord \in {"dispatch", "extracting", "announcing"} THEN "announcing"
         ELSE IF coord = "draining" THEN "open"
         ELSE IF coord = "closed" THEN "joined"
         ELSE IF coord = "gone" THEN "abandoned"
         ELSE "refused"

Browser == INSTANCE FanOut WITH
  Job <- Job,
  Commits <- FALSE,
  phase <- Phase,
  seen <- seen

ImplementsFanOut == Browser!Spec
=============================================================================
