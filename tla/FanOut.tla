------------------------------- MODULE FanOut -------------------------------
(***************************************************************************)
(* What a fan-out of sub-agents promises the browser: jobs are announced   *)
(* before any of them makes progress, each announced job ends exactly once,*)
(* a job that commits a result is a job that succeeds, and the stream goes *)
(* on (to the merged plan, or to its end) only when every job has ended.   *)
(***************************************************************************)
CONSTANTS Job,      \* the jobs there may be
          Commits   \* TRUE if a successful job commits its result before it ends

VARIABLES phase,    \* of the whole stream
          seen      \* what the browser last saw of each job

fanVars == <<phase, seen>>

Phases == {"announcing", "open", "joined", "refused", "abandoned"}
Sights == {"hidden", "open", "committed", "ok", "failed"}

Init == phase = "announcing" /\ seen = [j \in Job |-> "hidden"]

See(j, from, to) == /\ seen[j] = from
                    /\ seen' = [seen EXCEPT ![j] = to]
                    /\ UNCHANGED phase

Announce(j) == phase = "announcing" /\ See(j, "hidden", "open")

Open == phase = "announcing" /\ phase' = "open" /\ UNCHANGED seen

Refuse == /\ phase = "announcing"
          /\ \A j \in Job : seen[j] = "hidden"
          /\ phase' = "refused"
          /\ UNCHANGED seen

Commit(j) == phase = "open" /\ Commits /\ See(j, "open", "committed")

Succeed(j) == phase = "open" /\ See(j, IF Commits THEN "committed" ELSE "open", "ok")

Fail(j) == phase = "open" /\ See(j, "open", "failed")

Join == /\ phase = "open"
        /\ \A j \in Job : seen[j] \in {"hidden", "ok", "failed"}
        /\ phase' = "joined"
        /\ UNCHANGED seen

Abandon == /\ phase \in {"announcing", "open", "joined"}
           /\ phase' = "abandoned"
           /\ UNCHANGED seen

Progress == Open \/ Refuse \/ Join \/ \E j \in Job : Commit(j) \/ Succeed(j) \/ Fail(j)

Next == Progress \/ Abandon \/ \E j \in Job : Announce(j)

Safety == Init /\ [][Next]_fanVars

Spec == Safety /\ WF_fanVars(Progress)
=============================================================================
