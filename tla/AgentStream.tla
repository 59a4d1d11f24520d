----------------------------- MODULE AgentStream -----------------------------
(***************************************************************************)
(* What one LLM agent promises whoever iterates its stream (the /chat      *)
(* endpoint, the segment tasks of the coordinator, the enrichment tasks):  *)
(* it stays open while the tool loop runs, a submission may be acknowledged *)
(* to the model on the way, and it then ends in exactly one of three ways. *)
(* Only an orderly return hands over what was submitted.                   *)
(***************************************************************************)

VARIABLES st,     \* "open", then "returned", "raised" or "cancelled"
          acked,  \* a terminal tool call was answered {"ok": True}
          gave    \* the captured result was handed to the iterating caller

streamVars == <<st, acked, gave>>

StreamStates == {"open", "returned", "raised", "cancelled"}

Init == st = "open" /\ acked = FALSE /\ gave = FALSE

(* The terminal tool runs in a worker thread: it may still run to its end   *)
(* after the loop that called it was cancelled.                             *)
Ack == /\ st \in {"open", "cancelled"}
       /\ acked' = TRUE
       /\ UNCHANGED <<st, gave>>

Return == /\ st = "open"
          /\ st' = "returned"
          /\ gave' = acked
          /\ UNCHANGED acked

Raise == /\ st = "open"
         /\ st' = "raised"
         /\ UNCHANGED <<acked, gave>>

Cancel == /\ st = "open"
          /\ st' = "cancelled"
          /\ UNCHANGED <<acked, gave>>

Next == Ack \/ Return \/ Raise \/ Cancel

Spec == Init /\ [][Next]_streamVars /\ WF_streamVars(Return \/ Raise \/ Cancel)
=============================================================================
