------------------------------- MODULE MCRebuild -------------------------------
(* Rebuilds as they are started: with the defaults, in full, and with the   *)
(* trees of an earlier one.                                                 *)
EXTENDS Rebuild

DefaultRun == [resume |-> TRUE, fresh |-> FALSE, force |-> {}, skip |-> {}]
FullRun == [DefaultRun EXCEPT !.resume = FALSE, !.fresh = TRUE]
RunSkippingSpt == [DefaultRun EXCEPT !.skip = {8}]

UsualRuns == {DefaultRun, FullRun, RunSkippingSpt}
DefaultRuns == {DefaultRun}
FullRuns == {FullRun}
=============================================================================
