------------------------------ MODULE MCIngest ------------------------------
(* Two countries, one ingest each, in one database. *)
EXTENDS RoadIngest

MCWays == {[id |-> 1, kind |-> "bike", nodes |-> <<1, 2, 3>>, oneway |-> 0],
           [id |-> 2, kind |-> "bike", nodes |-> <<3, 4>>, oneway |-> 1],
           [id |-> 3, kind |-> "drivable", nodes |-> <<4, 5>>, oneway |-> 0]}
MCFiles == [austria |-> {1, 2}, denmark |-> {3}]
MCJobLists == {[n \in 1..2 |-> [pbfs |-> <<IF n = 1 THEN "austria" ELSE "denmark">>,
                               supplement |-> FALSE]]}
=============================================================================
