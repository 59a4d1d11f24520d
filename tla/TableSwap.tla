----------------------------- MODULE TableSwap -----------------------------
(***************************************************************************)
(* How a column of a table too big for UPDATE is filled: values are staged *)
(* beside the table, a copy of the table is written with them, indexed,    *)
(* and swapped in.  Each step commits, and a run that was killed is run    *)
(* again; it goes on with what it finds.  Another script rewrites the same *)
(* table through a copy of the same name.                                  *)
(*                                                                         *)
(*   table     fill                              rewrite                   *)
(*   vertices  ingest/ingest_dem_ctas.py         spt/cluster_vertices_ctas *)
(*   ways      cost/recompute_cost_views_ctas    ingest/backfill_way_tags  *)
(***************************************************************************)
EXTENDS Integers, FiniteSets

CONSTANTS
    Rows,           \* that there may be
    Initial,        \* those at the beginning
    Covered,        \* rows the elevation model, or way_tags, knows
    ENOUGH_STAGED,  \* 50 000 000
    ENOUGH_ROWS,    \* 100 000 000
    MaxKills,       \* bound
    None

TableSwapAssumption ==
    /\ Initial \subseteq Rows /\ Covered \subseteq Rows
    /\ {ENOUGH_STAGED, ENOUGH_ROWS, MaxKills} \subseteq Nat
    /\ \A S \in SUBSET Rows : None # S

VARIABLES
    name,       \* of the table
    pc, script,
    table,      \* [row -> the columns that are not empty, of Columns]
    logged,     \* whether the table survives a crash of the database
    copy,       \* [rows, logged, index, by], the index being named after its script
    staging,    \* rows a value is staged for
    todo,       \* rows the scan has still to come to
    sampled,    \* whether a value was staged, by this run or the one it goes on from
    kills,
    alone       \* nothing else came between a killed fill and its next run

vars == <<name, pc, script, table, logged, copy, staging, todo, sampled, kills, alone>>

\* What is filled from beside the table, and the price of a profile which the
\* scripts' lists of columns do not name.
Listed == {"tag", "value"}
Columns == Listed \cup {"unlisted"}

Filled(r) == "value" \in table[r]

\* Without a highway tag a way has no price.
Fillable(r) == IF name = "ways" THEN "tag" \in table[r] ELSE r \in Covered

\* Slip: any copy is taken for a whole one.
CopiedAtAll == copy # None

\* A copy of this many rows is taken for a whole one, whoever made it.
Copied == copy # None /\ Cardinality(DOMAIN copy.rows) > ENOUGH_ROWS

IndexNames(s) == IF name = "ways" THEN s ELSE "either"

---------------------------------------------------------------------------
Init ==
    /\ name \in {"vertices", "ways"}
    /\ pc = "idle" /\ script = None
    /\ table = [r \in Initial |-> {}] /\ logged = TRUE
    /\ copy = None /\ staging = None /\ todo = {} /\ sampled = FALSE
    /\ kills = 0 /\ alone = TRUE

StartFill ==
    /\ pc = "idle"
    /\ script' = "fill"
    /\ sampled' = (staging \notin {None, {}})
    /\ alone' = (alone /\ (copy = None \/ copy.by = "fill"))
    /\ IF staging # None /\ Cardinality(staging) > ENOUGH_STAGED
       THEN pc' = "copy" /\ UNCHANGED <<staging, todo>>
       ELSE /\ staging' = {}
            /\ todo' = {r \in DOMAIN table : ~Filled(r) /\ Fillable(r)}
            /\ pc' = "scan"
    /\ UNCHANGED <<name, table, logged, copy, kills>>

\* A batch, over a connection of its own; the cursor sees none of it.
Flush ==
    /\ pc = "scan"
    /\ \E batch \in SUBSET todo :
        /\ batch # {}
        /\ staging' = staging \cup batch
        /\ todo' = todo \ batch
    /\ sampled' = TRUE
    /\ UNCHANGED <<name, pc, script, table, logged, copy, kills, alone>>

\* The elevations stop here if there are none, counting those that an earlier run
\* staged and this one threw away; the costs do not.
Scanned ==
    /\ pc = "scan" /\ todo = {}
    /\ pc' = IF name = "vertices" /\ ~sampled THEN "idle" ELSE "copy"
    /\ UNCHANGED <<name, script, table, logged, copy, staging, todo, sampled, kills, alone>>

StartRewrite ==
    /\ pc = "idle"
    /\ name = "ways" => \E r \in DOMAIN table : "tag" \notin table[r]
    /\ script' = "rewrite"
    /\ pc' = "copy"
    /\ UNCHANGED <<name, table, logged, copy, staging, todo, sampled, kills, alone>>

SkipInsert ==
    /\ pc = "copy" /\ script = "fill" /\ Copied
    /\ pc' = "index"
    /\ UNCHANGED <<name, script, table, logged, copy, staging, todo, sampled, kills, alone>>

DropCopy ==
    /\ pc = "copy" /\ ~(script = "fill" /\ Copied)
    /\ copy' = None
    /\ pc' = "create"
    /\ UNCHANGED <<name, script, table, logged, staging, todo, sampled, kills, alone>>

UnloggedCopy == name = "ways" /\ script = "rewrite"

CreateCopy ==
    /\ pc = "create"
    /\ copy' = [rows |-> <<>>, logged |-> ~UnloggedCopy, index |-> None, by |-> script]
    /\ pc' = "insert"
    /\ UNCHANGED <<name, script, table, logged, staging, todo, sampled, kills, alone>>

\* What a row of the copy holds: the columns on the script's list, and NULL in
\* every other that LIKE has given it.
Joined(r) ==
    (table[r] \cap Listed)
             \cup {c \in {"value"} : script = "fill" /\ r \in staging}
             \cup {c \in {"tag"} : UnloggedCopy /\ r \in Covered}

InsertCopy ==
    /\ pc = "insert"
    /\ copy' = [copy EXCEPT !.rows = [r \in DOMAIN table |-> Joined(r)]]
    /\ pc' = IF UnloggedCopy THEN "set_logged" ELSE "index"
    /\ UNCHANGED <<name, script, table, logged, staging, todo, sampled, kills, alone>>

SetLogged ==
    /\ pc = "set_logged"
    /\ copy' = [copy EXCEPT !.logged = TRUE]
    /\ pc' = "index"
    /\ UNCHANGED <<name, script, table, logged, staging, todo, sampled, kills, alone>>

\* All four in one transaction; a copy that has as many keeps its own.
BuildIndexes ==
    /\ pc = "index"
    /\ copy' = IF copy.index = None THEN [copy EXCEPT !.index = IndexNames(script)] ELSE copy
    /\ pc' = "swap"
    /\ UNCHANGED <<name, script, table, logged, staging, todo, sampled, kills, alone>>

Swap ==
    /\ pc = "swap" /\ copy.index = IndexNames(script)
    /\ table' = copy.rows /\ logged' = copy.logged
    /\ copy' = None
    /\ pc' = IF script = "fill" THEN "cleanup" ELSE "idle"
    /\ UNCHANGED <<name, script, staging, todo, sampled, kills, alone>>

\* An index of another name cannot be renamed: all of the swap is undone.
SwapFails ==
    /\ pc = "swap" /\ copy.index # IndexNames(script)
    /\ pc' = "idle"
    /\ UNCHANGED <<name, script, table, logged, copy, staging, todo, sampled, kills, alone>>

DropStaging ==
    /\ pc = "cleanup"
    /\ staging' = None
    /\ pc' = "idle"
    /\ UNCHANGED <<name, script, table, logged, copy, todo, sampled, kills, alone>>

---------------------------------------------------------------------------
(* The environment *)

Kill ==
    /\ pc # "idle" /\ kills < MaxKills
    /\ kills' = kills + 1
    /\ pc' = "idle"
    /\ UNCHANGED <<name, script, table, logged, copy, staging, todo, sampled, alone>>

\* The machine goes down: what is not logged comes back empty.
Crash ==
    /\ kills < MaxKills
    /\ kills' = kills + 1
    /\ pc' = "idle"
    /\ copy' = IF copy # None /\ ~copy.logged THEN [copy EXCEPT !.rows = <<>>] ELSE copy
    /\ table' = IF logged THEN table ELSE <<>>
    /\ UNCHANGED <<name, script, logged, staging, todo, sampled, alone>>

\* New rows, while none of the scripts runs.
Ingest ==
    /\ pc = "idle"
    /\ \E r \in Rows \ DOMAIN table :
        table' = [x \in DOMAIN table \cup {r} |-> IF x = r THEN {} ELSE table[x]]
    /\ alone' = (alone /\ copy = None)
    /\ UNCHANGED <<name, pc, script, logged, copy, staging, todo, sampled, kills>>

\* recompute_cost adds the columns of any profile and fills them.
PriceUnlisted ==
    /\ pc = "idle" /\ name = "ways"
    /\ table' = [r \in DOMAIN table |->
                    table[r] \cup {c \in {"unlisted"} : "tag" \in table[r]}]
    /\ UNCHANGED <<name, pc, script, logged, copy, staging, todo, sampled, kills, alone>>

Next ==
    \/ StartFill \/ Flush \/ Scanned \/ StartRewrite
    \/ SkipInsert \/ DropCopy \/ CreateCopy \/ InsertCopy \/ SetLogged \/ BuildIndexes
    \/ Swap \/ SwapFails \/ DropStaging
    \/ Kill \/ Crash \/ Ingest \/ PriceUnlisted

Spec == Init /\ [][Next]_vars

---------------------------------------------------------------------------
(* What may be relied on *)

\* One step, however often the scripts were killed before: no row of the table is
\* lost, nor anything in the columns that the scripts list, and staged values are
\* dropped only once the table has them.  What any other column holds is lost in
\* each swap.  It is said of runs between which nothing else was done to a copy
\* they left behind: a fill swaps in whatever copy is big enough, one that the
\* other script made, or one from before the last ingest.
KeepsTheTable ==
    alone' =>
        /\ \A r \in DOMAIN table : r \in DOMAIN table' /\ (table[r] \cap Listed) \subseteq table'[r]
        /\ staging' = None /\ staging # None => \A r \in staging : Filled(r)

SwapsKeepTheTable == [][KeepsTheTable]_vars
=============================================================================
