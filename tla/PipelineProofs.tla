--------------------------- MODULE PipelineProofs ---------------------------
(***************************************************************************)
(* Theorems about stages of the pipeline, in this order.  TableSwap: what  *)
(* its swaps keep, for any rows, bounds and number of kills.  AnchorSelect:*)
(* which places become anchors, whatever places are loaded.  RoadIngest:   *)
(* what is staged arrives in ways.                                         *)
(*                                                                         *)
(* Then the searches of ShortestWays, on which several stages rest, and    *)
(* five users of theirs.  LocalSearch, which is no stage but a router: its *)
(* answer from a crop is one of the whole corridor.  TrunkTrees: the       *)
(* trunks that are built lead on, and pruning takes no router's way.       *)
(* FerryChains: the graph of the anchors has every crossing, at its length.*)
(* VoronoiGraph: anchors on one road are joined in the chain graph.        *)
(* ProximityGraph: pairs that are replaced by two keep their connection.   *)
(***************************************************************************)
EXTENDS TableSwap, Ranking, FiniteSetTheorems, SequenceTheorems, WellFoundedInduction, TLAPS

Tables == UNION {[S -> SUBSET Columns] : S \in SUBSET Rows}
Copies == [rows : Tables, logged : BOOLEAN, index : {None, "fill", "rewrite", "either"},
           by : {"fill", "rewrite"}]

Steps == {"idle", "scan", "copy", "create", "insert", "set_logged", "index", "swap",
          "cleanup"}
Copying == {"insert", "set_logged", "index", "swap"}

TypeOK ==
    /\ name \in {"vertices", "ways"}
    /\ pc \in Steps
    /\ script \in {None, "fill", "rewrite"}
    /\ pc # "idle" => script \in {"fill", "rewrite"}
    /\ table \in Tables /\ logged \in BOOLEAN
    /\ copy = None \/ copy \in Copies
    /\ pc \in Copying => copy \in Copies
    /\ staging = None \/ staging \in SUBSET Rows
    /\ pc \in {"scan", "cleanup"} => script = "fill"
    /\ pc # "idle" /\ script = "fill" => staging \in SUBSET Rows
    /\ todo \in SUBSET Rows
    /\ alone \in BOOLEAN

\* A copy with every row of the table, and what the row has in the listed columns.
Whole == /\ DOMAIN copy.rows = DOMAIN table
         /\ \A r \in DOMAIN table : (table[r] \cap Listed) \subseteq copy.rows[r]

Due == {r \in DOMAIN table : ~Filled(r) /\ Fillable(r)}

\* The tables survive crashes, a fill's copy too.
LoggedInv ==
    /\ logged = TRUE
    /\ copy # None /\ copy.by = "fill" => copy.logged = TRUE
    /\ pc = "insert" => copy.logged = ~UnloggedCopy
    /\ pc \in {"index", "swap"} => copy.logged = TRUE

\* Whose copy there is.
OwnerInv ==
    /\ pc \in {"scan", "copy"} /\ script = "fill" => copy = None \/ copy.by = "fill"
    /\ pc \in Copying => copy.by = script
    /\ pc = "set_logged" => UnloggedCopy
    /\ pc = "cleanup" => copy = None

\* What is staged: rows of the table, and when it is copied all that are due, if
\* it was not taken for the full set on account of its size.
StagingInv ==
    /\ staging # None => staging \subseteq DOMAIN table
    /\ pc = "scan" => /\ staging \cup todo \subseteq DOMAIN table
                      /\ Due \subseteq staging \cup todo
                      /\ todo \subseteq Due /\ staging \subseteq Due
    /\ pc \in {"copy", "create", "insert"} /\ script = "fill" =>
            Cardinality(staging) > ENOUGH_STAGED \/ Due \subseteq staging
    /\ pc = "cleanup" => \A r \in staging : r \in DOMAIN table /\ Filled(r)

\* What a copy holds: a fill's, also one that was left behind, all the values that
\* are staged or will be.
CopyInv ==
    /\ pc \in {"set_logged", "index", "swap"} => Whole
    /\ (copy # None \/ pc \in Copying) /\ copy.by = "fill" /\ copy.rows # <<>> =>
            /\ Whole
            /\ staging # None => \A r \in staging : "value" \in copy.rows[r]
            /\ \/ pc # "scan" /\ staging # None /\ Cardinality(staging) > ENOUGH_STAGED
               \/ \A r \in Due : "value" \in copy.rows[r]
    /\ pc \in {"index", "swap"} /\ script = "fill" =>
            \A r \in staging : "value" \in copy.rows[r]

AloneInv == LoggedInv /\ OwnerInv /\ StagingInv /\ CopyInv

IInv == TypeOK /\ (alone => AloneInv)

---------------------------------------------------------------------------
\* Tables

\* A table gives columns to some of the rows.
LEMMA TableIn == \A t : t \in Tables <=> \E S \in SUBSET Rows : t \in [S -> SUBSET Columns]
  BY DEF Tables

\* Its rows and their columns.
LEMMA TableRow ==
  ASSUME NEW t \in Tables
  PROVE  DOMAIN t \subseteq Rows /\ \A r \in DOMAIN t : t[r] \in SUBSET Columns
  BY TableIn

\* A table may be empty.
LEMMA NoTable == <<>> \in Tables /\ DOMAIN <<>> = {}
<1>1. <<>> \in [{} -> SUBSET Columns]
  OBVIOUS
<1> QED
  BY <1>1, TableIn

\* A copy that is taken for a whole one has rows.
LEMMA CopiedHasRows ==
  ASSUME TableSwapAssumption, Copied
  PROVE  copy # None /\ copy.rows # <<>>
<1>1. CASE copy.rows = <<>>
  <2>1. Cardinality(DOMAIN copy.rows) = 0
    BY <1>1, NoTable, FS_EmptySet
  <2> QED
    BY <2>1 DEF Copied, TableSwapAssumption
<1> QED
  BY <1>1 DEF Copied

---------------------------------------------------------------------------
\* Types

\* The first state is well-typed.
LEMMA InitTypes == TableSwapAssumption /\ Init => TypeOK
<1> SUFFICES ASSUME TableSwapAssumption, Init PROVE TypeOK
  OBVIOUS
<1>1. [r \in Initial |-> {}] \in Tables
  BY TableIn DEF TableSwapAssumption
<1> QED
  BY <1>1 DEF Init, TypeOK, Steps, Copying, TableSwapAssumption

\* Every step keeps types.
LEMMA NextTypes == TypeOK /\ [Next]_vars => TypeOK'
<1> SUFFICES ASSUME TypeOK, [Next]_vars PROVE TypeOK'
  OBVIOUS
<1> USE DEF Steps, Copying
<1>1. CASE StartFill
  BY <1>1, TableRow DEF TypeOK, StartFill
<1>2. CASE Flush
  BY <1>2 DEF TypeOK, Flush
<1>3. CASE Scanned
  BY <1>3 DEF TypeOK, Scanned
<1>4. CASE StartRewrite
  BY <1>4 DEF TypeOK, StartRewrite
<1>5. CASE SkipInsert
  BY <1>5 DEF TypeOK, SkipInsert, Copied
<1>6. CASE DropCopy
  BY <1>6 DEF TypeOK, DropCopy
<1>7. CASE CreateCopy
  <2>1. copy' \in Copies
    BY <1>7, NoTable DEF TypeOK, CreateCopy, Copies, UnloggedCopy
  <2> QED
    BY <1>7, <2>1 DEF TypeOK, CreateCopy
<1>8. CASE InsertCopy
  <2>1. \A r \in DOMAIN table : Joined(r) \in SUBSET Columns
    BY TableRow DEF TypeOK, Joined, Columns, Listed
  <2>2. [r \in DOMAIN table |-> Joined(r)] \in Tables
    BY <2>1, TableRow, TableIn DEF TypeOK
  <2>3. copy' \in Copies
    BY <1>8, <2>2 DEF TypeOK, InsertCopy, Copies
  <2> QED
    BY <1>8, <2>3 DEF TypeOK, InsertCopy
<1>9. CASE SetLogged
  <2>1. copy' \in Copies
    BY <1>9 DEF TypeOK, SetLogged, Copies
  <2> QED
    BY <1>9, <2>1 DEF TypeOK, SetLogged
<1>10. CASE BuildIndexes
  <2>1. copy' \in Copies
    BY <1>10 DEF TypeOK, BuildIndexes, Copies, IndexNames
  <2> QED
    BY <1>10, <2>1 DEF TypeOK, BuildIndexes
<1>11. CASE Swap
  <2>1. copy.rows \in Tables /\ copy.logged \in BOOLEAN
    BY <1>11 DEF TypeOK, Swap, Copies
  <2> QED
    BY <1>11, <2>1 DEF TypeOK, Swap
<1>12. CASE SwapFails
  BY <1>12 DEF TypeOK, SwapFails
<1>13. CASE DropStaging
  BY <1>13 DEF TypeOK, DropStaging
<1>14. CASE Kill
  BY <1>14 DEF TypeOK, Kill
<1>15. CASE Crash
  <2>1. copy' = None \/ copy' \in Copies
    BY <1>15, NoTable DEF TypeOK, Crash, Copies
  <2> QED
    BY <1>15, <2>1, NoTable DEF TypeOK, Crash
<1>16. CASE Ingest
  <2>1. PICK r \in Rows \ DOMAIN table :
            table' = [x \in DOMAIN table \cup {r} |-> IF x = r THEN {} ELSE table[x]]
    BY <1>16 DEF Ingest
  <2>2. table' \in Tables
    BY <2>1, TableRow, TableIn DEF TypeOK
  <2> QED
    BY <1>16, <2>2 DEF TypeOK, Ingest
<1>17. CASE PriceUnlisted
  <2>1. \A r \in DOMAIN table :
            table[r] \cup {c \in {"unlisted"} : "tag" \in table[r]} \in SUBSET Columns
    BY TableRow DEF TypeOK, Columns
  <2>2. table' \in Tables
    BY <1>17, <2>1, TableRow, TableIn DEF TypeOK, PriceUnlisted
  <2> QED
    BY <1>17, <2>2 DEF TypeOK, PriceUnlisted
<1>18. CASE UNCHANGED vars
  BY <1>18 DEF TypeOK, vars
<1> QED
  BY <1>1, <1>2, <1>3, <1>4, <1>5, <1>6, <1>7, <1>8, <1>9, <1>10, <1>11, <1>12, <1>13,
     <1>14, <1>15, <1>16, <1>17, <1>18 DEF Next

---------------------------------------------------------------------------
\* Steps while nothing else comes between

\* What InsertCopy changes of the copy.
LEMMA Inserted ==
  ASSUME TypeOK, InsertCopy
  PROVE  /\ copy'.rows = [r \in DOMAIN table |-> Joined(r)]
         /\ copy'.logged = copy.logged /\ copy'.by = copy.by
  BY DEF TypeOK, InsertCopy, Copying, Copies

\* What SetLogged and BuildIndexes leave alone.
LEMMA SameRows ==
  ASSUME TypeOK, SetLogged \/ BuildIndexes
  PROVE  copy'.rows = copy.rows /\ copy'.by = copy.by
<1>1. CASE SetLogged
  BY <1>1 DEF TypeOK, SetLogged, Copying, Copies
<1>2. CASE BuildIndexes
  BY <1>2 DEF TypeOK, BuildIndexes, Copying, Copies
<1> QED
  BY <1>1, <1>2

\* What PriceUnlisted leaves alone: a fill's rows and values, and the price that its
\* lists do not name is not a value.
LEMMA UnlistedPriced ==
  ASSUME TypeOK, PriceUnlisted
  PROVE  /\ UNCHANGED <<name, pc, script, logged, copy, staging, todo, alone>>
         /\ pc = "idle"
         /\ DOMAIN table' = DOMAIN table
         /\ \A r \in DOMAIN table : table[r] \subseteq table'[r]
         /\ \A r \in DOMAIN table : Filled(r)' = Filled(r) /\ Fillable(r)' = Fillable(r)
         /\ Due' = Due /\ Whole' = Whole
<1>1. /\ UNCHANGED <<name, pc, script, logged, copy, staging, todo, alone>>
      /\ pc = "idle"
      /\ DOMAIN table' = DOMAIN table
      /\ \A r \in DOMAIN table :
              table'[r] = table[r] \cup {c \in {"unlisted"} : "tag" \in table[r]}
  BY DEF PriceUnlisted
<1>2. \A r \in DOMAIN table : /\ "value" \in table'[r] <=> "value" \in table[r]
                              /\ "tag" \in table'[r] <=> "tag" \in table[r]
                              /\ table'[r] \cap Listed = table[r] \cap Listed
  BY <1>1 DEF Listed
<1>3. \A r \in DOMAIN table : Filled(r)' = Filled(r) /\ Fillable(r)' = Fillable(r)
  BY <1>1, <1>2 DEF Filled, Fillable
<1>4. Due' = Due
  BY <1>1, <1>3 DEF Due
<1>5. Whole' = Whole
  BY <1>1, <1>2 DEF Whole
<1> QED
  BY <1>1, <1>3, <1>4, <1>5

\* Every step keeps LoggedInv,
LEMMA LoggedStep ==
  ASSUME TableSwapAssumption, TypeOK, TypeOK', AloneInv, [Next]_vars, alone'
  PROVE  LoggedInv'
<1>1. CASE StartFill
  BY <1>1 DEF AloneInv, LoggedInv, OwnerInv, UnloggedCopy, StartFill
<1>2. CASE Flush
  BY <1>2 DEF AloneInv, LoggedInv, OwnerInv, UnloggedCopy, Flush
<1>3. CASE Scanned
  BY <1>3 DEF AloneInv, LoggedInv, OwnerInv, UnloggedCopy, Scanned
<1>4. CASE StartRewrite
  BY <1>4 DEF AloneInv, LoggedInv, OwnerInv, UnloggedCopy, StartRewrite
<1>5. CASE SkipInsert
  BY <1>5 DEF AloneInv, LoggedInv, OwnerInv, UnloggedCopy, SkipInsert, Copied
<1>6. CASE DropCopy
  BY <1>6 DEF AloneInv, LoggedInv, OwnerInv, UnloggedCopy, DropCopy
<1>7. CASE CreateCopy
  BY <1>7 DEF AloneInv, LoggedInv, OwnerInv, UnloggedCopy, CreateCopy
<1>8. CASE InsertCopy
  BY <1>8, Inserted DEF AloneInv, LoggedInv, OwnerInv, UnloggedCopy,
     InsertCopy, Copying
<1>9. CASE SetLogged
  BY <1>9 DEF AloneInv, LoggedInv, OwnerInv, UnloggedCopy, SetLogged
<1>10. CASE BuildIndexes
  BY <1>10 DEF AloneInv, LoggedInv, OwnerInv, UnloggedCopy, BuildIndexes
<1>11. CASE Swap
  BY <1>11 DEF AloneInv, LoggedInv, OwnerInv, UnloggedCopy, Swap
<1>12. CASE SwapFails
  BY <1>12 DEF AloneInv, LoggedInv, OwnerInv, UnloggedCopy, SwapFails
<1>13. CASE DropStaging
  BY <1>13 DEF AloneInv, LoggedInv, OwnerInv, UnloggedCopy, DropStaging
<1>14. CASE Kill
  BY <1>14 DEF AloneInv, LoggedInv, OwnerInv, UnloggedCopy, Kill
<1>15. CASE Crash
  BY <1>15 DEF AloneInv, LoggedInv, OwnerInv, UnloggedCopy, Crash
<1>16. CASE Ingest
  BY <1>16 DEF AloneInv, LoggedInv, OwnerInv, UnloggedCopy, Ingest
<1>17. CASE PriceUnlisted
  BY <1>17, UnlistedPriced DEF AloneInv, LoggedInv, OwnerInv, UnloggedCopy
<1>18. CASE UNCHANGED vars
  BY <1>18 DEF AloneInv, LoggedInv, OwnerInv, UnloggedCopy, vars
<1> QED
  BY <1>1, <1>2, <1>3, <1>4, <1>5, <1>6, <1>7, <1>8, <1>9, <1>10, <1>11,
     <1>12, <1>13, <1>14, <1>15, <1>16, <1>17, <1>18 DEF Next

\* OwnerInv,
LEMMA OwnerStep ==
  ASSUME TableSwapAssumption, TypeOK, TypeOK', AloneInv, [Next]_vars, alone'
  PROVE  OwnerInv'
<1>1. CASE StartFill
  BY <1>1 DEF AloneInv, OwnerInv, UnloggedCopy, Copying, StartFill
<1>2. CASE Flush
  BY <1>2 DEF AloneInv, OwnerInv, UnloggedCopy, Copying, Flush
<1>3. CASE Scanned
  BY <1>3 DEF AloneInv, OwnerInv, UnloggedCopy, Copying, Scanned
<1>4. CASE StartRewrite
  BY <1>4 DEF AloneInv, OwnerInv, UnloggedCopy, Copying, StartRewrite
<1>5. CASE SkipInsert
  BY <1>5 DEF AloneInv, OwnerInv, Copying, SkipInsert, Copied
<1>6. CASE DropCopy
  BY <1>6 DEF AloneInv, OwnerInv, UnloggedCopy, Copying, DropCopy
<1>7. CASE CreateCopy
  BY <1>7 DEF AloneInv, OwnerInv, UnloggedCopy, Copying, CreateCopy
<1>8. CASE InsertCopy
  BY <1>8 DEF AloneInv, OwnerInv, UnloggedCopy, Copying, InsertCopy
<1>9. CASE SetLogged
  BY <1>9 DEF AloneInv, OwnerInv, UnloggedCopy, Copying, SetLogged
<1>10. CASE BuildIndexes
  BY <1>10 DEF AloneInv, OwnerInv, UnloggedCopy, Copying, BuildIndexes
<1>11. CASE Swap
  BY <1>11 DEF AloneInv, OwnerInv, UnloggedCopy, Copying, Swap
<1>12. CASE SwapFails
  BY <1>12 DEF AloneInv, OwnerInv, UnloggedCopy, Copying, SwapFails
<1>13. CASE DropStaging
  BY <1>13 DEF AloneInv, OwnerInv, UnloggedCopy, Copying, DropStaging
<1>14. CASE Kill
  BY <1>14 DEF AloneInv, OwnerInv, UnloggedCopy, Copying, Kill
<1>15. CASE Crash
  BY <1>15 DEF AloneInv, OwnerInv, UnloggedCopy, Copying, Crash
<1>16. CASE Ingest
  BY <1>16 DEF AloneInv, OwnerInv, UnloggedCopy, Copying, Ingest
<1>17. CASE PriceUnlisted
  BY <1>17, UnlistedPriced DEF AloneInv, OwnerInv, UnloggedCopy, Copying
<1>18. CASE UNCHANGED vars
  BY <1>18 DEF AloneInv, OwnerInv, UnloggedCopy, Copying, vars
<1> QED
  BY <1>1, <1>2, <1>3, <1>4, <1>5, <1>6, <1>7, <1>8, <1>9, <1>10, <1>11,
     <1>12, <1>13, <1>14, <1>15, <1>16, <1>17, <1>18 DEF Next

\* StagingInv
LEMMA StagingStep ==
  ASSUME TableSwapAssumption, TypeOK, TypeOK', AloneInv, [Next]_vars, alone'
  PROVE  StagingInv'
<1>1. CASE StartFill
  BY <1>1 DEF AloneInv, StagingInv, Due, Filled, Fillable, StartFill
<1>2. CASE Flush
  BY <1>2 DEF AloneInv, StagingInv, Due, Filled, Fillable, Flush
<1>3. CASE Scanned
  BY <1>3 DEF AloneInv, StagingInv, Due, Filled, Fillable, Scanned
<1>4. CASE StartRewrite
  BY <1>4 DEF AloneInv, StagingInv, Due, Filled, Fillable, StartRewrite
<1>5. CASE SkipInsert
  BY <1>5 DEF AloneInv, StagingInv, Due, Filled, Fillable, SkipInsert
<1>6. CASE DropCopy
  BY <1>6 DEF AloneInv, StagingInv, Due, Filled, Fillable, DropCopy
<1>7. CASE CreateCopy
  BY <1>7 DEF AloneInv, StagingInv, Due, Filled, Fillable, CreateCopy
<1>8. CASE InsertCopy
  BY <1>8 DEF AloneInv, StagingInv, Due, Filled, Fillable, InsertCopy
<1>9. CASE SetLogged
  BY <1>9 DEF AloneInv, StagingInv, Due, Filled, Fillable, SetLogged
<1>10. CASE BuildIndexes
  BY <1>10 DEF AloneInv, StagingInv, Due, Filled, Fillable, BuildIndexes
<1>11. CASE Swap
  <2>1. DOMAIN table' = DOMAIN table
    BY <1>11 DEF AloneInv, CopyInv, Whole, Swap
  <2>2. pc' = "cleanup" => \A r \in staging' : r \in DOMAIN table' /\ Filled(r)'
    <3> SUFFICES ASSUME pc' = "cleanup", NEW r \in staging'
                 PROVE  r \in DOMAIN table' /\ Filled(r)'
      OBVIOUS
    <3>1. script = "fill" /\ staging' = staging /\ staging # None
      BY <1>11 DEF Swap, TypeOK, TableSwapAssumption
    <3>2. r \in DOMAIN table'
      BY <2>1, <3>1 DEF AloneInv, StagingInv
    <3>3. "value" \in table'[r]
      BY <1>11, <3>1 DEF AloneInv, CopyInv, Swap
    <3> QED
      BY <3>2, <3>3 DEF Filled
  <2> QED
    BY <1>11, <2>1, <2>2 DEF AloneInv, StagingInv, Swap
<1>12. CASE SwapFails
  BY <1>12 DEF AloneInv, StagingInv, Due, Filled, Fillable, SwapFails
<1>13. CASE DropStaging
  BY <1>13 DEF AloneInv, StagingInv, Due, Filled, Fillable, DropStaging
<1>14. CASE Kill
  BY <1>14 DEF AloneInv, StagingInv, Due, Filled, Fillable, Kill
<1>15. CASE Crash
  BY <1>15 DEF AloneInv, StagingInv, LoggedInv, Crash
<1>16. CASE Ingest
  <2>1. PICK x \in Rows \ DOMAIN table :
            table' = [r \in DOMAIN table \cup {x} |-> IF r = x THEN {} ELSE table[r]]
    BY <1>16 DEF Ingest
  <2> QED
    BY <1>16, <2>1 DEF AloneInv, StagingInv, Ingest
<1>17. CASE PriceUnlisted
  BY <1>17, UnlistedPriced DEF AloneInv, StagingInv
<1>18. CASE UNCHANGED vars
  BY <1>18 DEF AloneInv, StagingInv, Due, Filled, Fillable, vars
<1> QED
  BY <1>1, <1>2, <1>3, <1>4, <1>5, <1>6, <1>7, <1>8, <1>9, <1>10, <1>11,
     <1>12, <1>13, <1>14, <1>15, <1>16, <1>17, <1>18 DEF Next

\* and CopyInv.
LEMMA CopyStep ==
  ASSUME TableSwapAssumption, TypeOK, TypeOK', AloneInv, [Next]_vars, alone'
  PROVE  CopyInv'
<1>1. CASE StartFill
  BY <1>1 DEF AloneInv, CopyInv, Copying, Whole, Due, Filled, Fillable, StartFill
<1>2. CASE Flush
  <2>1. PICK batch \in SUBSET todo : staging' = staging \cup batch
    BY <1>2 DEF Flush
  <2>2. batch \subseteq Due /\ staging \in SUBSET Rows /\ staging # None
    BY <1>2, <2>1 DEF AloneInv, StagingInv, Flush, TypeOK, TableSwapAssumption
  <2>3. UNCHANGED <<name, pc, script, table, copy>> /\ pc = "scan"
    BY <1>2 DEF Flush
  <2>4. Due' = Due /\ Whole' = Whole
    BY <2>3 DEF Due, Filled, Fillable, Whole
  <2> QED
    BY <2>1, <2>2, <2>3, <2>4 DEF AloneInv, CopyInv, Copying
<1>3. CASE Scanned
  BY <1>3 DEF AloneInv, CopyInv, Copying, Whole, Due, Filled, Fillable, Scanned
<1>4. CASE StartRewrite
  BY <1>4 DEF AloneInv, CopyInv, Copying, Whole, Due, Filled, Fillable, StartRewrite
<1>5. CASE SkipInsert
  <2>1. copy.by = "fill" /\ copy # None /\ copy.rows # <<>>
    BY <1>5, CopiedHasRows DEF AloneInv, OwnerInv, SkipInsert
  <2>2. staging # None
    BY <1>5 DEF SkipInsert, TypeOK, TableSwapAssumption
  <2>3. Whole /\ \A r \in staging : "value" \in copy.rows[r]
    BY <2>1, <2>2 DEF AloneInv, CopyInv
  <2>4. \/ Cardinality(staging) > ENOUGH_STAGED
        \/ \A r \in Due : "value" \in copy.rows[r]
    BY <2>1 DEF AloneInv, CopyInv
  <2>5. UNCHANGED <<name, script, table, copy, staging>> /\ pc' = "index"
    BY <1>5 DEF SkipInsert
  <2>6. Whole' = Whole /\ Due' = Due
    BY <2>5 DEF Whole, Due, Filled, Fillable
  <2> QED
    BY <2>2, <2>3, <2>4, <2>5, <2>6 DEF CopyInv
<1>6. CASE DropCopy
  BY <1>6 DEF AloneInv, CopyInv, Copying, Whole, Due, Filled, Fillable, DropCopy
<1>7. CASE CreateCopy
  <2>1. copy'.rows = <<>> /\ pc' = "insert"
    BY <1>7 DEF CreateCopy
  <2> QED
    BY <2>1 DEF CopyInv, Copying
<1>8. CASE InsertCopy
  <2>1. copy'.rows = [r \in DOMAIN table |-> Joined(r)]
    BY <1>8, Inserted
  <2>2. UNCHANGED <<name, script, table, staging>> /\ pc = "insert" /\ pc' # "scan"
    BY <1>8 DEF InsertCopy
  <2>3. copy.by = script /\ copy'.by = script
    BY <1>8, <2>2, Inserted DEF AloneInv, OwnerInv, Copying
  <2>4. Whole'
    BY <2>1, <2>2 DEF Whole, Joined
  <2>5. CASE script = "fill"
    <3>1. staging # None /\ staging \subseteq DOMAIN table
      BY <2>2, <2>5 DEF AloneInv, StagingInv, TypeOK, TableSwapAssumption
    <3>2. \A r \in staging : "value" \in copy'.rows[r]
      <4>1. \A r \in staging : "value" \in Joined(r)
        BY <2>5 DEF Joined, UnloggedCopy
      <4>2. \A r \in staging : copy'.rows[r] = Joined(r)
        BY <2>1, <3>1
      <4> QED
        BY <4>1, <4>2
    <3>3. Due' = Due
      BY <2>2 DEF Due, Filled, Fillable
    <3>4. Cardinality(staging) > ENOUGH_STAGED \/ Due \subseteq staging
      BY <2>2, <2>5 DEF AloneInv, StagingInv
    <3> QED
      BY <2>2, <2>4, <3>1, <3>2, <3>3, <3>4 DEF CopyInv, Copying
  <2>6. CASE script # "fill"
    BY <2>2, <2>3, <2>4, <2>6 DEF CopyInv, Copying
  <2> QED
    BY <2>5, <2>6
<1>9. CASE SetLogged
  BY <1>9, SameRows DEF AloneInv, OwnerInv, CopyInv, Whole, Due, Filled, Fillable, Copying,
     UnloggedCopy, SetLogged
<1>10. CASE BuildIndexes
  BY <1>10, SameRows DEF AloneInv, OwnerInv, CopyInv, Whole, Due, Filled, Fillable, Copying,
     BuildIndexes
<1>11. CASE Swap
  <2>1. copy' = None /\ pc' \in {"idle", "cleanup"}
    BY <1>11 DEF Swap
  <2> QED
    BY <2>1 DEF CopyInv, Copying
<1>12. CASE SwapFails
  BY <1>12 DEF AloneInv, CopyInv, Copying, Whole, Due, Filled, Fillable, SwapFails
<1>13. CASE DropStaging
  <2>1. copy' = None /\ pc' = "idle"
    BY <1>13 DEF AloneInv, OwnerInv, DropStaging
  <2> QED
    BY <2>1 DEF CopyInv, Copying
<1>14. CASE Kill
  BY <1>14 DEF AloneInv, CopyInv, Copying, Whole, Due, Filled, Fillable, Kill
<1>15. CASE Crash
  <2>1. table' = table /\ staging' = staging /\ name' = name /\ pc' = "idle"
    BY <1>15 DEF AloneInv, LoggedInv, Crash
  <2>2. CASE copy' = copy
    BY <2>1, <2>2 DEF AloneInv, CopyInv, Copying, Whole, Due, Filled, Fillable
  <2>3. CASE copy # None /\ copy' = [copy EXCEPT !.rows = <<>>]
    <3>1. copy'.rows = <<>>
      BY <2>3 DEF TypeOK, Copies
    <3> QED
      BY <2>1, <3>1 DEF CopyInv, Copying
  <2> QED
    BY <1>15, <2>2, <2>3 DEF Crash
<1>16. CASE Ingest
  <2>1. copy' = None /\ pc' = "idle"
    BY <1>16 DEF Ingest
  <2> QED
    BY <2>1 DEF CopyInv, Copying
<1>17. CASE PriceUnlisted
  BY <1>17, UnlistedPriced DEF AloneInv, CopyInv, Copying
<1>18. CASE UNCHANGED vars
  BY <1>18 DEF AloneInv, CopyInv, Copying, Whole, Due, Filled, Fillable, vars
<1> QED
  BY <1>1, <1>2, <1>3, <1>4, <1>5, <1>6, <1>7, <1>8, <1>9, <1>10, <1>11,
     <1>12, <1>13, <1>14, <1>15, <1>16, <1>17, <1>18 DEF Next

---------------------------------------------------------------------------
\* A swap that is not alone stays so.
LEMMA StaysAlone ==
  ASSUME TypeOK, [Next]_vars, alone'
  PROVE  alone
  BY DEF TypeOK, Next, vars, StartFill, Flush, Scanned, StartRewrite, SkipInsert, DropCopy,
     CreateCopy, InsertCopy, SetLogged, BuildIndexes, Swap, SwapFails, DropStaging, Kill,
     Crash, Ingest, PriceUnlisted

\* The first state has the invariant.
LEMMA InitInv == TableSwapAssumption /\ Init => IInv
<1> SUFFICES ASSUME TableSwapAssumption, Init PROVE AloneInv
  BY InitTypes DEF IInv
<1>1. pc = "idle" /\ copy = None /\ staging = None /\ logged = TRUE
  BY DEF Init
<1> QED
  BY <1>1 DEF AloneInv, LoggedInv, OwnerInv, StagingInv, CopyInv, Copying

\* Every step keeps it.
LEMMA NextInv == TableSwapAssumption /\ IInv /\ [Next]_vars => IInv'
<1> SUFFICES ASSUME TableSwapAssumption, IInv, [Next]_vars PROVE IInv'
  OBVIOUS
<1>1. TypeOK /\ TypeOK'
  BY NextTypes DEF IInv
<1>2. ASSUME alone' PROVE AloneInv'
  <2>1. AloneInv
    BY <1>1, <1>2, StaysAlone DEF IInv
  <2> QED
    BY <1>1, <1>2, <2>1, LoggedStep, OwnerStep, StagingStep, CopyStep DEF AloneInv
<1> QED
  BY <1>1, <1>2 DEF IInv

\* From a state with the invariant a step loses nothing of the table.
LEMMA NextKeeps == TableSwapAssumption /\ IInv /\ [Next]_vars => KeepsTheTable
<1> SUFFICES ASSUME TableSwapAssumption, TypeOK, AloneInv, [Next]_vars, alone'
             PROVE  /\ \A r \in DOMAIN table :
                           r \in DOMAIN table' /\ (table[r] \cap Listed) \subseteq table'[r]
                    /\ staging' = None /\ staging # None => \A r \in staging : Filled(r)
  BY StaysAlone DEF IInv, KeepsTheTable
<1>1. CASE Swap
  BY <1>1 DEF AloneInv, CopyInv, Whole, Swap
<1>2. CASE DropStaging
  BY <1>2 DEF AloneInv, StagingInv, DropStaging
<1>3. CASE Crash
  BY <1>3 DEF AloneInv, LoggedInv, Crash
<1>4. CASE Ingest
  <2>1. PICK x \in Rows \ DOMAIN table :
            table' = [r \in DOMAIN table \cup {x} |-> IF r = x THEN {} ELSE table[r]]
    BY <1>4 DEF Ingest
  <2> QED
    BY <1>4, <2>1 DEF Ingest
<1>5. CASE StartFill \/ Flush
  <2>1. staging' # None \/ staging' = staging
    BY <1>5, {} \in SUBSET Rows DEF StartFill, Flush, TypeOK, TableSwapAssumption
  <2> QED
    BY <1>5, <2>1 DEF StartFill, Flush
<1>6. CASE UNCHANGED <<table, staging>>
  BY <1>6
<1>7. CASE PriceUnlisted
  BY <1>7, UnlistedPriced DEF PriceUnlisted
<1> QED
  BY <1>1, <1>2, <1>3, <1>4, <1>5, <1>6, <1>7 DEF Next, vars, Scanned, StartRewrite, SkipInsert,
     DropCopy, CreateCopy, InsertCopy, SetLogged, BuildIndexes, SwapFails, Kill

\* In every behaviour, whatever the rows and however often the scripts are killed
\* or the machine goes down, no swap loses a row of the table or anything in the
\* columns that the scripts list, and no staged value is dropped before the table
\* has it, while nothing else comes between a killed fill and its next run:
\* ingest_dem_ctas.py and recompute_cost_views_ctas.py go on with the copy they find.
THEOREM SwapsKeep == TableSwapAssumption => (Spec => SwapsKeepTheTable)
<1> SUFFICES ASSUME TableSwapAssumption PROVE Spec => SwapsKeepTheTable
  OBVIOUS
<1>1. Init => IInv
  BY InitInv
<1>2. IInv /\ [Next]_vars => IInv'
  BY NextInv
<1>3. IInv /\ [Next]_vars => KeepsTheTable
  BY NextKeeps
<1> QED
  BY <1>1, <1>2, <1>3, PTL DEF Spec, SwapsKeepTheTable

---------------------------------------------------------------------------
\* Ranking

\* A finite set is ranked whole, and in the order of a total relation.
LEMMA RankedIsOrder ==
  ASSUME NEW S, IsFiniteSet(S), NEW R,
         \A i \in S : <<i, i>> \notin R,
         \A i, j, k \in S : <<i, j>> \in R /\ <<j, k>> \in R => <<i, k>> \in R,
         \A i, j \in S : i # j => <<i, j>> \in R \/ <<j, i>> \in R
  PROVE  /\ Ranked(S, R) \in [1..Cardinality(S) -> S]
         /\ \A i \in S : \E n \in 1..Cardinality(S) : Ranked(S, R)[n] = i
         /\ \A m, n \in 1..Cardinality(S) :
                m < n => <<Ranked(S, R)[m], Ranked(S, R)[n]>> \in R
<1> DEFINE below(i) == {j \in S : <<j, i>> \in R}
           rank == [i \in S |-> Cardinality(below(i)) + 1]
           N == Cardinality(S)
<1>1. N \in Nat
  BY FS_CardinalityType
<1>2. ASSUME NEW i \in S  PROVE IsFiniteSet(below(i)) /\ Cardinality(below(i)) \in Nat
                                /\ Cardinality(below(i)) < N
  <2>1. below(i) \in SUBSET S /\ below(i) # S
    OBVIOUS
  <2> HIDE DEF below
  <2> QED
    BY <2>1, <1>1, FS_Subset, FS_CardinalityType
<1>3. ASSUME NEW i \in S, NEW j \in S, <<i, j>> \in R  PROVE rank[i] < rank[j]
  <2>1. below(i) \in SUBSET below(j)
    BY <1>3, Zenon
  <2>2. i \in below(j) /\ i \notin below(i)
    BY <1>3, Zenon
  <2>3. rank[i] = Cardinality(below(i)) + 1 /\ rank[j] = Cardinality(below(j)) + 1
    OBVIOUS
  <2> HIDE DEF below, rank
  <2>4. Cardinality(below(i)) <= Cardinality(below(j)) /\ Cardinality(below(i)) # Cardinality(below(j))
    BY <2>1, <2>2, <1>2, FS_Subset
  <2> QED
    BY <2>3, <2>4, <1>2
<1>4. rank \in [S -> 1..N]
  <2> SUFFICES ASSUME NEW i \in S PROVE Cardinality(below(i)) + 1 \in 1..N
    OBVIOUS
  <2> HIDE DEF below
  <2> QED
    BY <1>1, <1>2
<1> HIDE DEF N
<1>5. \A i, j \in S : rank[i] = rank[j] => i = j
  <2> SUFFICES ASSUME NEW i \in S, NEW j \in S, i # j PROVE rank[i] # rank[j]
    OBVIOUS
  <2>1. rank[i] < rank[j] \/ rank[j] < rank[i]
    <3> HIDE DEF rank
    <3> QED BY <1>3
  <2>2. rank[i] \in Int /\ rank[j] \in Int
    <3> HIDE DEF rank
    <3> QED BY <1>4, <1>1
  <2> HIDE DEF rank
  <2> QED
    BY <2>1, <2>2
<1>6. rank \in Surjection(S, 1..N)
  <2> HIDE DEF rank
  <2>1. rank \in Injection(S, 1..N)
    BY <1>4, <1>5 DEF Injection, IsInjective
  <2>2. IsFiniteSet(1..N) /\ Cardinality(1..N) = N
    BY <1>1, FS_Interval
  <2> QED
    BY <2>1, <2>2, FS_Injection DEF N
<1>7. \A n \in 1..N : \E i \in S : rank[i] = n
  <2> HIDE DEF rank
  <2> QED
    BY <1>6 DEF Surjection
<1> DEFINE q == Ranked(S, R)
           pick(n) == CHOOSE i \in S : Cardinality({j \in S : <<j, i>> \in R}) = n - 1
<1>8. q = [n \in 1..Cardinality(S) |-> pick(n)]
  BY Zenon DEF Ranked
<1>9. ASSUME NEW n \in 1..N  PROVE q[n] \in S /\ rank[q[n]] = n
  <2>1. PICK i \in S : rank[i] = n
    BY <1>7
  <2>2. Cardinality({j \in S : <<j, i>> \in R}) = n - 1
    <3>1. rank[i] = Cardinality(below(i)) + 1
      OBVIOUS
    <3>2. Cardinality(below(i)) = n - 1
      <4> HIDE DEF below, rank
      <4> QED BY <3>1, <2>1, <1>2, <1>1
    <3> QED
      BY <3>2, Zenon
  <2>3. n \in 1..Cardinality(S)
    BY DEF N
  <2>4. q[n] = pick(n)
    <3> HIDE DEF q, pick
    <3> QED BY <1>8, <2>3
  <2>5. q[n] \in S /\ Cardinality({j \in S : <<j, q[n]>> \in R}) = n - 1
    <3> HIDE DEF q
    <3> QED BY <2>2, <2>4, Zenon
  <2>6. Cardinality(below(q[n])) = n - 1
    <3> HIDE DEF q
    <3> QED BY <2>5, Zenon
  <2>7. rank[q[n]] = Cardinality(below(q[n])) + 1
    <3> HIDE DEF q
    <3> QED BY <2>5
  <2> HIDE DEF below, rank, q
  <2> QED
    BY <2>5, <2>6, <2>7, <1>1
<1> HIDE DEF rank
<1>10. q \in [1..N -> S]
  <2>1. \A n \in 1..N : q[n] \in S
    BY <1>9
  <2>2. q = [n \in 1..N |-> q[n]]
    <3> HIDE DEF q
    <3> HIDE DEF pick
    <3>1. q = [n \in DOMAIN q |-> q[n]] /\ DOMAIN q = 1..Cardinality(S)
      BY <1>8
    <3> QED
      BY <3>1 DEF N
  <2> HIDE DEF q
  <2> QED
    BY <2>1, <2>2
<1>11. \A i \in S : \E n \in 1..N : q[n] = i
  <2> HIDE DEF q
  <2> QED BY <1>4, <1>5, <1>9
<1>12. ASSUME NEW m \in 1..N, NEW n \in 1..N, m < n  PROVE <<q[m], q[n]>> \in R
  <2>1. q[m] \in S /\ q[n] \in S /\ rank[q[m]] = m /\ rank[q[n]] = n
    BY <1>9
  <2> HIDE DEF q
  <2>2. q[m] # q[n]
    BY <2>1, <1>12
  <2>3. <<q[m], q[n]>> \in R \/ <<q[n], q[m]>> \in R
    BY <2>1, <2>2
  <2>4. <<q[n], q[m]>> \in R => rank[q[n]] < rank[q[m]]
    BY <2>1, <1>3
  <2> QED
    BY <2>1, <2>3, <2>4, <1>12
<1> QED
  BY <1>10, <1>11, <1>12 DEF N

---------------------------------------------------------------------------
(***************************************************************************)
(* AnchorSelect.  `pass` is its pc, `line` its queue: the places the pass  *)
(* still has to look at.                                                   *)
(***************************************************************************)
CONSTANTS Lists, PIER_DEDUP_M, PIER_EATS_TOWN_M, MIN_SPACING_M
VARIABLES pass, places, keep, line, absorbed
Select == INSTANCE AnchorSelect WITH pc <- pass, queue <- line

\* A selection's ranking is this one.
LEMMA SelectRanked ==
  \A S, R : Select!Ranked(S, R) = Ranked(S, R)
BY Zenon DEF Select!Ranked, Ranked, Select!Cardinality, Cardinality

---------------------------------------------------------------------------
Place == [kind : {"db", "village", "ferry_pier"}, lon : Int, pop : Nat]

SelectTypeOK ==
    /\ pass \in {"dedup", "eat", "drop", "written"}
    /\ places \in Seq(Place)
    /\ keep \in SUBSET DOMAIN places
    /\ line \in Seq(DOMAIN places)
    /\ pass = "written" => line = <<>>

\* The line of a pass: every place once; in the first two passes piers, and in the
\* second those that were kept.
LineInv ==
    /\ \A m, n \in DOMAIN line : m # n => line[m] # line[n]
    /\ pass \in {"dedup", "eat"} => \A n \in DOMAIN line : line[n] \in Select!Piers
    /\ pass = "eat" => \A n \in DOMAIN line : line[n] \in keep

Waits(i) == \E n \in DOMAIN line : line[n] = i
Harbours == Select!Piers \cap keep
Uneaten == {i \in Select!Towns :
              \A p \in Harbours : Select!Distance(i, p) > PIER_EATS_TOWN_M}

\* Piers the first pass has been at keep their distance from all others, and one
\* of them accounts for every pier that is gone.
PiersInv ==
    /\ \A i, p \in Harbours :
          i # p /\ (pass = "dedup" => ~Waits(p)) => Select!Distance(i, p) > PIER_DEDUP_M
    /\ \A i \in Select!Piers \ keep : \E p \in Harbours :
          (pass = "dedup" => ~Waits(p)) /\ Select!Distance(i, p) <= PIER_DEDUP_M

\* A pier in whose reach a town is still kept has yet to eat; afterwards the
\* towns kept are out of reach of every pier.
EatInv ==
    /\ pass = "dedup" => Select!Towns \subseteq keep
    /\ pass = "eat" => \A i \in Select!Towns :
          IF i \in keep
          THEN \A p \in Harbours : Select!Distance(i, p) <= PIER_EATS_TOWN_M => Waits(p)
          ELSE i \notin Uneaten
    /\ pass \in {"drop", "written"} => keep \cap Select!Towns \subseteq Uneaten

\* The last pass goes up in population; whoever it has been at was kept if no
\* neighbour comes later in that order, dropped ones included.
DropInv ==
    pass \in {"drop", "written"} =>
      /\ \A m, n \in DOMAIN line : m < n => Select!Before(line[m], line[n])
      /\ \A i \in Uneaten : Waits(i) => i \in keep
      /\ \A i, j \in Uneaten : ~Waits(i) /\ Waits(j) => Select!Before(i, j)
      /\ \A i \in Uneaten : ~Waits(i) =>
            (i \in keep <=> \A j \in Select!Within(i, MIN_SPACING_M) \cap Uneaten :
                                ~Select!Before(i, j))

SelectInv == SelectTypeOK /\ LineInv /\ PiersInv /\ EatInv /\ DropInv

---------------------------------------------------------------------------
LEMMA LeastNat ==
  ASSUME NEW S \in SUBSET Nat, S # {}
  PROVE  \E x \in S : \A y \in S : x <= y
<1> DEFINE R == OpToRel(<, Nat)
<1>1. \E x \in S : \A y \in S : <<y, x>> \notin R
  BY WFMin, NatLessThanWellFounded
<1>2. \A x, y \in Nat : <<x, y>> \in R <=> x < y
  BY DEF OpToRel
<1> HIDE DEF R
<1>3. PICK x \in S : \A y \in S : <<y, x>> \notin R
  BY <1>1
<1>4. \A y \in S : ~ (y < x)
  BY <1>2, <1>3
<1>5. \A y \in S : x <= y
  BY <1>4
<1> QED
  BY <1>5

LEMMA PlaceFacts ==
  ASSUME places \in Seq(Place)
  PROVE  \A i \in DOMAIN places :
            /\ i \in Nat
            /\ places[i].lon \in Int /\ places[i].pop \in Nat
<1>1. \A i \in DOMAIN places : i \in Nat /\ places[i] \in Place
  OBVIOUS
<1>2. \A x \in Place : x.lon \in Int /\ x.pop \in Nat
  BY DEF Place
<1> QED
  BY <1>1, <1>2

LEMMA PlacesFinite ==
  ASSUME places \in Seq(Place), NEW S \in SUBSET DOMAIN places
  PROVE  IsFiniteSet(S) /\ Cardinality(S) \in Nat
<1>1. DOMAIN places = 1..Len(places) /\ Len(places) \in Nat
  OBVIOUS
<1>2. IsFiniteSet(DOMAIN places)
  BY <1>1, FS_Interval
<1> QED
  BY <1>2, FS_Subset, FS_CardinalityType

\* A pass looks at every place it is given.
LEMMA AscendingIsAll ==
  ASSUME places \in Seq(Place), NEW S \in SUBSET DOMAIN places
  PROVE  LET q == Select!Ascending(S) IN
         /\ q \in Seq(S)
         /\ \A i \in S : \E n \in DOMAIN q : q[n] = i
         /\ \A m, n \in DOMAIN q : m # n => q[m] # q[n]
<1> DEFINE R == {p \in S \X S : p[1] < p[2]}
<1>1. S \subseteq Int
  OBVIOUS
<1>2. \A i, j \in S : <<i, j>> \in R <=> i < j
  OBVIOUS
<1>3. Select!Ascending(S) = Ranked(S, R)
  BY SelectRanked DEF Select!Ascending
<1> HIDE DEF R
<1>4. /\ \A i \in S : <<i, i>> \notin R
      /\ \A i, j, k \in S : <<i, j>> \in R /\ <<j, k>> \in R => <<i, k>> \in R
      /\ \A i, j \in S : i # j => <<i, j>> \in R \/ <<j, i>> \in R
  BY <1>1, <1>2
<1> DEFINE q == Ranked(S, R)
           N == Cardinality(S)
<1>5. /\ q \in [1..N -> S]
      /\ \A i \in S : \E n \in 1..N : q[n] = i
      /\ \A m, n \in 1..N : m < n => <<q[m], q[n]>> \in R
  BY <1>4, PlacesFinite, RankedIsOrder
<1>6. N \in Nat
  BY PlacesFinite
<1> HIDE DEF q, N
<1>7. q \in Seq(S) /\ Len(q) = N /\ DOMAIN q = 1..N
  BY <1>5, <1>6
<1>8. ASSUME NEW m \in 1..N, NEW n \in 1..N, m # n  PROVE q[m] # q[n]
  <2>1. m < n \/ n < m
    BY <1>6, <1>8
  <2>2. q[m] < q[n] \/ q[n] < q[m]
    BY <1>2, <1>5, <2>1
  <2> QED
    BY <1>1, <1>5, <2>2
<1> QED
  BY <1>3, <1>5, <1>7, <1>8 DEF q, N

LEMMA ByPopulationIsAll ==
  ASSUME places \in Seq(Place), NEW S \in SUBSET DOMAIN places
  PROVE  LET q == Select!ByPopulation(S) IN
         /\ q \in Seq(S) /\ Len(q) = Cardinality(S)
         /\ \A i \in S : \E n \in DOMAIN q : q[n] = i
         /\ \A m, n \in DOMAIN q : m < n => Select!Before(q[m], q[n])
<1> DEFINE R == {p \in S \X S : Select!Before(p[1], p[2])}
<1>1. S \subseteq Int /\ \A i \in S : places[i].pop \in Int
  BY PlaceFacts
<1>2. \A i, j \in S : <<i, j>> \in R <=> Select!Before(i, j)
  OBVIOUS
<1>3. Select!ByPopulation(S) = Ranked(S, R)
  BY SelectRanked DEF Select!ByPopulation
<1> HIDE DEF R
<1>4. /\ \A i \in S : <<i, i>> \notin R
      /\ \A i, j, k \in S : <<i, j>> \in R /\ <<j, k>> \in R => <<i, k>> \in R
      /\ \A i, j \in S : i # j => <<i, j>> \in R \/ <<j, i>> \in R
  BY <1>1, <1>2 DEF Select!Before
<1> DEFINE q == Ranked(S, R)
           N == Cardinality(S)
<1>5. /\ q \in [1..N -> S]
      /\ \A i \in S : \E n \in 1..N : q[n] = i
      /\ \A m, n \in 1..N : m < n => <<q[m], q[n]>> \in R
  BY <1>4, PlacesFinite, RankedIsOrder
<1>6. N \in Nat
  BY PlacesFinite
<1> HIDE DEF q, N
<1>7. q \in Seq(S) /\ Len(q) = N /\ DOMAIN q = 1..N
  BY <1>5, <1>6
<1>8. \A m, n \in 1..N : m < n => Select!Before(q[m], q[n])
  BY <1>2, <1>5
<1> QED
  BY <1>3, <1>5, <1>7, <1>8 DEF q, N

\* There is a most populous one among any towns.
LEMMA BestTownIsOne ==
  ASSUME places \in Seq(Place), NEW S \in SUBSET DOMAIN places, S # {}
  PROVE  Select!BestTown(S) \in S
<1> DEFINE q == Select!ByPopulation(S)
           best == {j \in S : \A k \in S : places[k].pop <= places[j].pop}
<1>1. /\ q \in Seq(S) /\ Len(q) = Cardinality(S)
      /\ \A i \in S : \E n \in DOMAIN q : q[n] = i
      /\ \A m, n \in DOMAIN q : m < n => Select!Before(q[m], q[n])
  BY ByPopulationIsAll
<1>2. S \subseteq Nat /\ \A i \in S : places[i].pop \in Nat
  BY PlaceFacts
<1> HIDE DEF q
<1>3. Len(q) \in DOMAIN q
  BY <1>1
<1>4. q[Len(q)] \in S
  BY <1>1, <1>3
<1>5. ASSUME NEW k \in S  PROVE places[k].pop <= places[q[Len(q)]].pop
  <2>1. PICK n \in DOMAIN q : q[n] = k
    BY <1>1
  <2>2. n = Len(q) \/ n < Len(q)
    BY <1>1
  <2>3. k = q[Len(q)] \/ Select!Before(k, q[Len(q)])
    BY <1>1, <1>3, <2>1, <2>2
  <2> QED
    BY <1>2, <1>4, <2>3 DEF Select!Before
<1>6. best # {} /\ best \in SUBSET Nat
  BY <1>2, <1>4, <1>5
<1>7. Select!BestTown(S) = Select!Least(best)
  BY DEF Select!BestTown
<1> HIDE DEF best
<1>8. Select!Least(best) \in best
  BY <1>6, LeastNat DEF Select!Least
<1> QED
  BY <1>7, <1>8 DEF best

LEMMA DistanceFacts ==
  ASSUME places \in Seq(Place)
  PROVE  \A i, j \in DOMAIN places :
            /\ Select!Distance(i, j) \in Int
            /\ Select!Distance(i, j) = Select!Distance(j, i)
BY PlaceFacts DEF Select!Distance

---------------------------------------------------------------------------
\* What a pass leaves waiting when it has looked at the first in line.
LEMMA OneServed ==
  ASSUME SelectTypeOK, LineInv, line # <<>>, line' = Tail(line)
  PROVE  /\ Head(line) \in DOMAIN places /\ Waits(Head(line))
         /\ line' \in Seq(DOMAIN places)
         /\ \A i : Waits(i)' <=> Waits(i) /\ i # Head(line)
         /\ \A m, n \in DOMAIN line' : m # n => line'[m] # line'[n]
         /\ \A n \in DOMAIN line' : n + 1 \in DOMAIN line /\ line'[n] = line[n + 1]
<1>1. line \in Seq(DOMAIN places) /\ Len(line) \in Nat /\ DOMAIN line = 1..Len(line)
  BY DEF SelectTypeOK
<1>2. Len(line) >= 1 /\ Head(line) = line[1] /\ 1 \in DOMAIN line
  BY <1>1
<1>3. /\ DOMAIN line' = 1..(Len(line) - 1)
      /\ \A n \in DOMAIN line' : n + 1 \in DOMAIN line /\ line'[n] = line[n + 1]
  BY <1>1, <1>2
<1>4. line' \in Seq(DOMAIN places)
  BY <1>1, <1>2
<1>5. ASSUME NEW i  PROVE Waits(i)' <=> Waits(i) /\ i # Head(line)
  <2>1. Waits(i)' => Waits(i) /\ i # Head(line)
    <3> SUFFICES ASSUME NEW n \in DOMAIN line', line'[n] = i  PROVE Waits(i) /\ i # Head(line)
      BY DEF Waits
    <3>1. n + 1 \in DOMAIN line /\ line[n + 1] = i /\ n + 1 # 1
      BY <1>3
    <3> QED
      BY <3>1, <1>2 DEF Waits, LineInv
  <2>2. Waits(i) /\ i # Head(line) => Waits(i)'
    <3> SUFFICES ASSUME NEW n \in DOMAIN line, line[n] = i, i # Head(line)  PROVE Waits(i)'
      BY DEF Waits
    <3>1. n # 1 /\ n - 1 \in DOMAIN line' /\ (n - 1) + 1 = n
      BY <1>1, <1>2, <1>3
    <3>2. line'[n - 1] = line[n]
      BY <3>1, <1>3
    <3> QED
      BY <3>1, <3>2 DEF Waits
  <2> QED
    BY <2>1, <2>2
<1>6. \A m, n \in DOMAIN line' : m # n => line'[m] # line'[n]
  BY <1>3 DEF LineInv
<1> QED
  BY <1>1, <1>2, <1>3, <1>4, <1>5, <1>6 DEF Waits

LEMMA SamePlaces ==
  ASSUME places' = places
  PROVE  /\ \A i, j : /\ Select!Distance(i, j)' = Select!Distance(i, j)
                      /\ Select!Before(i, j)' = Select!Before(i, j)
         /\ \A i : Select!Within(i, MIN_SPACING_M)' = Select!Within(i, MIN_SPACING_M)
         /\ Select!Towns' = Select!Towns /\ Select!Piers' = Select!Piers
BY DEF Select!Distance, Select!Before, Select!Within, Select!Towns, Select!Piers,
       Select!IsPier

LEMMA Inland ==
  /\ Select!Piers = {i \in DOMAIN places : Select!IsPier(i)}
  /\ Select!Towns = {i \in DOMAIN places : ~Select!IsPier(i)}
BY DEF Select!Piers, Select!Towns

LEMMA SelectInit ==
  ASSUME Select!AnchorSelectAssumption, Select!Init
  PROVE  SelectInv
<1>1. places \in Seq(Place)
  BY DEF Select!AnchorSelectAssumption, Select!Init, Place
<1>2. line = Select!Ascending(Select!Piers) /\ Select!Piers \in SUBSET DOMAIN places
  BY Inland DEF Select!Init
<1>3. /\ line \in Seq(Select!Piers)
      /\ \A i \in Select!Piers : \E n \in DOMAIN line : line[n] = i
      /\ \A m, n \in DOMAIN line : m # n => line[m] # line[n]
  BY <1>1, <1>2, AscendingIsAll
<1>4. line \in Seq(DOMAIN places) /\ \A n \in DOMAIN line : line[n] \in Select!Piers
  BY <1>2, <1>3
<1>5. pass = "dedup" /\ keep = DOMAIN places
  BY DEF Select!Init
<1>6. SelectTypeOK /\ LineInv
  BY <1>1, <1>3, <1>4, <1>5 DEF SelectTypeOK, LineInv
<1>7. PiersInv
  BY <1>2, <1>3, <1>5 DEF PiersInv, Harbours, Waits
<1>8. EatInv /\ DropInv
  BY <1>5, Inland DEF EatInv, DropInv
<1> QED
  BY <1>6, <1>7, <1>8 DEF SelectInv

LEMMA DedupPierKeeps ==
  ASSUME Select!AnchorSelectAssumption, SelectInv, Select!DedupPier
  PROVE  SelectInv'
<1>0. PICK h : h = Head(line)
  OBVIOUS
<1> DEFINE near == {j \in Select!Within(h, PIER_DEDUP_M) : Select!IsPier(j)}
<1>1. /\ pass = "dedup" /\ pass' = "dedup" /\ line # <<>> /\ line' = Tail(line)
      /\ places' = places
      /\ keep' = IF h \notin keep THEN keep ELSE keep \ near
  BY <1>0 DEF Select!DedupPier
<1>2. SelectTypeOK /\ LineInv /\ PiersInv /\ EatInv
  BY DEF SelectInv
<1>3. /\ h \in DOMAIN places /\ Waits(h) /\ line' \in Seq(DOMAIN places)
      /\ \A i : Waits(i)' <=> Waits(i) /\ i # h
      /\ \A m, n \in DOMAIN line' : m # n => line'[m] # line'[n]
      /\ \A n \in DOMAIN line' : n + 1 \in DOMAIN line /\ line'[n] = line[n + 1]
  BY <1>0, <1>1, <1>2, OneServed
<1>4. h \in Select!Piers
  BY <1>1, <1>2, <1>3 DEF LineInv, Waits
<1>5. /\ \A i, j : Select!Distance(i, j)' = Select!Distance(i, j)
      /\ Select!Towns' = Select!Towns /\ Select!Piers' = Select!Piers
  BY <1>1, SamePlaces
<1>6. /\ near = {j \in Select!Piers : j # h /\ Select!Distance(h, j) <= PIER_DEDUP_M}
      /\ Select!Piers \cap Select!Towns = {} /\ Select!Piers \subseteq DOMAIN places
      /\ Select!Towns \subseteq DOMAIN places
  BY Inland DEF Select!Within
<1>7. \A i, j \in DOMAIN places : /\ Select!Distance(i, j) \in Int
                                 /\ Select!Distance(i, j) = Select!Distance(j, i)
  BY <1>2, DistanceFacts DEF SelectTypeOK
<1> HIDE DEF near
<1>8. SelectTypeOK' /\ LineInv'
  BY <1>1, <1>2, <1>3, <1>5 DEF SelectTypeOK, LineInv
<1>9. EatInv' /\ DropInv'
  BY <1>1, <1>2, <1>5, <1>6 DEF EatInv, DropInv
<1>10. keep' \subseteq keep /\ Harbours \subseteq Select!Piers
  BY <1>1 DEF Harbours
<1>12. PIER_DEDUP_M \in Nat
  BY DEF Select!AnchorSelectAssumption
<1>11. ASSUME NEW i \in Harbours', NEW p \in Harbours', i # p, ~Waits(p)'
       PROVE  Select!Distance(i, p) > PIER_DEDUP_M
  <2>1. i \in Harbours /\ p \in Harbours /\ i \in keep' /\ p \in keep'
    BY <1>5, <1>10 DEF Harbours
  <2>2. CASE ~Waits(p)
    BY <1>1, <1>2, <1>11, <2>1, <2>2 DEF PiersInv
  <2>3. CASE p = h
    <3>1. i \notin near
      BY <1>1, <2>1, <2>3 DEF Harbours
    <3>2. Select!Distance(h, i) \in Int /\ Select!Distance(h, i) = Select!Distance(i, h)
      BY <1>7, <1>3, <1>6, <1>10, <2>1
    <3>3. ~(Select!Distance(h, i) <= PIER_DEDUP_M)
      BY <3>1, <1>6, <1>10, <1>11, <2>1, <2>3
    <3> QED
      BY <3>2, <3>3, <2>3, <1>12
  <2> QED
    BY <1>3, <1>11, <2>2, <2>3
<1>13. ASSUME NEW i \in Select!Piers, i \notin keep'
       PROVE  \E p \in Harbours' : ~Waits(p)' /\ Select!Distance(i, p) <= PIER_DEDUP_M
  <2>1. CASE i \in keep
    <3>1. h \in keep /\ i \in near
      BY <1>1, <1>13, <2>1
    <3>2. h \in Harbours' /\ ~Waits(h)'
      BY <1>1, <1>3, <1>4, <1>5, <1>6, <3>1 DEF Harbours
    <3>3. Select!Distance(i, h) <= PIER_DEDUP_M
      BY <1>3, <1>6, <1>7, <3>1
    <3> QED
      BY <3>2, <3>3
  <2>2. CASE i \notin keep
    <3>1. PICK p \in Harbours : ~Waits(p) /\ Select!Distance(i, p) <= PIER_DEDUP_M
      BY <1>1, <1>2, <2>2 DEF PiersInv
    <3>2. ~Waits(p)' /\ p # h
      BY <1>3, <3>1
    <3>3. p \in keep'
      <4> SUFFICES ASSUME h \in keep, p \in near  PROVE FALSE
        BY <1>1, <3>1 DEF Harbours
      <4>1. h \in Harbours /\ Select!Distance(h, p) <= PIER_DEDUP_M
        BY <1>4, <1>6 DEF Harbours
      <4>2. Select!Distance(h, p) > PIER_DEDUP_M
        BY <1>1, <1>2, <3>1, <3>2, <4>1 DEF PiersInv
      <4>3. Select!Distance(h, p) \in Int
        BY <1>3, <1>6, <1>7
      <4> QED
        BY <4>1, <4>2, <4>3, <1>12
    <3> QED
      BY <1>5, <3>1, <3>2, <3>3 DEF Harbours
  <2> QED
    BY <2>1, <2>2
<1>14. PiersInv'
  BY <1>1, <1>5, <1>11, <1>13 DEF PiersInv
<1> QED
  BY <1>8, <1>9, <1>14 DEF SelectInv

LEMMA DedupDoneKeeps ==
  ASSUME SelectInv, Select!DedupDone
  PROVE  SelectInv'
<1> DEFINE S == {i \in keep : Select!IsPier(i)}
<1>1. /\ pass = "dedup" /\ pass' = "eat" /\ line = <<>>
      /\ places' = places /\ keep' = keep
      /\ line' = Select!Ascending(S)
  BY DEF Select!DedupDone
<1>2. SelectTypeOK /\ PiersInv /\ EatInv
  BY DEF SelectInv
<1>3. S = Harbours /\ S \in SUBSET DOMAIN places /\ S \subseteq keep
  BY <1>2, Inland DEF Harbours, SelectTypeOK
<1>4. places \in Seq(Place)
  BY <1>2 DEF SelectTypeOK
<1> HIDE DEF S
<1>5. /\ line' \in Seq(S)
      /\ \A i \in S : \E n \in DOMAIN line' : line'[n] = i
      /\ \A m, n \in DOMAIN line' : m # n => line'[m] # line'[n]
  BY <1>1, <1>3, <1>4, AscendingIsAll
<1>6. /\ \A i, j : Select!Distance(i, j)' = Select!Distance(i, j)
      /\ Select!Towns' = Select!Towns /\ Select!Piers' = Select!Piers
  BY <1>1, SamePlaces
<1>7. \A n \in DOMAIN line' : line'[n] \in S
  BY <1>5
<1>8. line' \in Seq(DOMAIN places)
  BY <1>3, <1>5
<1>9. SelectTypeOK'
  BY <1>1, <1>2, <1>8 DEF SelectTypeOK
<1>10. LineInv'
  BY <1>1, <1>3, <1>5, <1>6, <1>7 DEF LineInv, Harbours
<1>11. Harbours' = Harbours /\ \A p : ~Waits(p)
  BY <1>1, <1>6 DEF Harbours, Waits
<1>12. PiersInv'
  BY <1>1, <1>2, <1>6, <1>11 DEF PiersInv
<1>13. \A p \in Harbours : Waits(p)'
  BY <1>3, <1>5 DEF Waits
<1>14. EatInv' /\ DropInv'
  BY <1>1, <1>2, <1>6, <1>11, <1>13 DEF EatInv, DropInv
<1> QED
  BY <1>9, <1>10, <1>12, <1>14 DEF SelectInv

\* Eating changes a pier's population, nothing else about the places.
LEMMA EatenPlaces ==
  ASSUME SelectTypeOK, NEW h \in DOMAIN places, NEW n \in Nat,
         places' = [places EXCEPT ![h].pop = n]
  PROVE  /\ places' \in Seq(Place) /\ DOMAIN places' = DOMAIN places
         /\ \A i, j \in DOMAIN places : Select!Distance(i, j)' = Select!Distance(i, j)
         /\ Select!Towns' = Select!Towns /\ Select!Piers' = Select!Piers
<1>1. places \in Seq(Place) /\ places[h] \in Place
  BY DEF SelectTypeOK
<1>2. places' = [places EXCEPT ![h] = [places[h] EXCEPT !.pop = n]]
  OBVIOUS
<1>3. [places[h] EXCEPT !.pop = n] \in Place
  BY <1>1 DEF Place
<1>4. /\ [places[h] EXCEPT !.pop = n].kind = places[h].kind
      /\ [places[h] EXCEPT !.pop = n].lon = places[h].lon
  BY <1>1 DEF Place
<1>5. places' \in Seq(Place) /\ DOMAIN places' = DOMAIN places
  BY <1>1, <1>2, <1>3
<1>6. \A i \in DOMAIN places :
         places'[i].kind = places[i].kind /\ places'[i].lon = places[i].lon
  BY <1>2, <1>4
<1>7. \A i, j \in DOMAIN places : Select!Distance(i, j)' = Select!Distance(i, j)
  BY <1>6 DEF Select!Distance
<1>8. \A i \in DOMAIN places : Select!IsPier(i)' <=> Select!IsPier(i)
  BY <1>6 DEF Select!IsPier
<1>9. Select!Towns' = Select!Towns
  BY <1>5, <1>8 DEF Select!Towns
<1> QED
  BY <1>5, <1>7, <1>9 DEF Select!Piers

LEMMA EatTownsKeeps ==
  ASSUME Select!AnchorSelectAssumption, SelectInv, Select!EatTowns
  PROVE  SelectInv'
<1>0. PICK h : h = Head(line)
  OBVIOUS
<1> DEFINE eaten == {j \in Select!Within(h, PIER_EATS_TOWN_M) : j \in keep /\ ~Select!IsPier(j)}
           best == Select!BestTown(eaten)
           most == IF places[h].pop > places[best].pop THEN places[h].pop
                   ELSE places[best].pop
<1>1. /\ pass = "eat" /\ pass' = "eat" /\ line # <<>> /\ line' = Tail(line)
      /\ IF eaten = {} THEN places' = places /\ keep' = keep
         ELSE /\ keep' = keep \ eaten
              /\ places' = [places EXCEPT ![h].pop =
                    IF @ > places[best].pop THEN @ ELSE places[best].pop]
  BY <1>0 DEF Select!EatTowns
<1>2. SelectTypeOK /\ LineInv /\ PiersInv /\ EatInv
  BY DEF SelectInv
<1>3. /\ h \in DOMAIN places /\ Waits(h) /\ line' \in Seq(DOMAIN places)
      /\ \A i : Waits(i)' <=> Waits(i) /\ i # h
      /\ \A m, n \in DOMAIN line' : m # n => line'[m] # line'[n]
      /\ \A n \in DOMAIN line' : n + 1 \in DOMAIN line /\ line'[n] = line[n + 1]
  BY <1>0, <1>1, <1>2, OneServed
<1>4. h \in Harbours
  BY <1>1, <1>2, <1>3 DEF LineInv, Waits, Harbours
<1>5. places \in Seq(Place)
  BY <1>2 DEF SelectTypeOK
<1>6. /\ places' \in Seq(Place) /\ DOMAIN places' = DOMAIN places
      /\ \A i, j \in DOMAIN places : Select!Distance(i, j)' = Select!Distance(i, j)
      /\ Select!Towns' = Select!Towns /\ Select!Piers' = Select!Piers
  <2>1. CASE eaten = {}
    BY <1>1, <1>5, <2>1, SamePlaces
  <2>2. CASE eaten # {}
    <3>1. eaten \in SUBSET DOMAIN places
      BY DEF Select!Within
    <3>2. best \in DOMAIN places
      BY <1>5, <2>2, <3>1, BestTownIsOne
    <3>3. places[h].pop \in Nat /\ places[best].pop \in Nat
      BY <1>3, <1>5, <3>2, PlaceFacts
    <3> HIDE DEF best, eaten
    <3>4. places' = [places EXCEPT ![h].pop = most] /\ most \in Nat
      BY <1>1, <2>2, <3>3
    <3> HIDE DEF most
    <3> QED
      BY <1>2, <1>3, <3>4, EatenPlaces
  <2> QED
    BY <2>1, <2>2
<1>7. /\ eaten = {j \in Select!Towns \cap keep :
                     j # h /\ Select!Distance(h, j) <= PIER_EATS_TOWN_M}
      /\ Select!Piers \cap Select!Towns = {} /\ Select!Piers \subseteq DOMAIN places
      /\ Select!Towns \subseteq DOMAIN places
  BY Inland DEF Select!Within
<1>8. \A i, j \in DOMAIN places : /\ Select!Distance(i, j) \in Int
                                 /\ Select!Distance(i, j) = Select!Distance(j, i)
  BY <1>5, DistanceFacts
<1>9. PIER_EATS_TOWN_M \in Nat
  BY DEF Select!AnchorSelectAssumption
<1>10. keep' = keep \ eaten
  BY <1>1
<1> HIDE DEF eaten, best, most
<1>11. Harbours' = Harbours /\ Harbours \subseteq DOMAIN places
  BY <1>6, <1>7, <1>10 DEF Harbours
<1>12. SelectTypeOK'
  BY <1>1, <1>2, <1>3, <1>6, <1>10 DEF SelectTypeOK
<1>13. LineInv'
  BY <1>1, <1>2, <1>3, <1>6, <1>7, <1>10 DEF LineInv
<1>14. PiersInv'
  BY <1>1, <1>2, <1>6, <1>7, <1>10, <1>11 DEF PiersInv
<1>15. ASSUME NEW i \in Select!Towns, i \in keep', NEW p \in Harbours,
              Select!Distance(i, p) <= PIER_EATS_TOWN_M
       PROVE  Waits(p)'
  <2>1. Waits(p)
    BY <1>1, <1>2, <1>10, <1>15 DEF EatInv
  <2>2. p # h
    BY <1>3, <1>4, <1>7, <1>8, <1>10, <1>15 DEF Harbours
  <2> QED
    BY <1>3, <2>1, <2>2
<1>16. ASSUME NEW i \in Select!Towns, i \notin keep'
       PROVE  ~ \A p \in Harbours : Select!Distance(i, p) > PIER_EATS_TOWN_M
  <2>1. CASE i \in keep
    BY <1>3, <1>4, <1>7, <1>8, <1>9, <1>10, <1>16, <2>1
  <2>2. CASE i \notin keep
    BY <1>1, <1>2, <2>2 DEF EatInv, Uneaten
  <2> QED
    BY <2>1, <2>2
<1>17. \A i \in Select!Towns, p \in Harbours :
          Select!Distance(i, p)' = Select!Distance(i, p)
  BY <1>6, <1>7, <1>11
<1>18. EatInv' /\ DropInv'
  BY <1>1, <1>6, <1>11, <1>15, <1>16, <1>17 DEF EatInv, DropInv, Uneaten
<1> QED
  BY <1>12, <1>13, <1>14, <1>18 DEF SelectInv

LEMMA EatDoneKeeps ==
  ASSUME Select!AnchorSelectAssumption, SelectInv, Select!EatDone
  PROVE  SelectInv'
<1>1. /\ pass = "eat" /\ pass' = "drop" /\ line = <<>>
      /\ places' = places /\ keep' = keep
      /\ line' = Select!ByPopulation(keep)
  BY DEF Select!EatDone
<1>2. SelectTypeOK /\ PiersInv /\ EatInv
  BY DEF SelectInv
<1>3. places \in Seq(Place) /\ keep \in SUBSET DOMAIN places
  BY <1>2 DEF SelectTypeOK
<1>4. /\ line' \in Seq(keep)
      /\ \A i \in keep : \E n \in DOMAIN line' : line'[n] = i
      /\ \A m, n \in DOMAIN line' : m < n => Select!Before(line'[m], line'[n])
  BY <1>1, <1>3, ByPopulationIsAll
<1>5. /\ \A i, j : /\ Select!Distance(i, j)' = Select!Distance(i, j)
                   /\ Select!Before(i, j)' = Select!Before(i, j)
      /\ Select!Towns' = Select!Towns /\ Select!Piers' = Select!Piers
  BY <1>1, SamePlaces
<1>6. \A n \in DOMAIN line' : line'[n] \in keep
  BY <1>4
<1>7. SelectTypeOK'
  <2>1. line' \in Seq(DOMAIN places)
    BY <1>3, <1>4
  <2> QED
    BY <1>1, <1>2, <2>1 DEF SelectTypeOK
<1>8. ASSUME NEW m \in DOMAIN line', NEW n \in DOMAIN line', m # n
      PROVE  line'[m] # line'[n]
  <2>1. m < n \/ n < m
    BY <1>4, <1>8
  <2>2. Select!Before(line'[m], line'[n]) \/ Select!Before(line'[n], line'[m])
    BY <1>4, <2>1
  <2>3. line'[m] \in Nat /\ line'[n] \in Nat /\ places[line'[m]].pop \in Nat
        /\ places[line'[n]].pop \in Nat
    BY <1>3, <1>6, PlaceFacts
  <2> QED
    BY <2>2, <2>3 DEF Select!Before
<1>9. LineInv'
  BY <1>1, <1>8 DEF LineInv
<1>10. Harbours' = Harbours /\ Uneaten' = Uneaten
  BY <1>1, <1>5 DEF Harbours, Uneaten
<1>11. PiersInv'
  BY <1>1, <1>2, <1>5, <1>10 DEF PiersInv
<1>12. keep \cap Select!Towns = Uneaten
  <2>1. \A p : ~Waits(p)
    BY <1>1 DEF Waits
  <2>2. \A i \in Select!Towns, p \in Harbours : Select!Distance(i, p) \in Int
    BY <1>3, Inland, DistanceFacts DEF Harbours
  <2>3. PIER_EATS_TOWN_M \in Nat
    BY DEF Select!AnchorSelectAssumption
  <2> QED
    BY <1>1, <1>2, <2>1, <2>2, <2>3 DEF EatInv, Uneaten
<1>13. \A i \in keep : Waits(i)'
  BY <1>4 DEF Waits
<1>14. EatInv'
  BY <1>1, <1>5, <1>10, <1>12 DEF EatInv
<1>15. DropInv'
  BY <1>1, <1>4, <1>5, <1>10, <1>12, <1>13 DEF DropInv
<1> QED
  BY <1>7, <1>9, <1>11, <1>14, <1>15 DEF SelectInv

\* A place goes if a neighbour that may displace it is still kept, which is to
\* say, as the invariant has it, if it has a neighbour that comes later in order.
LEMMA GreedyDropoutKeeps ==
  ASSUME Select!AnchorSelectAssumption, SelectInv, Select!GreedyDropout
  PROVE  SelectInv'
<1>0. PICK h : h = Head(line)
  OBVIOUS
<1>1. /\ pass = "drop" /\ pass' = "drop" /\ line # <<>> /\ line' = Tail(line)
      /\ places' = places
      /\ keep' = IF ~Select!Protected(h) /\ Select!HasNeighbor(h) THEN keep \ {h} ELSE keep
  BY <1>0 DEF Select!GreedyDropout
<1>2. SelectTypeOK /\ LineInv /\ PiersInv /\ EatInv /\ DropInv
  BY DEF SelectInv
<1>3. /\ h \in DOMAIN places /\ Waits(h) /\ line' \in Seq(DOMAIN places)
      /\ \A i : Waits(i)' <=> Waits(i) /\ i # h
      /\ \A m, n \in DOMAIN line' : m # n => line'[m] # line'[n]
      /\ \A n \in DOMAIN line' : n + 1 \in DOMAIN line /\ line'[n] = line[n + 1]
  BY <1>0, <1>1, <1>2, OneServed
<1>4. /\ \A i, j : /\ Select!Distance(i, j)' = Select!Distance(i, j)
                   /\ Select!Before(i, j)' = Select!Before(i, j)
      /\ \A i : Select!Within(i, MIN_SPACING_M)' = Select!Within(i, MIN_SPACING_M)
      /\ Select!Towns' = Select!Towns /\ Select!Piers' = Select!Piers
  BY <1>1, SamePlaces
<1>5. h \in Select!Piers \/ h \in Select!Towns
  BY <1>3, Inland
<1>6. h \in Select!Piers => keep' = keep
  BY <1>1, Inland DEF Select!Protected
<1>7. Harbours' = Harbours /\ Uneaten' = Uneaten /\ keep' \subseteq keep
  BY <1>1, <1>4, <1>5, <1>6, Inland DEF Harbours, Uneaten
<1>8. /\ Select!Piers \cap Select!Towns = {} /\ Select!Piers \subseteq DOMAIN places
      /\ Select!Towns \subseteq DOMAIN places /\ Uneaten \subseteq Select!Towns
  BY Inland DEF Uneaten
<1>9. places \in Seq(Place)
  BY <1>2 DEF SelectTypeOK
<1>10. \A i \in DOMAIN places : i \in Nat /\ places[i].pop \in Nat
  BY <1>9, PlaceFacts
<1>11. \A i, j \in Uneaten : ~(Select!Before(i, j) /\ Select!Before(j, i))
  BY <1>8, <1>10 DEF Select!Before
<1>12. \A i, j \in DOMAIN places :
          i \in Select!Within(j, MIN_SPACING_M) <=> j \in Select!Within(i, MIN_SPACING_M)
  BY <1>9, DistanceFacts DEF Select!Within
<1>13. SelectTypeOK' /\ LineInv'
  BY <1>1, <1>2, <1>3, <1>4, <1>7 DEF SelectTypeOK, LineInv
<1>14. PiersInv' /\ EatInv'
  <2>1. \A i \in Select!Piers : i \in keep' <=> i \in keep
    BY <1>1, <1>5, <1>6, <1>8
  <2>2. PiersInv'
    BY <1>1, <1>2, <1>4, <1>7, <2>1 DEF PiersInv
  <2>3. EatInv'
    BY <1>1, <1>2, <1>4, <1>7 DEF EatInv
  <2> QED
    BY <2>2, <2>3
<1>15. ASSUME NEW m \in DOMAIN line', NEW n \in DOMAIN line', m < n
       PROVE  Select!Before(line'[m], line'[n])
  <2>1. m \in Int /\ n \in Int
    BY <1>3
  <2>2. m + 1 < n + 1
    BY <1>15, <2>1
  <2> QED
    BY <1>1, <1>2, <1>3, <2>2 DEF DropInv
<1>16. ASSUME NEW i, Waits(i)'  PROVE Select!Before(h, i)
  <2>1. PICK n \in DOMAIN line' : line'[n] = i
    BY <1>16 DEF Waits
  <2>2. n \in Nat /\ n >= 1 /\ 1 \in DOMAIN line /\ line[1] = h
    BY <1>0, <1>1, <1>2, <1>3 DEF SelectTypeOK
  <2>3. n + 1 \in DOMAIN line /\ line[n + 1] = i /\ 1 < n + 1
    BY <1>3, <2>1, <2>2
  <2> QED
    BY <1>1, <1>2, <2>2, <2>3 DEF DropInv
<1>17. ASSUME NEW i \in Uneaten, Waits(i)'  PROVE i \in keep'
  BY <1>1, <1>2, <1>3, <1>17 DEF DropInv
<1>18. ASSUME NEW i \in Uneaten, NEW j \in Uneaten, ~Waits(i)', Waits(j)'
       PROVE  Select!Before(i, j)
  BY <1>1, <1>2, <1>3, <1>16, <1>18 DEF DropInv
<1> DEFINE later(i) == {j \in Select!Within(i, MIN_SPACING_M) \cap Uneaten : Select!Before(i, j)}
<1>19. ASSUME h \in Uneaten  PROVE Select!HasNeighbor(h) <=> later(h) # {}
  <2>1. ASSUME NEW j \in later(h)  PROVE Select!HasNeighbor(h)
    <3>1. j \in Uneaten /\ j \in Select!Within(h, MIN_SPACING_M) /\ Select!Before(h, j)
      BY <2>1
    <3>2. Waits(j)
      BY <1>1, <1>2, <1>3, <1>11, <1>19, <3>1 DEF DropInv
    <3>3. j \in keep /\ ~Select!Protected(j)
      BY <1>1, <1>2, <1>8, <3>1, <3>2, Inland DEF DropInv, Select!Protected
    <3> QED
      BY <3>1, <3>3 DEF Select!HasNeighbor
  <2>2. ASSUME Select!HasNeighbor(h)  PROVE later(h) # {}
    <3>1. PICK j \in Select!Within(h, MIN_SPACING_M) : j \in keep /\ ~Select!Protected(j)
      BY <2>2 DEF Select!HasNeighbor
    <3>2. j \in DOMAIN places /\ j # h
      BY DEF Select!Within
    <3>3. j \in Uneaten
      BY <1>1, <1>2, <3>1, <3>2, Inland DEF EatInv, Select!Protected
    <3>4. CASE Waits(j)
      <4>1. Select!Before(h, j)
        BY <1>3, <1>16, <3>2, <3>4
      <4> QED
        BY <3>1, <3>3, <4>1
    <3>5. CASE ~Waits(j)
      <4>1. \A k \in Select!Within(j, MIN_SPACING_M) \cap Uneaten : ~Select!Before(j, k)
        BY <1>1, <1>2, <3>1, <3>3, <3>5 DEF DropInv
      <4>2. h \in Select!Within(j, MIN_SPACING_M)
        BY <1>3, <1>12, <3>1, <3>2
      <4>3. Select!Before(j, h)
        BY <1>1, <1>2, <1>3, <1>19, <3>3, <3>5 DEF DropInv
      <4> QED
        BY <1>19, <4>1, <4>2, <4>3
    <3> QED
      BY <3>4, <3>5
  <2> QED
    BY <2>1, <2>2
<1>20. ASSUME NEW i \in Uneaten, ~Waits(i)'
       PROVE  i \in keep' <=> \A j \in Select!Within(i, MIN_SPACING_M) \cap Uneaten :
                                 ~Select!Before(i, j)
  <2>1. CASE i = h
    <3>1. h \in keep /\ ~Select!Protected(h)
      BY <1>1, <1>2, <1>3, <1>8, <2>1, Inland DEF DropInv, Select!Protected
    <3>2. h \in keep' <=> later(h) = {}
      BY <1>1, <1>19, <2>1, <3>1
    <3> QED
      BY <2>1, <3>2
  <2>2. CASE i # h
    <3>1. ~Waits(i) /\ (i \in keep' <=> i \in keep)
      BY <1>1, <1>3, <1>20, <2>2
    <3> QED
      BY <1>1, <1>2, <3>1 DEF DropInv
  <2> QED
    BY <2>1, <2>2
<1> HIDE DEF later
<1>21. DropInv'
  BY <1>1, <1>4, <1>7, <1>15, <1>17, <1>18, <1>20 DEF DropInv
<1> QED
  BY <1>13, <1>14, <1>21 DEF SelectInv

LEMMA WriteAnchorsKeeps ==
  ASSUME SelectInv, Select!WriteAnchors \/ UNCHANGED Select!vars
  PROVE  SelectInv'
<1>1. /\ places' = places /\ keep' = keep /\ line' = line
      /\ pass' = pass \/ (pass = "drop" /\ line = <<>> /\ pass' = "written")
  BY DEF Select!WriteAnchors, Select!vars
<1>2. /\ \A i, j : /\ Select!Distance(i, j)' = Select!Distance(i, j)
                   /\ Select!Before(i, j)' = Select!Before(i, j)
      /\ \A i : Select!Within(i, MIN_SPACING_M)' = Select!Within(i, MIN_SPACING_M)
      /\ Select!Towns' = Select!Towns /\ Select!Piers' = Select!Piers
  BY <1>1, SamePlaces
<1>3. /\ Harbours' = Harbours /\ Uneaten' = Uneaten
      /\ \A i : Waits(i)' <=> Waits(i)
  BY <1>1, <1>2 DEF Harbours, Uneaten, Waits
<1>4. SelectTypeOK' /\ LineInv'
  BY <1>1, <1>2 DEF SelectInv, SelectTypeOK, LineInv
<1>5. PiersInv' /\ EatInv'
  BY <1>1, <1>2, <1>3 DEF SelectInv, PiersInv, EatInv
<1>6. DropInv'
  BY <1>1, <1>2, <1>3 DEF SelectInv, DropInv
<1> QED
  BY <1>4, <1>5, <1>6 DEF SelectInv

LEMMA SelectInvSuffices ==
  ASSUME Select!AnchorSelectAssumption, SelectInv
  PROVE  Select!AnchorsAreLocalMaxima
<1> SUFFICES ASSUME pass = "written"  PROVE Select!AnchorsAreLocalMaxima
  BY DEF Select!AnchorsAreLocalMaxima
<1>1. SelectTypeOK /\ PiersInv /\ EatInv /\ DropInv
  BY DEF SelectInv
<1>2. \A i : ~Waits(i)
  BY <1>1 DEF SelectTypeOK, Waits
<1>3. places \in Seq(Place)
  BY <1>1 DEF SelectTypeOK
<1>4. \A i, j \in DOMAIN places : Select!Distance(i, j) \in Int
  BY <1>3, DistanceFacts
<1>5. PIER_DEDUP_M \in Nat /\ PIER_EATS_TOWN_M \in Nat
  BY DEF Select!AnchorSelectAssumption
<1> DEFINE eaten == {i \in Select!Towns : \E p \in Harbours :
                        Select!Distance(i, p) <= PIER_EATS_TOWN_M}
           larger(i, j) == places[j].pop > places[i].pop
                           \/ (places[j].pop = places[i].pop /\ j > i)
<1>6. Uneaten = Select!Towns \ eaten
  BY <1>4, <1>5, Inland DEF Uneaten, Harbours
<1>7. \A i, j \in Select!Towns : larger(i, j) <=> Select!Before(i, j)
  BY <1>3, PlaceFacts, Inland DEF Select!Before
<1>8. \A i \in Select!Towns : i \in keep <=>
         /\ i \notin eaten
         /\ \A j \in Select!Within(i, MIN_SPACING_M) \cap (Select!Towns \ eaten) : ~larger(i, j)
  <2>1. \A i \in Uneaten : i \in keep <=>
           \A j \in Select!Within(i, MIN_SPACING_M) \cap Uneaten : ~Select!Before(i, j)
    BY <1>1, <1>2 DEF DropInv
  <2>2. keep \cap Select!Towns \subseteq Uneaten
    BY <1>1 DEF EatInv
  <2> HIDE DEF eaten, larger
  <2> QED
    BY <1>6, <1>7, <2>1, <2>2
<1>9. /\ \A i, j \in Harbours : i # j => Select!Distance(i, j) > PIER_DEDUP_M
      /\ \A i \in Select!Piers \ keep : \E j \in Harbours :
            Select!Distance(i, j) <= PIER_DEDUP_M
  BY <1>1 DEF PiersInv
<1> QED
  BY <1>8, <1>9 DEF Select!AnchorsAreLocalMaxima, Harbours

\* AnchorSelect: whatever places are loaded, a settlement out of reach of the
\* piers becomes an anchor exactly when it is the most populous around, and
\* piers keep their own distance.
THEOREM AnchorsArePeaks ==
  Select!AnchorSelectAssumption => (Select!Spec => []Select!AnchorsAreLocalMaxima)
<1> SUFFICES ASSUME Select!AnchorSelectAssumption
             PROVE  Select!Spec => []Select!AnchorsAreLocalMaxima
  OBVIOUS
<1>1. Select!Init => SelectInv
  BY SelectInit
<1>2. SelectInv /\ [Select!Next]_(Select!vars) => SelectInv'
  BY DedupPierKeeps, DedupDoneKeeps, EatTownsKeeps, EatDoneKeeps, GreedyDropoutKeeps,
     WriteAnchorsKeeps DEF Select!Next
<1>3. SelectInv => Select!AnchorsAreLocalMaxima
  BY SelectInvSuffices
<1> QED
  BY <1>1, <1>2, <1>3, PTL DEF Select!Spec

---------------------------------------------------------------------------
(***************************************************************************)
(* RoadIngest: what is staged arrives, whatever the ways and the files,    *)
(* however often the ingest is killed, and whatever it is run on next.     *)
(***************************************************************************)
CONSTANTS Ways, Located, Files, JobLists, EDGE_BATCH
VARIABLES jobs, nodes, staged, unique, vertices, indexed, ways, lookup, lo, owed
Stage == INSTANCE RoadIngest

Edge == [way : Nat, src : Int, dst : Int, cost : {1, -1}, reverse_cost : {1, -1}]

RoadTyped ==
    /\ staged \in Seq(Edge)
    /\ lookup \in BOOLEAN
    /\ lo \in Nat \ {0}

(* An edge is staged with the nodes it joins: staging tables with edges in  *)
(* them are never taken for empty ones.                                     *)
BackedInv == staged # <<>> => nodes # {}

(* The indexes on ways are gone only on the way to where they are put back: *)
(* a run that finds them missing goes on with the data it finds staged, and *)
(* comes by the chunks again.                                               *)
LookupInv ==
    ~lookup => /\ Stage!StagedData /\ ways # {}
               /\ pc \notin {"stream", "drop", "done"}

\* What the chunks behind have held is in.
ChunkInv ==
    pc = "chunk" =>
        \A i \in DOMAIN staged :
            i < lo /\ Stage!Resolvable(i) => Stage!Key(staged[i]) \in Stage!Keys(ways)

RoadInv == RoadTyped /\ BackedInv /\ LookupInv /\ ChunkInv /\ Stage!StagedEdgesArrive

\* Both of them are the notions of FiniteSets, and a ranking is this one.
LEMMA RoadsSame ==
  /\ \A S : Stage!IsFiniteSet(S) <=> IsFiniteSet(S)
  /\ \A S, R : Stage!Ranked(S, R) = Ranked(S, R)
<1>1. \A S : Stage!IsFiniteSet(S) <=> IsFiniteSet(S)
  BY Zenon DEF Stage!IsFiniteSet, IsFiniteSet
<1>2. \A S, R : Stage!Ranked(S, R) = Ranked(S, R)
  BY Zenon DEF Stage!Ranked, Ranked, Stage!Cardinality, Cardinality
<1> QED
  BY <1>1, <1>2

---------------------------------------------------------------------------
\* What a file stages

\* The node after a hop is a later one of the same way.
LEMMA HopIs ==
  ASSUME Stage!RoadIngestAssumption, NEW w \in Ways, NEW i \in Stage!Hops(w)
  PROVE  /\ i \in DOMAIN w.nodes /\ i \in Nat
         /\ w.nodes[i] \in Int /\ Stage!Following(w, i) \in Int
         /\ Stage!NodesOf(w) # {}
<1>1. w.nodes \in Seq(Int)
  BY DEF Stage!RoadIngestAssumption
<1>2. i \in Stage!At(w) /\ Stage!Later(w, i) # {} /\ Stage!Later(w, i) \subseteq Stage!At(w)
  BY DEF Stage!Hops, Stage!Later
<1>3. Stage!At(w) \subseteq DOMAIN w.nodes /\ DOMAIN w.nodes \subseteq Nat
  BY <1>1 DEF Stage!At
<1>4. PICK j \in Stage!Later(w, i) : \A k \in Stage!Later(w, i) : j <= k
  BY <1>2, <1>3, LeastNat
<1>5. Stage!Min(Stage!Later(w, i)) \in Stage!Later(w, i)
  BY <1>4, Zenon DEF Stage!Min
<1>6. \A k \in DOMAIN w.nodes : w.nodes[k] \in Int
  BY <1>1
<1>7. Stage!NodesOf(w) # {}
  <2>1. j > i /\ j \in Stage!At(w) /\ i \in Int /\ j \in Int
    BY <1>2, <1>3, <1>4 DEF Stage!Later
  <2>2. i # j
    BY <2>1
  <2> QED
    BY <1>2, <2>1, <2>2 DEF Stage!NodesOf
<1> QED
  BY <1>2, <1>3, <1>5, <1>6, <1>7 DEF Stage!Following

\* A file has finitely many of them.
LEMMA HopsFinite ==
  ASSUME Stage!RoadIngestAssumption, NEW f, NEW s
  PROVE  IsFiniteSet(Stage!HopsIn(f, s))
<1> DEFINE K == Stage!KeptWays(f, s)
           hops == [w \in K |-> {w} \X Stage!Hops(w)]
           T == {{w} \X Stage!Hops(w) : w \in K}
<1>1. K \in SUBSET Ways /\ IsFiniteSet(Ways)
  BY RoadsSame DEF Stage!RoadIngestAssumption, Stage!KeptWays
<1>2. IsFiniteSet(K)
  BY <1>1, FS_Subset
<1>3. ASSUME NEW w \in K  PROVE IsFiniteSet({w} \X Stage!Hops(w))
  <2>1. w.nodes \in Seq(Int)
    BY <1>1 DEF Stage!RoadIngestAssumption
  <2>2. DOMAIN w.nodes = 1..Len(w.nodes) /\ Len(w.nodes) \in Int
    BY <2>1
  <2>3. IsFiniteSet(DOMAIN w.nodes)
    BY <2>2, FS_Interval
  <2>4. Stage!Hops(w) \in SUBSET DOMAIN w.nodes
    BY DEF Stage!Hops, Stage!At
  <2> QED
    BY <2>3, <2>4, FS_Subset, FS_Singleton, FS_Product
<1> HIDE DEF K
<1>4. hops \in Surjection(K, T)
  BY DEF Surjection
<1>5. IsFiniteSet(T)
  <2> HIDE DEF hops, T
  <2> QED
    BY <1>2, <1>4, FS_Surjection
<1>6. \A S \in T : IsFiniteSet(S)
  BY <1>3
<1>7. Stage!HopsIn(f, s) = UNION T
  BY DEF Stage!HopsIn, K
<1> HIDE DEF T
<1> QED
  BY <1>5, <1>6, <1>7, FS_UNION

\* They have an order.
LEMMA HopsOrdered ==
  ASSUME Stage!RoadIngestAssumption, NEW f, NEW s
  PROVE  LET S == Stage!HopsIn(f, s)
             R == {p \in S \X S : Stage!Before(p[1], p[2])}
         IN  /\ \A g \in S : <<g, g>> \notin R
             /\ \A g, h, k \in S : <<g, h>> \in R /\ <<h, k>> \in R => <<g, k>> \in R
             /\ \A g, h \in S : g # h => <<g, h>> \in R \/ <<h, g>> \in R
<1> DEFINE S == Stage!HopsIn(f, s)
           R == {p \in S \X S : Stage!Before(p[1], p[2])}
<1>1. ASSUME NEW g \in S
      PROVE  /\ g[1] \in Ways /\ g[2] \in Stage!Hops(g[1]) /\ g = <<g[1], g[2]>>
             /\ g[1].id \in Int /\ g[2] \in Int
  <2>1. PICK w \in Stage!KeptWays(f, s) : g \in {w} \X Stage!Hops(w)
    BY DEF Stage!HopsIn
  <2>2. w \in Ways /\ w.id \in Int
    BY DEF Stage!KeptWays, Stage!RoadIngestAssumption
  <2>3. g[1] = w /\ g[2] \in Stage!Hops(w) /\ g = <<g[1], g[2]>>
    BY <2>1
  <2>4. g[2] \in Nat
    BY <2>2, <2>3, HopIs
  <2> QED
    BY <2>2, <2>3, <2>4
<1>2. \A g, h \in S : <<g, h>> \in R <=> Stage!Before(g, h)
  OBVIOUS
<1>3. \A g, h \in S : g[1].id = h[1].id => g[1] = h[1]
  BY <1>1 DEF Stage!RoadIngestAssumption
<1> HIDE DEF S, R
<1>4. \A g \in S : <<g, g>> \notin R
  BY <1>1, <1>2 DEF Stage!Before
<1>5. ASSUME NEW g \in S, NEW h \in S, NEW k \in S, <<g, h>> \in R, <<h, k>> \in R
      PROVE  <<g, k>> \in R
  <2>1. Stage!Before(g, h) /\ Stage!Before(h, k)
    BY <1>2, <1>5
  <2>2. Stage!Before(g, k)
    BY <1>1, <2>1 DEF Stage!Before
  <2> QED
    BY <1>2, <2>2
<1>6. ASSUME NEW g \in S, NEW h \in S, g # h
      PROVE  <<g, h>> \in R \/ <<h, g>> \in R
  <2>1. g[1].id # h[1].id \/ g[2] # h[2]
    BY <1>1, <1>3, <1>6
  <2>2. Stage!Before(g, h) \/ Stage!Before(h, g)
    BY <1>1, <2>1 DEF Stage!Before
  <2> QED
    BY <1>2, <2>2
<1> QED
  BY <1>4, <1>5, <1>6 DEF S, R

\* A file stages a sequence of edges, and with them the nodes they join.
LEMMA EdgesAre ==
  ASSUME Stage!RoadIngestAssumption, NEW f, NEW s
  PROVE  /\ Stage!EdgesIn(f, s) \in Seq(Edge)
         /\ Stage!EdgesIn(f, s) # <<>> => Stage!NodesIn(f, s) # {}
<1> DEFINE S == Stage!HopsIn(f, s)
           R == {p \in S \X S : Stage!Before(p[1], p[2])}
           sorted == Ranked(S, R)
           N == Cardinality(S)
           edge(n) == Stage!EdgeFrom(sorted[n][1], sorted[n][2])
<1>1. sorted \in [1..N -> S] /\ N \in Nat
  <2>1. IsFiniteSet(S)
    BY HopsFinite
  <2> QED
    BY <2>1, HopsOrdered, RankedIsOrder, FS_CardinalityType
<1>2. Stage!EdgesIn(f, s) = [n \in DOMAIN sorted |-> edge(n)]
  BY RoadsSame DEF Stage!EdgesIn
<1>3. ASSUME NEW g \in S
      PROVE  Stage!EdgeFrom(g[1], g[2]) \in Edge /\ Stage!NodesIn(f, s) # {}
  <2>1. PICK w \in Stage!KeptWays(f, s) : g \in {w} \X Stage!Hops(w)
    BY DEF Stage!HopsIn
  <2>2. w \in Ways /\ w.id \in Nat
    BY DEF Stage!KeptWays, Stage!RoadIngestAssumption
  <2>3. g[1] = w /\ g[2] \in Stage!Hops(w)
    BY <2>1
  <2>4. w.nodes[g[2]] \in Int /\ Stage!Following(w, g[2]) \in Int /\ Stage!NodesOf(w) # {}
    BY <2>2, <2>3, HopIs
  <2>5. \A b \in BOOLEAN : Stage!Cost(b) \in {1, -1}
    BY DEF Stage!Cost
  <2>6. Stage!EdgeFrom(w, g[2]) \in Edge
    BY <2>2, <2>4, <2>5 DEF Stage!EdgeFrom, Edge
  <2>7. Stage!NodesIn(f, s) # {}
    BY <2>1, <2>4 DEF Stage!NodesIn
  <2> QED
    BY <2>3, <2>6, <2>7
<1> HIDE DEF S, sorted, N
<1>4. DOMAIN sorted = 1..N /\ \A n \in 1..N : sorted[n] \in S
  BY <1>1
<1>5. \A n \in 1..N : edge(n) \in Edge /\ Stage!NodesIn(f, s) # {}
  BY <1>3, <1>4
<1> HIDE DEF edge
<1>6. Stage!EdgesIn(f, s) = [n \in 1..N |-> edge(n)]
  BY <1>2, <1>4
<1>7. Stage!EdgesIn(f, s) \in Seq(Edge)
  <2> DEFINE E == Edge
  <2>1. \A n \in 1..N : edge(n) \in E
    BY <1>5
  <2> HIDE DEF E
  <2>2. [n \in 1..N |-> edge(n)] \in Seq(E)
    BY <1>1, <2>1
  <2> QED
    BY <1>6, <2>2 DEF E
<1>8. ASSUME Stage!EdgesIn(f, s) # <<>>  PROVE Stage!NodesIn(f, s) # {}
  <2>1. N # 0
    BY <1>6, <1>8
  <2>2. 1 \in 1..N
    BY <1>1, <2>1
  <2> QED
    BY <1>5, <2>2
<1> QED
  BY <1>7, <1>8

---------------------------------------------------------------------------
\* The steps

\* Nothing is staged at first.
LEMMA RoadInit == Stage!Init => RoadInv
<1> SUFFICES ASSUME Stage!Init PROVE RoadInv
  OBVIOUS
<1>1. staged = <<>> /\ lo = 1 /\ lookup = TRUE /\ pc = "start"
  BY DEF Stage!Init
<1>2. staged \in Seq(Edge)
  BY <1>1
<1> QED
  BY <1>1, <1>2 DEF RoadInv, RoadTyped, BackedInv, LookupInv, ChunkInv,
                    Stage!StagedEdgesArrive

\* A file adds its edges and their nodes.
LEMMA StreamKeeps ==
  ASSUME Stage!RoadIngestAssumption, RoadInv, Stage!StreamPbf
  PROVE  RoadInv'
<1> DEFINE f == Head(todo)
           s == Head(jobs).supplement
           new == Stage!EdgesIn(f, s)
           E == Edge
<1>1. /\ pc = "stream" /\ pc' = pc /\ lookup' = lookup /\ lo' = lo /\ ways' = ways
      /\ staged' = staged \o new /\ nodes' = nodes \cup Stage!NodesIn(f, s)
  BY DEF Stage!StreamPbf, Stage!graph
<1>2. new \in Seq(Edge) /\ (new # <<>> => Stage!NodesIn(f, s) # {})
  BY EdgesAre
<1>3. staged \in Seq(E) /\ new \in Seq(E)
  BY <1>2 DEF RoadInv, RoadTyped
<1> HIDE DEF new, E
<1>4. staged \o new \in Seq(E) /\ (staged \o new # <<>> => staged # <<>> \/ new # <<>>)
  BY <1>3
<1>5. RoadTyped'
  BY <1>1, <1>4 DEF RoadInv, RoadTyped, E
<1>6. BackedInv'
  BY <1>1, <1>2, <1>4 DEF RoadInv, BackedInv
<1>7. LookupInv' /\ ChunkInv' /\ Stage!StagedEdgesArrive'
  BY <1>1 DEF RoadInv, LookupInv, ChunkInv, Stage!StagedEdgesArrive
<1> QED
  BY <1>5, <1>6, <1>7 DEF RoadInv

(* A step that leaves the staged data and the ways, and the indexes if they *)
(* are gone, and goes neither to the chunks nor to the end.                 *)
LEMMA RoadStays ==
  ASSUME RoadInv, staged' = staged, nodes' = nodes, ways' = ways, lookup' = lookup,
         lo' \in Nat \ {0}, pc' \notin {"stream", "chunk", "drop", "done"}
  PROVE  RoadInv'
BY DEF RoadInv, RoadTyped, BackedInv, LookupInv, ChunkInv, Stage!StagedEdgesArrive,
       Stage!StagedData

\* So does each of these.
LEMMA QuietKeeps ==
  ASSUME RoadInv,
         \/ Stage!Resume \/ Stage!MissingPbf \/ Stage!Streamed \/ Stage!NoNodes
         \/ Stage!DedupNodes \/ Stage!SkipVertices \/ Stage!DropVertexIndexes
         \/ Stage!InsertVertices \/ Stage!IndexVertices \/ Stage!InsertRefused
         \/ Stage!Kill \/ Stage!Rerun
  PROVE  RoadInv'
<1>1. /\ staged' = staged /\ nodes' = nodes /\ ways' = ways /\ lookup' = lookup
      /\ lo' \in Nat \ {0} /\ pc' \notin {"stream", "chunk", "drop", "done"}
  <2>1. lo \in Nat \ {0}
    BY DEF RoadInv, RoadTyped
  <2> USE DEF Stage!staging, Stage!graph
  <2>2. CASE Stage!Resume
    BY <2>1, <2>2 DEF Stage!Resume
  <2>3. CASE Stage!MissingPbf
    BY <2>1, <2>3 DEF Stage!MissingPbf
  <2>4. CASE Stage!Streamed
    BY <2>1, <2>4 DEF Stage!Streamed
  <2>5. CASE Stage!NoNodes
    BY <2>1, <2>5 DEF Stage!NoNodes
  <2>6. CASE Stage!DedupNodes
    BY <2>1, <2>6 DEF Stage!DedupNodes
  <2>7. CASE Stage!SkipVertices
    BY <2>1, <2>7 DEF Stage!SkipVertices
  <2>8. CASE Stage!DropVertexIndexes
    BY <2>1, <2>8 DEF Stage!DropVertexIndexes
  <2>9. CASE Stage!InsertVertices
    BY <2>1, <2>9 DEF Stage!InsertVertices
  <2>10. CASE Stage!IndexVertices
    BY <2>1, <2>10 DEF Stage!IndexVertices
  <2>11. CASE Stage!InsertRefused
    BY <2>1, <2>11 DEF Stage!InsertRefused
  <2>12. CASE Stage!Kill
    BY <2>1, <2>12 DEF Stage!Kill
  <2>13. CASE Stage!Rerun
    BY <2>1, <2>13 DEF Stage!Rerun
  <2> QED
    BY <2>2, <2>3, <2>4, <2>5, <2>6, <2>7, <2>8, <2>9, <2>10, <2>11, <2>12, <2>13
<1> QED
  BY <1>1, RoadStays

\* A run that has to stage anew has not lost an index: it found no data.
LEMMA CreateKeeps ==
  ASSUME RoadInv, Stage!CreateStaging
  PROVE  RoadInv'
<1>1. /\ ~Stage!StagedData /\ pc' = "stream" /\ nodes' = {} /\ staged' = <<>>
      /\ lookup' = lookup /\ lo' = lo
  BY DEF Stage!CreateStaging, Stage!graph
<1>2. lookup = TRUE
  BY <1>1 DEF RoadInv, LookupInv, RoadTyped
<1>3. <<>> \in Seq(Edge)
  OBVIOUS
<1> QED
  BY <1>1, <1>2, <1>3 DEF RoadInv, RoadTyped, BackedInv, LookupInv, ChunkInv,
                          Stage!StagedEdgesArrive

\* With nothing in ways, nothing has been dropped, and all goes in at once.
LEMMA BulkKeeps ==
  ASSUME RoadInv, Stage!BulkInsert \/ Stage!NoEdges
  PROVE  RoadInv'
<1>1. CASE Stage!NoEdges
  <2>1. staged = <<>> /\ staged' = <<>> /\ pc' = "drop" /\ lookup' = lookup /\ lo' = lo
    BY <1>1 DEF Stage!NoEdges, Stage!staging, Stage!graph
  <2>2. lookup = TRUE
    BY <2>1 DEF RoadInv, LookupInv, Stage!StagedData, RoadTyped
  <2>3. <<>> \in Seq(Edge)
    OBVIOUS
  <2> QED
    BY <2>1, <2>2, <2>3 DEF RoadInv, RoadTyped, BackedInv, LookupInv, ChunkInv,
                            Stage!StagedEdgesArrive
<1>2. CASE Stage!BulkInsert
  <2>1. /\ ways = {} /\ ways' = {staged[i] : i \in Stage!AllOfThem} /\ pc' = "drop"
        /\ staged' = staged /\ nodes' = nodes /\ vertices' = vertices
        /\ lookup' = lookup /\ lo' = lo
    BY <1>2 DEF Stage!BulkInsert, Stage!staging
  <2>2. lookup = TRUE
    BY <2>1 DEF RoadInv, LookupInv, RoadTyped
  <2>3. \A i \in DOMAIN staged : Stage!Resolvable(i) =>
            Stage!Key(staged[i]) \in {Stage!Key(e) : e \in ways'}
    BY <2>1 DEF Stage!AllOfThem
  <2>4. Stage!StagedEdgesArrive'
    BY <2>1, <2>2, <2>3 DEF Stage!StagedEdgesArrive, Stage!Resolvable, Stage!Keys, Stage!Key
  <2> QED
    BY <2>1, <2>2, <2>4 DEF RoadInv, RoadTyped, BackedInv, LookupInv, ChunkInv
<1> QED
  BY <1>1, <1>2

\* The indexes are dropped where there are ways, and edges to add to them.
LEMMA DropLookupKeeps ==
  ASSUME RoadInv, Stage!DropLookup
  PROVE  RoadInv'
<1>1. /\ staged # <<>> /\ ways # {} /\ lookup' = FALSE /\ lo' = 1 /\ pc' = "chunk"
      /\ staged' = staged /\ nodes' = nodes /\ ways' = ways
  BY DEF Stage!DropLookup, Stage!staging
<1>2. \A i \in DOMAIN staged : ~ (i < 1)
  <2>1. DOMAIN staged = 1..Len(staged)
    BY DEF RoadInv, RoadTyped
  <2> QED
    BY <2>1
<1>3. ChunkInv'
  BY <1>1, <1>2 DEF ChunkInv
<1>4. LookupInv'
  BY <1>1 DEF RoadInv, BackedInv, LookupInv, Stage!StagedData
<1>5. RoadTyped'
  <2>1. staged' \in Seq(Edge)
    BY <1>1 DEF RoadInv, RoadTyped
  <2>2. lo' \in Nat \ {0}
    BY <1>1
  <2>3. lookup' \in BOOLEAN
    BY <1>1, Zenon
  <2> QED
    BY <2>1, <2>2, <2>3 DEF RoadTyped
<1>6. BackedInv'
  BY <1>1 DEF RoadInv, BackedInv
<1>7. Stage!StagedEdgesArrive'
  BY <1>1 DEF Stage!StagedEdgesArrive
<1> QED
  BY <1>3, <1>4, <1>5, <1>6, <1>7 DEF RoadInv

\* A chunk puts in what of it is not in.
LEMMA ChunkKeeps ==
  ASSUME Stage!RoadIngestAssumption, RoadInv, Stage!InsertChunk
  PROVE  RoadInv'
<1>1. /\ pc = "chunk" /\ pc' = "chunk" /\ ways' = ways \cup {staged[i] : i \in Stage!Chunk}
      /\ lo' = lo + EDGE_BATCH /\ lookup' = lookup
      /\ staged' = staged /\ nodes' = nodes /\ vertices' = vertices
  BY DEF Stage!InsertChunk, Stage!staging
<1>2. EDGE_BATCH \in Nat \ {0} /\ lo \in Nat \ {0} /\ DOMAIN staged \subseteq Nat
  BY DEF Stage!RoadIngestAssumption, RoadInv, RoadTyped
<1>3. ASSUME NEW i \in DOMAIN staged, i < lo', Stage!Resolvable(i)
      PROVE  Stage!Key(staged[i]) \in {Stage!Key(e) : e \in ways'}
  <2>1. Stage!Keys(ways) \subseteq {Stage!Key(e) : e \in ways'}
    BY <1>1 DEF Stage!Keys
  <2>2. CASE i < lo
    BY <1>1, <1>3, <2>1, <2>2 DEF RoadInv, ChunkInv
  <2>3. CASE ~ (i < lo)
    <3>1. i \in lo..(lo + EDGE_BATCH - 1) \cap DOMAIN staged
      BY <1>1, <1>2, <1>3, <2>3
    <3>2. Stage!Key(staged[i]) \in Stage!Keys(ways) \/ i \in Stage!Chunk
      BY <1>3, <3>1 DEF Stage!Chunk
    <3> QED
      BY <1>1, <2>1, <3>2
  <2> QED
    BY <2>2, <2>3
<1>4. ChunkInv'
  BY <1>1, <1>3 DEF ChunkInv, Stage!Resolvable, Stage!Keys, Stage!Key
<1>5. RoadTyped' /\ BackedInv' /\ LookupInv' /\ Stage!StagedEdgesArrive'
  BY <1>1, <1>2 DEF RoadInv, RoadTyped, BackedInv, LookupInv, Stage!StagedData,
                    Stage!StagedEdgesArrive
<1> QED
  BY <1>4, <1>5 DEF RoadInv

\* Past the last chunk all that is staged is in, and the indexes come back.
LEMMA IndexKeeps ==
  ASSUME RoadInv, Stage!IndexLookup
  PROVE  RoadInv'
<1>1. /\ pc = "chunk" /\ lo > Len(staged) /\ lookup' = TRUE /\ lo' = 1 /\ pc' = "drop"
      /\ staged' = staged /\ nodes' = nodes /\ vertices' = vertices /\ ways' = ways
  BY DEF Stage!IndexLookup, Stage!staging
<1>2. \A i \in DOMAIN staged : i < lo
  <2>1. DOMAIN staged = 1..Len(staged) /\ Len(staged) \in Nat /\ lo \in Nat
    BY DEF RoadInv, RoadTyped
  <2> QED
    BY <1>1, <2>1
<1>3. Stage!StagedEdgesArrive'
  BY <1>1, <1>2 DEF RoadInv, ChunkInv, Stage!StagedEdgesArrive, Stage!Resolvable,
                    Stage!Keys, Stage!Key
<1> QED
  BY <1>1, <1>3 DEF RoadInv, RoadTyped, BackedInv, LookupInv, ChunkInv

\* Only then are the staging tables dropped.
LEMMA DropKeeps ==
  ASSUME RoadInv, Stage!DropStaging
  PROVE  RoadInv'
<1>1. /\ pc = "drop" /\ pc' \in {"done", "start"} /\ staged' = <<>> /\ nodes' = {}
      /\ lookup' = lookup /\ lo' = lo
  BY DEF Stage!DropStaging, Stage!graph
<1>2. lookup = TRUE
  BY <1>1 DEF RoadInv, LookupInv, RoadTyped
<1>3. <<>> \in Seq(Edge)
  OBVIOUS
<1> QED
  BY <1>1, <1>2, <1>3 DEF RoadInv, RoadTyped, BackedInv, LookupInv, ChunkInv,
                          Stage!StagedEdgesArrive

\* RoadIngest: when the staging tables are dropped, each edge in them between two
\* vertices is in ways, and ways has its indexes again.
THEOREM StagedRowsArrive ==
  Stage!RoadIngestAssumption => (Stage!Spec => []Stage!StagedEdgesArrive)
<1> SUFFICES ASSUME Stage!RoadIngestAssumption
             PROVE  Stage!Spec => []Stage!StagedEdgesArrive
  OBVIOUS
<1>1. Stage!Init => RoadInv
  BY RoadInit
<1>2. RoadInv /\ [Stage!Next]_(Stage!vars) => RoadInv'
  <2>1. ASSUME RoadInv, Stage!Next PROVE RoadInv'
    BY <2>1, StreamKeeps, QuietKeeps, CreateKeeps, BulkKeeps, DropLookupKeeps,
       ChunkKeeps, IndexKeeps, DropKeeps DEF Stage!Next
  <2>2. ASSUME RoadInv, UNCHANGED Stage!vars PROVE RoadInv'
    BY <2>2 DEF RoadInv, RoadTyped, BackedInv, LookupInv, ChunkInv, Stage!vars,
                Stage!StagedData, Stage!StagedEdgesArrive, Stage!Resolvable
  <2> QED
    BY <2>1, <2>2
<1>3. RoadInv => Stage!StagedEdgesArrive
  BY DEF RoadInv
<1> QED
  BY <1>1, <1>2, <1>3, PTL DEF Stage!Spec

---------------------------------------------------------------------------
\* Recursion.  What a sequence, a fold or a function given by ranks is.

\* What holds at one number and carries over to the next holds on.
LEMMA Upward ==
  ASSUME NEW S, NEW m \in Nat, NEW n \in Nat, m \in S,
         \A k \in m..n : k # m /\ k - 1 \in S => k \in S
  PROVE  m..n \subseteq S
<1> DEFINE Bad == (m..n) \ S
<1>1. Bad \in SUBSET Nat
  OBVIOUS
<1>2. Bad = {}
  <2> SUFFICES ASSUME Bad # {} PROVE FALSE
    OBVIOUS
  <2>1. PICK k \in Bad : \A j \in Bad : k <= j
    <3> HIDE DEF Bad
    <3> QED BY <1>1, LeastNat
  <2>2. k \in m..n /\ k # m /\ k - 1 \in m..n /\ ~(k <= k - 1)
    BY <2>1
  <2>3. k - 1 \in S
    BY <2>1, <2>2
  <2> QED
    BY <2>1, <2>2, <2>3
<1> QED
  BY <1>2

\* A finite set of integers has a least one.
LEMMA LeastInt ==
  ASSUME NEW S \in SUBSET Int, IsFiniteSet(S), S # {}
  PROVE  \E x \in S : \A y \in S : x <= y
<1> DEFINE Has(T) == \E x \in T : \A y \in T : x <= y
           G == {k \in Nat : \A T \in SUBSET S : Cardinality(T) = k /\ T # {} => Has(T)}
<1>1. 0 \in G
  BY FS_EmptySet, FS_Subset
<1>2. ASSUME NEW k \in 0..Cardinality(S), k # 0, k - 1 \in G  PROVE k \in G
  <2>1. k \in Nat
    BY FS_CardinalityType
  <2>2. ASSUME NEW T \in SUBSET S, Cardinality(T) = k, T # {}  PROVE Has(T)
    <3>1. PICK t \in T : TRUE
      BY <2>2
    <3>2. IsFiniteSet(T)
      BY FS_Subset
    <3>3. Cardinality(T \ {t}) = k - 1
      BY <2>2, <3>1, <3>2, FS_RemoveElement
    <3>4. T \ {t} # {} => Has(T \ {t})
      BY <1>2, <3>3
    <3>5. T \ {t} = {} => T = {t}
      BY <3>1
    <3>6. \A y \in T : y \in Int /\ (y = t \/ y \in T \ {t})
      OBVIOUS
    <3> QED
      BY <3>1, <3>4, <3>5, <3>6
  <2> QED
    BY <2>1, <2>2
<1>3. Cardinality(S) \in G
  <2>1. 0..Cardinality(S) \subseteq G
    <3> HIDE DEF G
    <3> QED BY <1>1, <1>2, FS_CardinalityType, Upward
  <2> QED
    BY <2>1, FS_CardinalityType
<1> QED
  BY <1>3

(* A function may be given by what it is at one element from what it is at  *)
(* another one of a lower rank.                                             *)
Recursive(D, V, rank, K, B, b, pr, F) ==
    /\ rank \in [D -> Nat] /\ K \in Nat /\ \A x \in D : rank[x] < K
    /\ B \in SUBSET D /\ b \in [B -> V]
    /\ pr \in [D \ B -> D] /\ \A x \in D \ B : rank[pr[x]] < rank[x]
    /\ F \in [(D \ B) \X V -> V]
SolvedBy(u, D, V, B, b, pr, F) ==
    /\ u = [x \in D |-> u[x]]
    /\ \A x \in B : u[x] = b[x]
    /\ \A x \in D \ B : u[pr[x]] \in V => u[x] = F[<<x, u[pr[x]]>>]

LEMMA RecursionIs ==
  ASSUME NEW D, NEW V, NEW rank, NEW K, NEW B, NEW b, NEW pr, NEW F,
         Recursive(D, V, rank, K, B, b, pr, F)
  PROVE  \E g \in [D -> V] :
            /\ \A x \in D : g[x] = IF x \in B THEN b[x] ELSE F[<<x, g[pr[x]]>>]
            /\ \A u : SolvedBy(u, D, V, B, b, pr, F) => u = g
<1> USE DEF Recursive
<1> DEFINE Below(k) == {x \in D : rank[x] < k}
           Row(g, k) == \A x \in Below(k) : /\ g[x] \in V
                            /\ g[x] = IF x \in B THEN b[x] ELSE F[<<x, g[pr[x]]>>]
           Good == {k \in Nat : \E g : Row(g, k)}
<1>1. 0 \in Good
  BY DEF Good
<1>2. ASSUME NEW k \in 0..K, k # 0, k - 1 \in Good  PROVE k \in Good
  <2>1. PICK g : Row(g, k - 1)
    BY <1>2
  <2> DEFINE h == [x \in D |-> IF x \in Below(k - 1) THEN g[x]
                               ELSE IF x \in B THEN b[x] ELSE F[<<x, g[pr[x]]>>]]
  <2>2. ASSUME NEW x \in Below(k), x \notin B
        PROVE  /\ x \in D \ B /\ pr[x] \in Below(k - 1) /\ h[pr[x]] = g[pr[x]]
               /\ g[pr[x]] \in V /\ <<x, g[pr[x]]>> \in (D \ B) \X V
    <3>1. x \in D \ B /\ rank[x] < k /\ rank[x] \in Nat /\ pr[x] \in D
      BY <2>2
    <3>2. rank[pr[x]] \in Nat /\ rank[pr[x]] < k - 1
      BY <3>1, <1>2
    <3>3. pr[x] \in Below(k - 1)
      BY <3>1, <3>2
    <3>4. h[pr[x]] = g[pr[x]]
      BY <3>1, <3>3
    <3>5. g[pr[x]] \in V
      BY <3>3, <2>1
    <3> QED
      BY <3>1, <3>3, <3>4, <3>5
  <2>3. ASSUME NEW x \in Below(k)
        PROVE  h[x] = IF x \in B THEN b[x] ELSE F[<<x, h[pr[x]]>>]
    <3>1. x \in D
      OBVIOUS
    <3>2. h[x] = IF x \in B THEN b[x] ELSE F[<<x, g[pr[x]]>>]
      <4>1. x \in Below(k - 1) => g[x] = IF x \in B THEN b[x] ELSE F[<<x, g[pr[x]]>>]
        BY <2>1
      <4> QED
        BY <3>1, <4>1
    <3>3. x \notin B => h[pr[x]] = g[pr[x]]
      BY <2>2
    <3> QED
      BY <3>2, <3>3
  <2>4. ASSUME NEW x \in Below(k)  PROVE h[x] \in V
    <3>1. x \in B => b[x] \in V
      OBVIOUS
    <3>2. x \notin B => h[pr[x]] = g[pr[x]] /\ <<x, g[pr[x]]>> \in (D \ B) \X V
      BY <2>2
    <3>3. \A z \in (D \ B) \X V : F[z] \in V
      OBVIOUS
    <3>4. h[x] = IF x \in B THEN b[x] ELSE F[<<x, h[pr[x]]>>]
      BY <2>3
    <3> HIDE DEF h, Below
    <3> QED
      BY <3>1, <3>2, <3>3, <3>4
  <2>5. Row(h, k)
    <3> HIDE DEF h, Below
    <3> QED
      BY <2>3, <2>4
  <2>6. k \in Nat
    OBVIOUS
  <2> HIDE DEF h, Row, Below
  <2>7. \E r : Row(r, k)
    BY <2>5
  <2> QED
    BY <2>6, <2>7 DEF Good
<1>3. K \in Good
  <2> HIDE DEF Good
  <2>1. \A k \in 0..K : k # 0 /\ k - 1 \in Good => k \in Good
    BY <1>2
  <2>2. 0..K \subseteq Good
    BY <1>1, <2>1, Upward
  <2> QED
    BY <2>2
<1>4. PICK f : Row(f, K)
  BY <1>3
<1>5. \A x \in D : /\ f[x] \in V
                   /\ f[x] = IF x \in B THEN b[x] ELSE F[<<x, f[pr[x]]>>]
  BY <1>4
<1> HIDE DEF Good, Row, Below
<1> DEFINE g == [x \in D |-> f[x]]
<1>6. g \in [D -> V] /\ \A x \in D : g[x] = IF x \in B THEN b[x] ELSE F[<<x, g[pr[x]]>>]
  BY <1>5
<1> HIDE DEF g
<1>7. ASSUME NEW u, SolvedBy(u, D, V, B, b, pr, F)  PROVE u = g
  <2> DEFINE Same == {k \in Nat : \A x \in D : rank[x] < k => u[x] = g[x]}
  <2>1. 0 \in Same
    OBVIOUS
  <2>2. ASSUME NEW k \in 0..K, k # 0, k - 1 \in Same  PROVE k \in Same
    <3> SUFFICES ASSUME NEW x \in D, rank[x] < k PROVE u[x] = g[x]
      OBVIOUS
    <3>1. CASE x \in B
      BY <3>1, <1>6, <1>7 DEF SolvedBy
    <3>2. CASE x \notin B
      <4>1. pr[x] \in D /\ rank[pr[x]] \in Nat /\ rank[x] \in Nat /\ rank[pr[x]] < k - 1
        BY <3>2, <2>2
      <4>2. u[pr[x]] = g[pr[x]]
        BY <4>1, <2>2
      <4>3. g[pr[x]] \in V
        BY <4>1, <1>6
      <4> QED
        BY <4>2, <4>3, <3>2, <1>6, <1>7 DEF SolvedBy
    <3> QED
      BY <3>1, <3>2
  <2>3. K \in Same
    <3> HIDE DEF Same
    <3>1. \A k \in 0..K : k # 0 /\ k - 1 \in Same => k \in Same
      BY <2>2
    <3>2. 0..K \subseteq Same
      BY <2>1, <3>1, Upward
    <3> QED
      BY <3>2
  <2>4. \A x \in D : u[x] = g[x]
    BY <2>3
  <2>5. g = [x \in D |-> g[x]]
    BY <1>6
  <2> QED
    BY <2>4, <2>5, <1>7 DEF SolvedBy
<1> QED
  BY <1>6, <1>7

\* A sequence may be given by its beginning and by what follows on what.
FollowsOn(u, N, A, V, F) ==
    /\ u = [n \in 0..N |-> u[n]]
    /\ u[0] = A
    /\ \A n \in 1..N : u[n - 1] \in V => u[n] = F[u[n - 1]]

SequenceOf(g, N, A, V, F) ==
    /\ g \in [0..N -> V]
    /\ g[0] = A /\ \A n \in 1..N : g[n] = F[g[n - 1]]
    /\ \A u : FollowsOn(u, N, A, V, F) => u = g

LEMMA SequenceIs ==
  ASSUME NEW V, NEW A \in V, NEW F \in [V -> V], NEW N \in Nat
  PROVE  \E g : SequenceOf(g, N, A, V, F)
<1> DEFINE D == 0..N
           rank == [n \in D |-> n]
           K == N + 1
           B == {0}
           b == [n \in B |-> A]
           pr == [n \in D \ B |-> n - 1]
           G == [z \in (D \ B) \X V |-> F[z[2]]]
<1>1. rank \in [D -> Nat] /\ K \in Nat /\ \A n \in D : rank[n] < K
  OBVIOUS
<1>2. B \in SUBSET D /\ b \in [B -> V] /\ 0 \in B /\ b[0] = A
  OBVIOUS
<1>3. pr \in [D \ B -> D] /\ \A n \in D \ B : rank[pr[n]] < rank[n] /\ pr[n] = n - 1
  OBVIOUS
<1>4. G \in [(D \ B) \X V -> V] /\ \A n \in D \ B, S \in V : G[<<n, S>>] = F[S]
  <2> HIDE DEF D
  <2> QED OBVIOUS
<1>5. (\A n \in D : n \in B <=> n = 0) /\ 1..N = D \ B
  OBVIOUS
<1> HIDE DEF D, rank, K, B, b, pr, G
<1>6. Recursive(D, V, rank, K, B, b, pr, G)
  BY <1>1, <1>2, <1>3, <1>4 DEF Recursive
<1>7. PICK g \in [D -> V] :
         /\ \A n \in D : g[n] = IF n \in B THEN b[n] ELSE G[<<n, g[pr[n]]>>]
         /\ \A u : SolvedBy(u, D, V, B, b, pr, G) => u = g
  BY <1>6, RecursionIs
<1>8. g[0] = A
  BY <1>2, <1>7
<1>9. ASSUME NEW n \in 1..N  PROVE g[n] = F[g[n - 1]]
  <2>1. n \in D \ B /\ n \notin B /\ n \in D
    BY <1>5
  <2>2. pr[n] = n - 1 /\ pr[n] \in D
    BY <2>1, <1>3
  <2>3. g[n] = G[<<n, g[pr[n]]>>] /\ g[pr[n]] \in V
    BY <2>1, <2>2, <1>7
  <2>4. G[<<n, g[pr[n]]>>] = F[g[pr[n]]]
    BY <2>1, <2>3, <1>4
  <2> QED
    BY <2>2, <2>3, <2>4
<1>10. ASSUME NEW u, FollowsOn(u, N, A, V, F)  PROVE u = g
  <2>1. \A n \in B : u[n] = b[n]
    BY <1>2, <1>5, <1>10 DEF FollowsOn
  <2>2. ASSUME NEW n \in D \ B, u[pr[n]] \in V  PROVE u[n] = G[<<n, u[pr[n]]>>]
    <3>1. n \in 1..N /\ pr[n] = n - 1
      BY <1>3, <1>5
    <3>2. u[n] = F[u[pr[n]]]
      BY <3>1, <2>2, <1>10 DEF FollowsOn
    <3> QED
      BY <3>2, <2>2, <1>4
  <2>3. u = [n \in D |-> u[n]]
    BY <1>10 DEF FollowsOn, D
  <2> QED
    BY <2>1, <2>2, <2>3, <1>7 DEF SolvedBy
<1> QED
  <2>1. SequenceOf(g, N, A, V, F)
    BY <1>7, <1>8, <1>9, <1>10 DEF D, SequenceOf
  <2> QED
    BY <2>1

(* A finite set fills up in as many steps as it has elements: what grows    *)
(* from a part of it comes to rest at the least set that is closed.         *)
SpreadOf(g, N, A, D, F) ==
    /\ SequenceOf(g, N, A, SUBSET D, F)
    /\ A \subseteq g[N]
    /\ F[g[N]] = g[N]
    /\ \A C \in SUBSET D : A \subseteq C /\ (\A S \in SUBSET C : F[S] \subseteq C)
                           => g[N] \subseteq C

LEMMA SpreadIs ==
  ASSUME NEW D, IsFiniteSet(D), NEW A \in SUBSET D, NEW F \in [SUBSET D -> SUBSET D],
         \A S \in SUBSET D : S \subseteq F[S]
  PROVE  \E g : SpreadOf(g, Cardinality(D), A, D, F)
<1> DEFINE N == Cardinality(D)
<1>1. N \in Nat
  BY FS_CardinalityType
<1> HIDE DEF N
<1>0. PICK g : SequenceOf(g, N, A, SUBSET D, F)
  BY <1>1, SequenceIs
<1>2. /\ g \in [0..N -> SUBSET D]
      /\ g[0] = A /\ \A n \in 1..N : g[n] = F[g[n - 1]]
  BY <1>0 DEF SequenceOf
<1>3. \A n \in 0..N : g[n] \in SUBSET D /\ IsFiniteSet(g[n]) /\ Cardinality(g[n]) \in Nat
  BY <1>2, FS_Subset, FS_CardinalityType
<1>4. \A n \in 1..N : n - 1 \in 0..N /\ n \in 0..N
  BY <1>1
<1>5. A \subseteq g[N]
  <2> DEFINE S == {n \in 0..N : A \subseteq g[n]}
  <2>1. 0 \in S
    BY <1>1, <1>2
  <2>2. ASSUME NEW n \in 0..N, n # 0, n - 1 \in S  PROVE n \in S
    <3>1. n \in 1..N
      BY <2>2
    <3>2. A \subseteq g[n - 1] /\ g[n - 1] \in SUBSET D /\ g[n] = F[g[n - 1]]
      BY <3>1, <2>2, <1>2, <1>3
    <3> QED
      BY <3>2
  <2> HIDE DEF S
  <2>3. 0..N \subseteq S
    BY <2>1, <2>2, <1>1, Upward
  <2> QED
    BY <2>3, <1>1 DEF S
<1>6. F[g[N]] = g[N]
  <2> DEFINE S == {n \in 0..N : F[g[n]] = g[n] \/ Cardinality(g[n]) >= n}
  <2>1. 0 \in S
    BY <1>1, <1>3
  <2>2. ASSUME NEW n \in 0..N, n # 0, n - 1 \in S  PROVE n \in S
    <3>1. n \in 1..N /\ n - 1 \in 0..N
      BY <2>2
    <3>2. g[n] = F[g[n - 1]] /\ g[n - 1] \in SUBSET D /\ g[n] \in SUBSET D
      BY <3>1, <1>2, <1>3
    <3>3. CASE g[n] = g[n - 1]
      BY <3>2, <3>3
    <3>4. CASE g[n] # g[n - 1]
      <4>1. g[n - 1] \in SUBSET g[n] /\ IsFiniteSet(g[n])
        BY <3>2, <1>3
      <4>2. Cardinality(g[n - 1]) <= Cardinality(g[n]) /\ Cardinality(g[n - 1]) # Cardinality(g[n])
        BY <4>1, <3>4, FS_Subset
      <4>3. Cardinality(g[n - 1]) >= n - 1
        BY <2>2, <3>2, <3>4
      <4>4. Cardinality(g[n - 1]) \in Nat /\ Cardinality(g[n]) \in Nat
        BY <3>1, <1>3
      <4> QED
        BY <4>2, <4>3, <4>4
    <3> QED
      BY <3>3, <3>4
  <2>3. N \in S
    <3> HIDE DEF S
    <3>1. 0..N \subseteq S
      BY <2>1, <2>2, <1>1, Upward
    <3> QED
      BY <3>1, <1>1
  <2>4. g[N] \in SUBSET D /\ Cardinality(g[N]) <= N
    BY <1>1, <1>3, FS_Subset DEF N
  <2>5. CASE Cardinality(g[N]) >= N
    <3>1. Cardinality(g[N]) = Cardinality(D)
      BY <2>4, <2>5, <1>1, <1>3 DEF N
    <3>2. g[N] = D
      BY <3>1, <2>4, FS_Subset
    <3>3. D \in SUBSET D /\ F[D] \in SUBSET D /\ D \subseteq F[D]
      OBVIOUS
    <3> QED
      BY <3>2, <3>3
  <2> QED
    BY <2>3, <2>5
<1>7. ASSUME NEW C \in SUBSET D, A \subseteq C, \A T \in SUBSET C : F[T] \subseteq C
      PROVE  g[N] \subseteq C
  <2> DEFINE S == {n \in 0..N : g[n] \subseteq C}
  <2>1. 0 \in S
    BY <1>1, <1>2, <1>7
  <2>2. ASSUME NEW n \in 0..N, n # 0, n - 1 \in S  PROVE n \in S
    <3>1. n \in 1..N
      BY <2>2
    <3> QED
      BY <3>1, <2>2, <1>2, <1>7
  <2> HIDE DEF S
  <2>3. 0..N \subseteq S
    BY <2>1, <2>2, <1>1, Upward
  <2> QED
    BY <2>3, <1>1 DEF S
<1> QED
  <2>1. SpreadOf(g, N, A, D, F)
    BY <1>0, <1>5, <1>6, <1>7 DEF SpreadOf
  <2> QED
    BY <2>1 DEF N

\* A fold over the subsets of a finite set, one chosen element at a time.
One(s) == CHOOSE x \in s : TRUE
FoldsOn(u, T, V, base, F) ==
    /\ u = [s \in SUBSET T |-> u[s]]
    /\ u[{}] = base
    /\ \A s \in SUBSET T : s # {} /\ u[s \ {One(s)}] \in V => u[s] = F[<<One(s), u[s \ {One(s)}]>>]

LEMMA OneIs ==
  ASSUME NEW T, IsFiniteSet(T), NEW s \in SUBSET T
  PROVE  /\ IsFiniteSet(s) /\ Cardinality(s) \in Nat /\ Cardinality(s) <= Cardinality(T)
         /\ s # {} => /\ One(s) \in s /\ s \ {One(s)} \in SUBSET T
                      /\ Cardinality(s \ {One(s)}) = Cardinality(s) - 1
         /\ Cardinality(s) = 0 <=> s = {}
<1>1. IsFiniteSet(s) /\ Cardinality(s) \in Nat /\ Cardinality(s) <= Cardinality(T)
  BY FS_Subset, FS_CardinalityType
<1>2. s # {} => One(s) \in s
  BY DEF One
<1>3. s # {} => Cardinality(s \ {One(s)}) = Cardinality(s) - 1
  BY <1>1, <1>2, FS_RemoveElement
<1>4. Cardinality(s) = 0 <=> s = {}
  BY <1>1, FS_EmptySet
<1> QED
  BY <1>1, <1>2, <1>3, <1>4

LEMMA FoldIs ==
  ASSUME NEW T, IsFiniteSet(T), NEW V, NEW base \in V, NEW F \in [T \X V -> V]
  PROVE  \E g \in [SUBSET T -> V] :
            /\ g[{}] = base
            /\ \A s \in SUBSET T : s # {} => g[s] = F[<<One(s), g[s \ {One(s)}]>>]
            /\ \A u : FoldsOn(u, T, V, base, F) => u = g
<1> DEFINE D == SUBSET T
           rank == [s \in D |-> Cardinality(s)]
           K == Cardinality(T) + 1
           B == {{}}
           b == [s \in B |-> base]
           pr == [s \in D \ B |-> s \ {One(s)}]
           G == [z \in (D \ B) \X V |-> F[<<One(z[1]), z[2]>>]]
<1>1. K \in Nat /\ rank \in [D -> Nat] /\ \A s \in D : rank[s] < K
  <2>1. Cardinality(T) \in Nat
    BY FS_CardinalityType
  <2>2. \A s \in D : Cardinality(s) \in Nat /\ Cardinality(s) <= Cardinality(T)
    BY OneIs
  <2> QED
    BY <2>1, <2>2
<1>2. B \in SUBSET D /\ b \in [B -> V] /\ {} \in B /\ b[{}] = base
  OBVIOUS
<1>3. pr \in [D \ B -> D] /\ \A s \in D \ B : rank[pr[s]] < rank[s] /\ pr[s] = s \ {One(s)}
  BY OneIs
<1>4. \A s \in D \ B : One(s) \in T
  BY DEF One
<1>5. G \in [(D \ B) \X V -> V] /\ \A s \in D \ B, y \in V : G[<<s, y>>] = F[<<One(s), y>>]
  <2> HIDE DEF D, B
  <2> QED BY <1>4
<1>6. (\A s \in D : s \in B <=> s = {}) /\ {} \in D
  OBVIOUS
<1> HIDE DEF D, rank, K, B, b, pr, G
<1>7. Recursive(D, V, rank, K, B, b, pr, G)
  BY <1>1, <1>2, <1>3, <1>5 DEF Recursive
<1>8. PICK g \in [D -> V] :
         /\ \A s \in D : g[s] = IF s \in B THEN b[s] ELSE G[<<s, g[pr[s]]>>]
         /\ \A u : SolvedBy(u, D, V, B, b, pr, G) => u = g
  BY <1>7, RecursionIs
<1>9. g[{}] = base
  BY <1>2, <1>6, <1>8
<1>10. ASSUME NEW s \in D, s # {}  PROVE g[s] = F[<<One(s), g[s \ {One(s)}]>>]
  <2>1. s \in D \ B /\ s \notin B
    BY <1>6, <1>10
  <2>2. pr[s] = s \ {One(s)} /\ pr[s] \in D
    BY <2>1, <1>3
  <2>3. g[s] = G[<<s, g[pr[s]]>>] /\ g[pr[s]] \in V
    BY <2>1, <2>2, <1>8
  <2>4. G[<<s, g[pr[s]]>>] = F[<<One(s), g[pr[s]]>>]
    BY <2>1, <2>3, <1>5
  <2> QED
    BY <2>2, <2>3, <2>4
<1>11. ASSUME NEW u, FoldsOn(u, T, V, base, F)  PROVE u = g
  <2>1. \A s \in B : u[s] = b[s]
    BY <1>2, <1>11 DEF FoldsOn, B
  <2>2. ASSUME NEW s \in D \ B, u[pr[s]] \in V  PROVE u[s] = G[<<s, u[pr[s]]>>]
    <3>1. s \in D /\ s # {} /\ pr[s] = s \ {One(s)}
      BY <1>3, <1>6
    <3>2. u[s] = F[<<One(s), u[pr[s]]>>]
      BY <3>1, <2>2, <1>11 DEF FoldsOn, D
    <3> QED
      BY <3>2, <2>2, <1>5
  <2>3. u = [s \in D |-> u[s]]
    BY <1>11 DEF FoldsOn, D
  <2> QED
    BY <2>1, <2>2, <2>3, <1>8 DEF SolvedBy
<1> QED
  BY <1>8, <1>9, <1>10, <1>11 DEF D

---------------------------------------------------------------------------
\* Searches.

CostSum(T) == (CHOOSE it : it = [s \in SUBSET T |-> IF s = {} THEN 0
             ELSE (CHOOSE x \in s : TRUE).cost + it[s \ {CHOOSE x \in s : TRUE}]])[T]

\* A sum over the subsets of a finite set, one chosen element at a time.
SumsOf(g, T, w) ==
    /\ g \in [SUBSET T -> Nat]
    /\ g[{}] = 0
    /\ \A s \in SUBSET T : s # {} => g[s] = w[One(s)] + g[s \ {One(s)}]

\* The costs of finitely many arcs add up.
LEMMA CostsAddUp ==
  ASSUME NEW T, IsFiniteSet(T), \A e \in T : e.cost \in Nat
  PROVE  /\ CostSum(T) \in Nat
         /\ \E g : SumsOf(g, T, [e \in T |-> e.cost]) /\ CostSum(T) = g[T]
<1> DEFINE w == [e \in T |-> e.cost]
           F == [z \in T \X Nat |-> z[1].cost + z[2]]
           H(u) == [s \in SUBSET T |-> IF s = {} THEN 0 ELSE One(s).cost + u[s \ {One(s)}]]
<1>1. F \in [T \X Nat -> Nat] /\ \A e \in T, n \in Nat : F[<<e, n>>] = e.cost + n
  OBVIOUS
<1>2. CostSum(T) = (CHOOSE u : u = H(u))[T]
  BY Zenon DEF CostSum, One
<1> HIDE DEF F
<1>3. PICK g \in [SUBSET T -> Nat] :
            /\ g[{}] = 0
            /\ \A s \in SUBSET T : s # {} => g[s] = F[<<One(s), g[s \ {One(s)}]>>]
            /\ \A u : FoldsOn(u, T, Nat, 0, F) => u = g
  BY <1>1, FoldIs
<1>4. \A s \in SUBSET T : s # {} => One(s) \in T /\ s \ {One(s)} \in SUBSET T
  BY DEF One
<1>5. g = H(g)
  <2>1. \A s \in SUBSET T : g[s] = IF s = {} THEN 0 ELSE One(s).cost + g[s \ {One(s)}]
    BY <1>1, <1>3, <1>4
  <2>2. g = [s \in SUBSET T |-> g[s]]
    BY <1>3
  <2> QED
    BY <2>1, <2>2
<1>6. ASSUME NEW u, u = H(u)  PROVE u = g
  <2>1. /\ \A s \in SUBSET T : H(u)[s] = IF s = {} THEN 0 ELSE One(s).cost + u[s \ {One(s)}]
        /\ H(u) = [s \in SUBSET T |-> H(u)[s]]
    OBVIOUS
  <2> HIDE DEF H
  <2>2. u = [s \in SUBSET T |-> u[s]]
    BY <2>1, <1>6
  <2>3. \A s \in SUBSET T : u[s] = IF s = {} THEN 0 ELSE One(s).cost + u[s \ {One(s)}]
    BY <2>1, <1>6
  <2>4. \A s \in SUBSET T : s # {} /\ u[s \ {One(s)}] \in Nat => u[s] = F[<<One(s), u[s \ {One(s)}]>>]
    BY <2>3, <1>1, <1>4
  <2> QED
    BY <2>2, <2>3, <2>4, <1>3 DEF FoldsOn
<1>7. (CHOOSE u : u = H(u)) = g
  <2> HIDE DEF H
  <2> QED BY <1>5, <1>6
<1>8. SumsOf(g, T, w)
  BY <1>1, <1>3, <1>4 DEF SumsOf
<1> HIDE DEF H, w
<1>9. g[T] \in Nat /\ SumsOf(g, T, w) /\ CostSum(T) = g[T]
  BY <1>2, <1>3, <1>7, <1>8
<1> QED
  BY <1>9 DEF w

\* The search of ShortestWays, written out.
Stepped(S, arcs, limit) ==
    {<<x[2].to, x[1][2] + x[2].cost>> :
        x \in {y \in S \X arcs : y[1][1] = y[2].from /\ y[1][2] + y[2].cost <= limit}}
Lowest(S) == {p \in S : \A q \in S : q[1] # p[1] \/ p[2] <= q[2]}
Ends(arcs) == UNION {{a.from, a.to} : a \in arcs}
Searched(sources, arcs, limit, N, hop) ==
    hop = [n \in 0..N |-> IF n = 0 THEN {<<s, 0>> : s \in sources}
                          ELSE Lowest(hop[n - 1] \cup Stepped(hop[n - 1], arcs, limit))]
Priced(found) == [v \in {p[1] : p \in found} |-> (CHOOSE p \in found : p[1] = v)[2]]

CostsOf(sources, arcs, limit) ==
    Priced((CHOOSE hop : Searched(sources, arcs, limit, Cardinality(Ends(arcs)), hop))
                [Cardinality(Ends(arcs))])

PairsOf(X) == SUBSET (X \X Nat)
ArcsOf(X) == SUBSET [from : X, to : X, cost : Nat]

LEMMA SteppedIs ==
  ASSUME NEW X, NEW S \in PairsOf(X), NEW arcs \in ArcsOf(X), NEW limit
  PROVE  S \cup Stepped(S, arcs, limit) \in PairsOf(X)
<1> USE DEF PairsOf, ArcsOf
<1>1. ASSUME NEW x \in Stepped(S, arcs, limit)  PROVE x \in X \X Nat
  <2>1. PICK p \in S, a \in arcs : x = <<a.to, p[2] + a.cost>>
    BY DEF Stepped
  <2>2. p[2] \in Nat /\ a.cost \in Nat /\ a.to \in X
    OBVIOUS
  <2>3. p[2] + a.cost \in Nat
    BY <2>2
  <2> QED
    BY <2>1, <2>2, <2>3
<1> QED
  BY <1>1

\* Where each vertex has one cost, the function of them is that.
LEMMA PricedIs ==
  ASSUME NEW S, \A p, q \in S : p[1] = q[1] => p = q
  PROVE  /\ \A p \in S : p[1] \in DOMAIN Priced(S) /\ Priced(S)[p[1]] = p[2]
         /\ \A v \in DOMAIN Priced(S) : \E p \in S : p[1] = v
<1>1. ASSUME NEW p \in S  PROVE p[1] \in DOMAIN Priced(S) /\ Priced(S)[p[1]] = p[2]
  <2> DEFINE c == CHOOSE x \in S : x[1] = p[1]
  <2>1. c \in S /\ c[1] = p[1]
    OBVIOUS
  <2>2. p[1] \in DOMAIN Priced(S) /\ Priced(S)[p[1]] = c[2]
    BY DEF Priced
  <2> QED
    BY <2>1, <2>2
<1> QED
  BY <1>1 DEF Priced

(* The rounds of a search: what is reached at what cost, each time with one *)
(* more arc.                                                                *)
Rounds(hop, X, sources, arcs, limit, N) ==
    /\ hop \in [0..N -> PairsOf(X)]
    /\ hop[0] = {<<s, 0>> : s \in sources}
    /\ \A n \in 1..N : hop[n] = Lowest(hop[n - 1] \cup Stepped(hop[n - 1], arcs, limit))
    /\ (CHOOSE h : Searched(sources, arcs, limit, N, h)) = hop

LEMMA WaysAre ==
  ASSUME NEW X, NEW sources \in SUBSET X, NEW arcs \in ArcsOf(X),
         NEW limit \in Nat, NEW N \in Nat
  PROVE  \E hop : Rounds(hop, X, sources, arcs, limit, N)
<1> DEFINE V == PairsOf(X)
           A == {<<s, 0>> : s \in sources}
           Go(S) == Lowest(S \cup Stepped(S, arcs, limit))
           F == [S \in V |-> Go(S)]
           H(h) == [n \in 0..N |-> IF n = 0 THEN A ELSE Go(h[n - 1])]
<1>1. A \in V
  BY DEF PairsOf
<1>2. ASSUME NEW S \in V  PROVE Go(S) \in V
  <2>1. S \cup Stepped(S, arcs, limit) \in PairsOf(X)
    BY SteppedIs
  <2> QED
    BY <2>1 DEF Lowest, PairsOf
<1>3. (CHOOSE h : Searched(sources, arcs, limit, N, h)) = (CHOOSE h : h = H(h))
  BY Zenon DEF Searched
<1> HIDE DEF V, A, Go
<1>4. F \in [V -> V] /\ \A S \in V : F[S] = Go(S)
  BY <1>2
<1> HIDE DEF F
<1>5. PICK g \in [0..N -> V] :
            /\ g[0] = A /\ \A n \in 1..N : g[n] = F[g[n - 1]]
            /\ \A u : FollowsOn(u, N, A, V, F) => u = g
  <2>1. PICK g : SequenceOf(g, N, A, V, F)
    BY <1>1, <1>4, SequenceIs
  <2> QED
    BY <2>1 DEF SequenceOf
<1>6. ASSUME NEW n \in 1..N  PROVE g[n - 1] \in V /\ g[n] = Go(g[n - 1])
  <2>1. n - 1 \in 0..N
    OBVIOUS
  <2> QED
    BY <2>1, <1>4, <1>5
<1>7. g = H(g)
  <2>1. \A n \in 0..N : g[n] = IF n = 0 THEN A ELSE Go(g[n - 1])
    <3>1. \A n \in 0..N : n = 0 \/ n \in 1..N
      OBVIOUS
    <3> QED
      BY <3>1, <1>5, <1>6
  <2>2. g = [n \in 0..N |-> g[n]]
    BY <1>5
  <2> QED
    BY <2>1, <2>2
<1>8. ASSUME NEW u, u = H(u)  PROVE u = g
  <2>1. /\ \A n \in 0..N : H(u)[n] = IF n = 0 THEN A ELSE Go(u[n - 1])
        /\ H(u) = [n \in 0..N |-> H(u)[n]]
    OBVIOUS
  <2> HIDE DEF H
  <2>2. u = [n \in 0..N |-> u[n]]
    BY <2>1, <1>8
  <2>3. u[0] = A /\ \A n \in 1..N : u[n] = Go(u[n - 1])
    BY <2>1, <1>8
  <2>4. \A n \in 1..N : u[n - 1] \in V => u[n] = F[u[n - 1]]
    BY <2>3, <1>4
  <2> QED
    BY <2>2, <2>3, <2>4, <1>5 DEF FollowsOn
<1>9. (CHOOSE h : h = H(h)) = g
  <2> HIDE DEF H
  <2> QED BY <1>7, <1>8
<1> HIDE DEF H
<1> QED
  BY <1>3, <1>5, <1>6, <1>9 DEF Rounds, V, A, Go

\* Everything S knows a way to, T knows one no dearer.
NoDearer(T, S) == \A p \in S : \E q \in T : q[1] = p[1] /\ q[2] <= p[2]

LEMMA LowestIs ==
  ASSUME NEW X, NEW S \in PairsOf(X)
  PROVE  /\ NoDearer(Lowest(S), S) /\ Lowest(S) \in SUBSET S
         /\ \A p, q \in Lowest(S) : p[1] = q[1] => p = q
<1> USE DEF PairsOf
<1>1. ASSUME NEW p \in S  PROVE \E q \in Lowest(S) : q[1] = p[1] /\ q[2] <= p[2]
  <2> DEFINE C == {c \in Nat : <<p[1], c>> \in S}
  <2>1. p = <<p[1], p[2]>> /\ p[2] \in Nat /\ p[1] \in X
    OBVIOUS
  <2>2. p[2] \in C /\ C \in SUBSET Nat
    BY <2>1
  <2>3. \A q \in S : q[1] = p[1] => q[2] \in C
    <3>1. \A q \in S : q = <<q[1], q[2]>> /\ q[2] \in Nat
      OBVIOUS
    <3> QED BY <3>1
  <2>4. \A c \in C : <<p[1], c>> \in S /\ c \in Nat
    OBVIOUS
  <2> HIDE DEF C
  <2>5. PICK c \in C : \A e \in C : c <= e
    BY <2>2, LeastNat
  <2> DEFINE r == <<p[1], c>>
  <2>6. r \in S /\ r[1] = p[1] /\ r[2] = c
    BY <2>4
  <2> HIDE DEF r
  <2>7. r \in Lowest(S)
    BY <2>3, <2>5, <2>6 DEF Lowest
  <2> QED
    BY <2>2, <2>5, <2>6, <2>7
<1>2. ASSUME NEW p \in Lowest(S), NEW q \in Lowest(S), p[1] = q[1]  PROVE p = q
  <2>1. p \in S /\ q \in S /\ p[2] <= q[2] /\ q[2] <= p[2]
    BY <1>2 DEF Lowest
  <2>2. p = <<p[1], p[2]>> /\ q = <<q[1], q[2]>> /\ p[2] \in Nat /\ q[2] \in Nat
    BY <2>1
  <2>3. p[2] = q[2]
    BY <2>1, <2>2
  <2> QED
    BY <2>2, <2>3, <1>2
<1>3. Lowest(S) \in SUBSET S
  BY DEF Lowest
<1> QED
  BY <1>1, <1>2, <1>3 DEF NoDearer

\* From more arcs and no dearer ways follow no dearer ways.
LEMMA SteppedKeeps ==
  ASSUME NEW X, NEW S \in PairsOf(X), NEW T \in PairsOf(X), NoDearer(T, S),
         NEW A \in ArcsOf(X), NEW A2 \in ArcsOf(X),
         A \subseteq A2, NEW limit \in Nat
  PROVE  NoDearer(T \cup Stepped(T, A2, limit), S \cup Stepped(S, A, limit))
<1> USE DEF PairsOf, ArcsOf
<1>1. ASSUME NEW p \in Stepped(S, A, limit)
      PROVE  \E q \in Stepped(T, A2, limit) : q[1] = p[1] /\ q[2] <= p[2]
  <2>1. PICK y \in S, a \in A : y[1] = a.from /\ y[2] + a.cost <= limit /\ p = <<a.to, y[2] + a.cost>>
    BY DEF Stepped
  <2>2. PICK z \in T : z[1] = y[1] /\ z[2] <= y[2]
    BY DEF NoDearer
  <2>3. y[2] \in Nat /\ z[2] \in Nat /\ a.cost \in Nat /\ a \in A2
    OBVIOUS
  <2>4. z[2] + a.cost <= limit /\ z[2] + a.cost <= y[2] + a.cost /\ z[1] = a.from
    BY <2>1, <2>2, <2>3
  <2>5. <<a.to, z[2] + a.cost>> \in Stepped(T, A2, limit)
    <3>1. <<z, a>> \in T \X A2 /\ <<z, a>>[1] = z /\ <<z, a>>[2] = a
      BY <2>3
    <3> QED
      BY <3>1, <2>4, Zenon DEF Stepped
  <2>6. /\ <<a.to, z[2] + a.cost>>[1] = p[1]
        /\ <<a.to, z[2] + a.cost>>[2] = z[2] + a.cost /\ p[2] = y[2] + a.cost
    BY <2>1
  <2> QED
    BY <2>4, <2>5, <2>6
<1> QED
  BY <1>1 DEF NoDearer

LEMMA NoDearerOn ==
  ASSUME NEW X, NEW R \in PairsOf(X), NEW S \in PairsOf(X), NEW T \in PairsOf(X),
         NoDearer(T, S), NoDearer(S, R)
  PROVE  NoDearer(T, R)
<1> SUFFICES ASSUME NEW p \in R  PROVE \E q \in T : q[1] = p[1] /\ q[2] <= p[2]
  BY DEF NoDearer
<1> USE DEF PairsOf
<1>1. PICK y \in S : y[1] = p[1] /\ y[2] <= p[2]
  BY DEF NoDearer
<1>2. PICK z \in T : z[1] = y[1] /\ z[2] <= y[2]
  BY DEF NoDearer
<1>3. p[2] \in Nat /\ y[2] \in Nat /\ z[2] \in Nat
  OBVIOUS
<1> QED
  BY <1>1, <1>2, <1>3

LEMMA EndsFinite ==
  ASSUME NEW A, IsFiniteSet(A)
  PROVE  IsFiniteSet(Ends(A))
<1> DEFINE froms == {a.from : a \in A}
           tos == {a.to : a \in A}
<1>1. IsFiniteSet(froms)
  <2>1. [a \in A |-> a.from] \in Surjection(A, froms)
    BY DEF Surjection
  <2> QED
    BY <2>1, FS_Surjection
<1>2. IsFiniteSet(tos)
  <2>1. [a \in A |-> a.to] \in Surjection(A, tos)
    BY DEF Surjection
  <2> QED
    BY <2>1, FS_Surjection
<1>3. IsFiniteSet(froms \cup tos)
  BY <1>1, <1>2, FS_Union
<1>4. Ends(A) = froms \cup tos
  BY DEF Ends
<1> QED
  BY <1>3, <1>4

(* What a search that may use fewer arcs has found, another one finds too,  *)
(* at no higher cost.                                                       *)
LEMMA SearchesCompare ==
  ASSUME NEW X, NEW sources \in SUBSET X, NEW limit \in Nat,
         NEW A \in ArcsOf(X), NEW A2 \in ArcsOf(X),
         A \subseteq A2, IsFiniteSet(A2)
  PROVE  LET d == CostsOf(sources, A, limit)
             d2 == CostsOf(sources, A2, limit) IN
         /\ DOMAIN d \subseteq X /\ DOMAIN d \subseteq DOMAIN d2
         /\ \A v \in DOMAIN d : d[v] \in Nat /\ d2[v] \in Nat /\ d2[v] <= d[v]
<1> DEFINE N == Cardinality(Ends(A))
           M == Cardinality(Ends(A2))
<1>1. N \in Nat /\ M \in Nat /\ N <= M
  <2>1. IsFiniteSet(Ends(A2))
    BY EndsFinite
  <2>2. Ends(A) \subseteq Ends(A2)
    BY DEF Ends
  <2> QED
    BY <2>1, <2>2, FS_Subset, FS_CardinalityType
<1>2. PICK h : Rounds(h, X, sources, A, limit, N)
  <2> HIDE DEF N
  <2> QED BY <1>1, WaysAre
<1>3. PICK k : Rounds(k, X, sources, A2, limit, M)
  <2> HIDE DEF M
  <2> QED BY <1>1, WaysAre
<1> USE DEF Rounds
<1>4. CostsOf(sources, A, limit) = Priced(h[N]) /\ CostsOf(sources, A2, limit) = Priced(k[M])
  <2>1. CostsOf(sources, A, limit) = Priced((CHOOSE u : Searched(sources, A, limit, N, u))[N])
    BY DEF CostsOf
  <2>2. CostsOf(sources, A2, limit) = Priced((CHOOSE u : Searched(sources, A2, limit, M, u))[M])
    BY DEF CostsOf
  <2> QED
    BY <2>1, <2>2, <1>2, <1>3
<1> HIDE DEF N, M
<1>5. ASSUME NEW n \in 1..M
      PROVE  /\ k[n - 1] \in PairsOf(X)
             /\ k[n - 1] \cup Stepped(k[n - 1], A2, limit) \in PairsOf(X)
             /\ NoDearer(k[n], k[n - 1] \cup Stepped(k[n - 1], A2, limit))
             /\ NoDearer(k[n], k[n - 1])
  <2>1. n - 1 \in 0..M
    BY <1>1
  <2>2. k[n - 1] \in PairsOf(X)
    BY <2>1, <1>2, <1>3
  <2>3. k[n - 1] \cup Stepped(k[n - 1], A2, limit) \in PairsOf(X)
    BY <2>2, SteppedIs
  <2>4. NoDearer(k[n], k[n - 1] \cup Stepped(k[n - 1], A2, limit))
    BY <2>3, <1>3, LowestIs
  <2> QED
    BY <2>2, <2>3, <2>4 DEF NoDearer
<1>6. ASSUME NEW n \in 1..N
      PROVE  /\ h[n - 1] \in PairsOf(X)
             /\ h[n] \in SUBSET (h[n - 1] \cup Stepped(h[n - 1], A, limit))
  <2>1. n - 1 \in 0..N
    BY <1>1
  <2>2. h[n - 1] \in PairsOf(X)
    BY <2>1, <1>2, <1>3
  <2>3. h[n - 1] \cup Stepped(h[n - 1], A, limit) \in PairsOf(X)
    BY <2>2, SteppedIs
  <2> QED
    BY <2>2, <2>3, <1>2, LowestIs
<1>7. ASSUME NEW n \in 1..N, NoDearer(k[n - 1], h[n - 1])  PROVE NoDearer(k[n], h[n])
  <2>1. n \in 1..M /\ n \in 0..M /\ n \in 0..N
    BY <1>1
  <2> DEFINE S == h[n - 1]  T == k[n - 1]
  <2>2. S \in PairsOf(X) /\ T \in PairsOf(X) /\ NoDearer(T, S)
    BY <1>5, <1>6, <1>7, <2>1
  <2> HIDE DEF S, T
  <2>3. NoDearer(T \cup Stepped(T, A2, limit), S \cup Stepped(S, A, limit))
    BY <2>2, SteppedKeeps
  <2>4. NoDearer(T \cup Stepped(T, A2, limit), h[n])
    BY <2>3, <1>6 DEF NoDearer, S
  <2>5. NoDearer(k[n], T \cup Stepped(T, A2, limit)) /\ T \cup Stepped(T, A2, limit) \in PairsOf(X)
    BY <1>5, <2>1 DEF T
  <2>6. h[n] \in PairsOf(X) /\ k[n] \in PairsOf(X)
    BY <2>1, <1>2, <1>3
  <2> QED
    BY <2>4, <2>5, <2>6, NoDearerOn
<1>8. NoDearer(k[N], h[N])
  <2> DEFINE G == {n \in Nat : NoDearer(k[n], h[n])}
  <2>1. 0 \in G
    BY <1>2, <1>3 DEF NoDearer
  <2>2. \A n \in 0..N : n # 0 /\ n - 1 \in G => n \in G
    BY <1>7, <1>1
  <2>3. 0..N \subseteq G
    <3> HIDE DEF G
    <3> QED BY <2>1, <2>2, <1>1, Upward
  <2>4. N \in 0..N
    BY <1>1
  <2> QED
    BY <2>3, <2>4
<1>9. NoDearer(k[M], k[N])
  <2> DEFINE G == {n \in Nat : NoDearer(k[n], k[N])}
  <2>1. N \in G
    <3>1. k[N] \in PairsOf(X)
      BY <1>1, <1>3
    <3>2. \A p \in k[N] : p[2] \in Nat
      BY <3>1 DEF PairsOf
    <3> QED
      BY <1>1, <3>2 DEF NoDearer
  <2>2. ASSUME NEW n \in N..M, n # N, n - 1 \in G  PROVE n \in G
    <3>1. n \in 1..M /\ n \in 0..M /\ N \in 0..M /\ n \in Nat
      BY <1>1, <2>2
    <3>2. NoDearer(k[n], k[n - 1]) /\ NoDearer(k[n - 1], k[N]) /\ k[n - 1] \in PairsOf(X)
      BY <1>5, <2>2, <3>1
    <3>3. k[n] \in PairsOf(X) /\ k[N] \in PairsOf(X)
      BY <3>1, <1>2, <1>3
    <3>4. NoDearer(k[n], k[N])
      BY <3>2, <3>3, NoDearerOn
    <3> QED
      BY <3>1, <3>4
  <2>3. N..M \subseteq G
    <3> HIDE DEF G
    <3> QED BY <2>1, <2>2, <1>1, Upward
  <2>4. M \in N..M
    BY <1>1
  <2> QED
    BY <2>3, <2>4
<1>10. h[N] \in PairsOf(X) /\ k[M] \in PairsOf(X) /\ k[N] \in PairsOf(X)
  <2>1. N \in 0..N /\ M \in 0..M /\ N \in 0..M
    BY <1>1
  <2> QED
    BY <2>1, <1>2, <1>3
<1>11. NoDearer(k[M], h[N])
  BY <1>8, <1>9, <1>10, NoDearerOn
<1>12. (\A p, q \in h[N] : p[1] = q[1] => p = q) /\ (\A p, q \in k[M] : p[1] = q[1] => p = q)
  <2>1. \A p, q \in {<<s, 0>> : s \in sources} : p[1] = q[1] => p = q
    OBVIOUS
  <2>2. N = 0 \/ N \in 1..N
    BY <1>1
  <2>3. M = 0 \/ M \in 1..M
    BY <1>1
  <2>4. N \in 1..N => \A p, q \in h[N] : p[1] = q[1] => p = q
    <3> SUFFICES ASSUME N \in 1..N PROVE \A p, q \in h[N] : p[1] = q[1] => p = q
      OBVIOUS
    <3>1. h[N - 1] \cup Stepped(h[N - 1], A, limit) \in PairsOf(X)
      BY <1>6, SteppedIs
    <3> QED
      BY <3>1, <1>2, LowestIs
  <2>5. M \in 1..M => \A p, q \in k[M] : p[1] = q[1] => p = q
    <3> SUFFICES ASSUME M \in 1..M PROVE \A p, q \in k[M] : p[1] = q[1] => p = q
      OBVIOUS
    <3>1. k[M - 1] \cup Stepped(k[M - 1], A2, limit) \in PairsOf(X)
      BY <1>5
    <3> QED
      BY <3>1, <1>3, LowestIs
  <2> QED
    BY <2>1, <2>2, <2>3, <2>4, <2>5, <1>2, <1>3
<1>13. /\ \A p \in h[N] : p[1] \in DOMAIN Priced(h[N]) /\ Priced(h[N])[p[1]] = p[2]
       /\ \A v \in DOMAIN Priced(h[N]) : \E p \in h[N] : p[1] = v
  BY <1>12, PricedIs
<1>14. \A p \in k[M] : p[1] \in DOMAIN Priced(k[M]) /\ Priced(k[M])[p[1]] = p[2]
  BY <1>12, PricedIs
<1>15. ASSUME NEW v \in DOMAIN Priced(h[N])
       PROVE  /\ v \in X /\ v \in DOMAIN Priced(k[M])
              /\ Priced(h[N])[v] \in Nat /\ Priced(k[M])[v] \in Nat /\ Priced(k[M])[v] <= Priced(h[N])[v]
  <2>1. PICK p \in h[N] : p[1] = v
    BY <1>13
  <2>2. PICK q \in k[M] : q[1] = p[1] /\ q[2] <= p[2]
    BY <1>11 DEF NoDearer
  <2>3. p[1] \in X /\ p[2] \in Nat /\ q[2] \in Nat
    BY <1>10 DEF PairsOf
  <2> QED
    BY <2>1, <2>2, <2>3, <1>13, <1>14
<1> QED
  BY <1>4, <1>15

\* Where a search begins costs nothing.
LEMMA SourcesAreFree ==
  ASSUME NEW X, NEW sources \in SUBSET X, NEW limit \in Nat,
         NEW A \in ArcsOf(X), IsFiniteSet(A)
  PROVE  \A s \in sources : CostsOf(sources, A, limit)[s] = 0
<1> DEFINE N == Cardinality(Ends(A))
<1>1. N \in Nat
  BY EndsFinite, FS_CardinalityType
<1>2. PICK h : Rounds(h, X, sources, A, limit, N)
  <2> HIDE DEF N
  <2> QED BY <1>1, WaysAre
<1>3. CostsOf(sources, A, limit) = Priced(h[N])
  <2>1. CostsOf(sources, A, limit) = Priced((CHOOSE u : Searched(sources, A, limit, N, u))[N])
    BY DEF CostsOf
  <2> QED
    BY <2>1, <1>2 DEF Rounds
<1> HIDE DEF N
<1>4. \A n \in 0..N : h[n] \in PairsOf(X)
  BY <1>2 DEF Rounds
<1>5. ASSUME NEW n \in 1..N
      PROVE  /\ n - 1 \in 0..N
             /\ NoDearer(h[n], h[n - 1])
             /\ \A p, q \in h[n] : p[1] = q[1] => p = q
  <2>1. n - 1 \in 0..N
    BY <1>1
  <2>2. h[n - 1] \cup Stepped(h[n - 1], A, limit) \in PairsOf(X)
    BY <2>1, <1>4, SteppedIs
  <2>3. h[n] = Lowest(h[n - 1] \cup Stepped(h[n - 1], A, limit))
    BY <1>2 DEF Rounds
  <2>4. /\ NoDearer(h[n], h[n - 1] \cup Stepped(h[n - 1], A, limit))
        /\ \A p, q \in h[n] : p[1] = q[1] => p = q
    <3> DEFINE R == h[n - 1] \cup Stepped(h[n - 1], A, limit)
    <3>1. R \in PairsOf(X) /\ h[n] = Lowest(R)
      BY <2>2, <2>3
    <3> HIDE DEF R
    <3>2. NoDearer(Lowest(R), R) /\ \A p, q \in Lowest(R) : p[1] = q[1] => p = q
      BY <3>1, LowestIs
    <3>3. NoDearer(h[n], R) /\ \A p, q \in h[n] : p[1] = q[1] => p = q
      BY Zenon, <3>1, <3>2
    <3> QED
      BY <3>3 DEF R
  <2> QED
    BY <2>1, <2>4 DEF NoDearer
<1>6. \A p, q \in h[0] : p[1] = q[1] => p = q
  BY <1>2 DEF Rounds
<1> DEFINE S == {n \in 0..N : NoDearer(h[n], h[0])}
<1>7. 0 \in S
  <2>1. \A p \in h[0] : p[2] <= p[2]
    BY <1>1, <1>4 DEF PairsOf
  <2> QED
    BY <2>1, <1>1 DEF NoDearer
<1>8. ASSUME NEW n \in 0..N, n # 0, n - 1 \in S  PROVE n \in S
  <2>1. n \in 1..N
    BY <1>8
  <2>2. NoDearer(h[n], h[n - 1]) /\ NoDearer(h[n - 1], h[0])
    BY <2>1, <1>5, <1>8
  <2>3. h[n] \in PairsOf(X) /\ h[n - 1] \in PairsOf(X) /\ h[0] \in PairsOf(X)
    BY <1>1, <1>4, <1>8
  <2> QED
    BY <2>2, <2>3, NoDearerOn
<1>9. N \in S
  <2> HIDE DEF S
  <2>1. 0..N \subseteq S
    BY <1>1, <1>7, <1>8, Upward
  <2> QED
    BY <2>1, <1>1
<1>10. \A p, q \in h[N] : p[1] = q[1] => p = q
  <2>1. N = 0 \/ N \in 1..N
    BY <1>1
  <2> QED
    BY <2>1, <1>5, <1>6
<1>11. TAKE s \in sources
<1>12. <<s, 0>> \in h[0]
  BY <1>2 DEF Rounds
<1>13. PICK q \in h[N] : q[1] = s /\ q[2] <= 0
  BY <1>9, <1>12 DEF NoDearer
<1>14. q[2] \in Nat
  BY <1>1, <1>4 DEF PairsOf
<1>15. Priced(h[N])[s] = q[2]
  BY <1>10, <1>13, PricedIs
<1> QED
  BY <1>3, <1>13, <1>14, <1>15

---------------------------------------------------------------------------
\* The matrix of some edges, before parallel entries are added up.
EntriesOf(es) ==
    {[from |-> e.src, to |-> e.dst, cost |-> e.cost, of |-> e] : e \in {x \in es : x.cost >= 0}} \cup
    {[from |-> e.dst, to |-> e.src, cost |-> e.reverse_cost, of |-> e] : e \in {x \in es : x.reverse_cost >= 0}}
Between(es, u, v) == {e \in EntriesOf(es) : e.from = u /\ e.to = v}
MatrixOf(es) ==
    {[from |-> l[1], to |-> l[2], cost |-> CostSum(Between(es, l[1], l[2]))] :
        l \in {<<e.from, e.to>> : e \in EntriesOf(es)}}
EdgeRows == [src : Int, dst : Int, cost : Int, reverse_cost : Int]

LEMMA ArcsAre ==
  ASSUME NEW es
  PROVE  /\ \A a \in MatrixOf(es) : \E e \in EntriesOf(es) :
                a = [from |-> e.from, to |-> e.to, cost |-> CostSum(Between(es, e.from, e.to))]
         /\ \A e \in EntriesOf(es) :
                [from |-> e.from, to |-> e.to, cost |-> CostSum(Between(es, e.from, e.to))] \in MatrixOf(es)
         /\ MatrixOf(es) = {[from |-> e.from, to |-> e.to, cost |-> CostSum(Between(es, e.from, e.to))] : e \in EntriesOf(es)}
<1> DEFINE arc(u, v) == [from |-> u, to |-> v, cost |-> CostSum(Between(es, u, v))]
<1>2. MatrixOf(es) = {arc(l[1], l[2]) : l \in {<<e.from, e.to>> : e \in EntriesOf(es)}}
  BY Zenon DEF MatrixOf
<1>3. {arc(l[1], l[2]) : l \in {<<e.from, e.to>> : e \in EntriesOf(es)}} = {arc(e.from, e.to) : e \in EntriesOf(es)}
  <2> HIDE DEF arc
  <2>1. \A e : <<e.from, e.to>>[1] = e.from /\ <<e.from, e.to>>[2] = e.to
    OBVIOUS
  <2>2. ASSUME NEW a \in {arc(l[1], l[2]) : l \in {<<e.from, e.to>> : e \in EntriesOf(es)}}
        PROVE  \E e \in EntriesOf(es) : a = arc(e.from, e.to)
    <3>1. PICK l \in {<<e.from, e.to>> : e \in EntriesOf(es)} : a = arc(l[1], l[2])
      OBVIOUS
    <3>2. PICK e \in EntriesOf(es) : l = <<e.from, e.to>>
      OBVIOUS
    <3> QED
      BY <3>1, <3>2
  <2>3. ASSUME NEW e \in EntriesOf(es)
        PROVE  arc(e.from, e.to) \in {arc(l[1], l[2]) : l \in {<<x.from, x.to>> : x \in EntriesOf(es)}}
    <3> DEFINE l == <<e.from, e.to>>
    <3>1. l \in {<<x.from, x.to>> : x \in EntriesOf(es)} /\ l[1] = e.from /\ l[2] = e.to
      OBVIOUS
    <3> HIDE DEF l
    <3> QED
      BY <3>1
  <2> QED
    BY <2>2, <2>3
<1>4. MatrixOf(es) = {arc(e.from, e.to) : e \in EntriesOf(es)}
  BY <1>2, <1>3
<1> QED
  BY <1>4

LEMMA EntriesAre ==
  ASSUME NEW es \in SUBSET EdgeRows, IsFiniteSet(es)
  PROVE  /\ IsFiniteSet(EntriesOf(es))
         /\ \A e \in EntriesOf(es) :
              /\ e.from \in Int /\ e.to \in Int /\ e.cost \in Nat
              /\ e.of \in es /\ {e.from, e.to} = {e.of.src, e.of.dst}
         /\ \A gs \in SUBSET es : \A e \in EntriesOf(es) : e.of \in gs => e \in EntriesOf(gs)
         /\ \A gs \in SUBSET es : EntriesOf(gs) \subseteq EntriesOf(es)
<1> DEFINE There(x) == [from |-> x.src, to |-> x.dst, cost |-> x.cost, of |-> x]
           Back(x) == [from |-> x.dst, to |-> x.src, cost |-> x.reverse_cost, of |-> x]
           F == {x \in es : x.cost >= 0}
           R == {x \in es : x.reverse_cost >= 0}
           TF == {There(x) : x \in F}
           TR == {Back(x) : x \in R}
<1>1. EntriesOf(es) = TF \cup TR
  BY DEF EntriesOf
<1>2. IsFiniteSet(F) /\ IsFiniteSet(R)
  BY FS_Subset
<1>3. IsFiniteSet(TF)
  <2> HIDE DEF F, There
  <2>1. [x \in F |-> There(x)] \in Surjection(F, TF)
    BY DEF Surjection
  <2> QED
    BY <1>2, <2>1, FS_Surjection
<1>4. IsFiniteSet(TR)
  <2> HIDE DEF R, Back
  <2>1. [x \in R |-> Back(x)] \in Surjection(R, TR)
    BY DEF Surjection
  <2> QED
    BY <1>2, <2>1, FS_Surjection
<1>5. ASSUME NEW e \in EntriesOf(es)
      PROVE  /\ e.from \in Int /\ e.to \in Int /\ e.cost \in Nat
             /\ e.of \in es /\ {e.from, e.to} = {e.of.src, e.of.dst}
             /\ \A gs \in SUBSET es : e.of \in gs => e \in EntriesOf(gs)
  <2>1. PICK x \in es : (e = There(x) /\ x.cost >= 0) \/ (e = Back(x) /\ x.reverse_cost >= 0)
    <3>1. e \in TF \/ e \in TR
      BY <1>1
    <3>2. e \in TF => \E x \in es : e = There(x) /\ x.cost >= 0
      OBVIOUS
    <3>3. e \in TR => \E x \in es : e = Back(x) /\ x.reverse_cost >= 0
      OBVIOUS
    <3> HIDE DEF TF, TR, There, Back
    <3> QED
      BY <3>1, <3>2, <3>3
  <2>2. x.src \in Int /\ x.dst \in Int /\ x.cost \in Int /\ x.reverse_cost \in Int
    BY DEF EdgeRows
  <2>3. CASE e = There(x) /\ x.cost >= 0
    <3>1. e.from = x.src /\ e.to = x.dst /\ e.cost = x.cost /\ e.of = x
      BY <2>3
    <3>2. \A gs : x \in gs => e \in EntriesOf(gs)
      BY <2>3 DEF EntriesOf
    <3> HIDE DEF There
    <3> QED
      BY <2>2, <2>3, <3>1, <3>2
  <2>4. CASE e = Back(x) /\ x.reverse_cost >= 0
    <3>1. e.from = x.dst /\ e.to = x.src /\ e.cost = x.reverse_cost /\ e.of = x
      BY <2>4
    <3>2. \A gs : x \in gs => e \in EntriesOf(gs)
      BY <2>4 DEF EntriesOf
    <3> HIDE DEF Back
    <3> QED
      BY <2>2, <2>4, <3>1, <3>2
  <2> QED
    BY <2>1, <2>3, <2>4
<1>6. \A gs \in SUBSET es : EntriesOf(gs) \subseteq EntriesOf(es)
  BY DEF EntriesOf
<1>7. IsFiniteSet(EntriesOf(es))
  <2> HIDE DEF TF, TR
  <2> QED BY <1>1, <1>3, <1>4, FS_Union
<1> QED
  BY <1>5, <1>6, <1>7

\* The matrix of edges has arcs that cost natural numbers, finitely many.
LEMMA ArcsTyped ==
  ASSUME NEW es \in SUBSET EdgeRows, IsFiniteSet(es)
  PROVE  MatrixOf(es) \in ArcsOf(Int) /\ IsFiniteSet(MatrixOf(es))
<1> DEFINE arc(e) == [from |-> e.from, to |-> e.to, cost |-> CostSum(Between(es, e.from, e.to))]
           E == EntriesOf(es)
           T == {arc(e) : e \in E}
<1>1. IsFiniteSet(E) /\ \A e \in E : e.from \in Int /\ e.to \in Int /\ e.cost \in Nat
  BY EntriesAre
<1>2. ASSUME NEW e \in E  PROVE CostSum(Between(es, e.from, e.to)) \in Nat
  <2>1. Between(es, e.from, e.to) \subseteq E
    BY DEF Between
  <2>2. IsFiniteSet(Between(es, e.from, e.to))
    BY <1>1, <2>1, FS_Subset
  <2> QED
    BY <1>1, <2>1, <2>2, CostsAddUp
<1>3. T \in ArcsOf(Int)
  BY <1>1, <1>2 DEF ArcsOf
<1>4. IsFiniteSet(T)
  <2> HIDE DEF arc, E
  <2>1. [e \in E |-> arc(e)] \in Surjection(E, T)
    BY DEF Surjection
  <2> QED
    BY <1>1, <2>1, FS_Surjection
<1>5. MatrixOf(es) = T
  BY ArcsAre
<1> QED
  BY <1>3, <1>4, <1>5

(* A crop that keeps all edges between what it keeps has no arc the whole   *)
(* does not have.                                                           *)
LEMMA CropIsPart ==
  ASSUME NEW gs \in SUBSET EdgeRows, IsFiniteSet(gs), NEW kept,
         NEW es, es = {e \in gs : e.src \in kept /\ e.dst \in kept}
  PROVE  MatrixOf(es) \subseteq MatrixOf(gs)
<1> SUFFICES ASSUME NEW a \in MatrixOf(es)  PROVE a \in MatrixOf(gs)
  OBVIOUS
<1>0. es \in SUBSET EdgeRows /\ es \in SUBSET gs /\ IsFiniteSet(es)
  BY FS_Subset
<1>1. PICK e \in EntriesOf(es) : a = [from |-> e.from, to |-> e.to, cost |-> CostSum(Between(es, e.from, e.to))]
  BY ArcsAre
<1>2. e.from \in kept /\ e.to \in kept
  <2>1. e.of \in es /\ {e.from, e.to} = {e.of.src, e.of.dst}
    BY <1>0, EntriesAre
  <2> QED
    BY <2>1
<1>3. e \in EntriesOf(gs)
  BY <1>0, EntriesAre
<1>4. ASSUME NEW x \in EntriesOf(gs), x.from = e.from, x.to = e.to  PROVE x \in EntriesOf(es)
  <2>1. x.of \in gs /\ {x.from, x.to} = {x.of.src, x.of.dst}
    BY EntriesAre
  <2>2. x.of \in es
    BY <2>1, <1>2, <1>4
  <2> QED
    BY <2>2, <1>0, EntriesAre
<1>5. Between(es, e.from, e.to) = Between(gs, e.from, e.to)
  <2>1. EntriesOf(es) \subseteq EntriesOf(gs)
    BY <1>0, EntriesAre
  <2> QED
    BY <1>4, <2>1 DEF Between
<1> QED
  BY <1>1, <1>3, <1>5, ArcsAre

---------------------------------------------------------------------------
\* LocalSearch.
CONSTANTS Edges, CellWidth, Buffer, Starts, TargetSets, Limit, Floor, Slack, Preferences, Intercepts
VARIABLES rows, start, targets, prefer, intercept, result
Search == INSTANCE LocalSearch

LEMMA SearchIs ==
  /\ \A es : Search!Arcs(es) = MatrixOf(es)
  /\ \A sources, arcs, limit : Search!Costs(sources, arcs, limit) = CostsOf(sources, arcs, limit)
<1>1. ASSUME NEW es  PROVE Search!Arcs(es) = MatrixOf(es)
  BY Zenon DEF Search!Arcs, Search!Csr, Search!MapThenSumSet, Search!MapThenFoldSet,
               MatrixOf, EntriesOf, Between, CostSum
<1>2. ASSUME NEW sources, NEW arcs, NEW limit
      PROVE  Search!Costs(sources, arcs, limit) = CostsOf(sources, arcs, limit)
  BY Zenon DEF Search!Costs, Search!Cheapest, Search!Cardinality,
               CostsOf, Priced, Searched, Ends, Stepped, Lowest, Cardinality
<1> QED
  BY <1>1, <1>2

LEMMA EdgesTyped ==
  ASSUME Search!LocalSearchAssumption, NEW es \in SUBSET Edges
  PROVE  /\ es \in SUBSET EdgeRows /\ IsFiniteSet(es)
         /\ Search!Arcs(es) \in ArcsOf(Int) /\ IsFiniteSet(Search!Arcs(es))
<1>1. Search!IsFiniteSet(Edges) /\ Edges \in SUBSET EdgeRows
  BY DEF Search!LocalSearchAssumption, EdgeRows
<1>2. Search!IsFiniteSet(Edges) <=> IsFiniteSet(Edges)
  BY Zenon DEF Search!IsFiniteSet, IsFiniteSet
<1>3. es \in SUBSET EdgeRows /\ IsFiniteSet(es)
  BY <1>1, <1>2, FS_Subset
<1> QED
  BY <1>3, ArcsTyped, SearchIs

(* Of the wanted vertices the search reached one is chosen, and none only   *)
(* when there is none.                                                      *)
LEMMA BestIs ==
  ASSUME Search!LocalSearchAssumption, NEW es \in SUBSET Edges, start \in Int,
         NEW among, among \subseteq Int, IsFiniteSet(among), intercept \in Int \cup {None}
  PROVE  LET d == Search!Costs({start}, Search!Arcs(es), Limit)
             r == Search!Best(es, among) IN
         /\ r = None <=> among \cap DOMAIN d = {}
         /\ r # None => r.vid \in among \cap DOMAIN d /\ r.cost = d[r.vid]
<1> DEFINE d == Search!Costs({start}, Search!Arcs(es), Limit)
           reached == among \cap DOMAIN d
           pull(t) == IF intercept = None THEN 0 ELSE Search!Distance(t, intercept)
           score == [t \in reached |-> d[t] + pull(t)]
           best == {t \in reached : \A u \in reached : score[t] <= score[u]}
           l == Search!Least(best)
           r == Search!Best(es, among)
<1>1. \A v \in DOMAIN d : d[v] \in Nat
  <2>1. Search!Arcs(es) \in ArcsOf(Int) /\ IsFiniteSet(Search!Arcs(es))
    BY EdgesTyped
  <2>2. Limit \in Nat /\ {start} \in SUBSET Int
    BY DEF Search!LocalSearchAssumption
  <2> QED
    BY <2>1, <2>2, SearchesCompare, SearchIs
<1>2. r = IF reached = {} THEN None ELSE [vid |-> l, cost |-> d[l]]
  BY Zenon DEF Search!Best
<1>3. reached \subseteq Int /\ IsFiniteSet(reached)
  BY FS_Subset
<1>4. reached = among \cap DOMAIN d
  OBVIOUS
<1>5. ASSUME NEW t \in reached  PROVE pull(t) \in Int
  BY <1>3 DEF Search!Distance
<1>6. \A t \in reached : score[t] \in Int
  <2>1. \A t \in reached : d[t] \in Nat
    BY <1>1, <1>4
  <2> HIDE DEF d, reached, pull
  <2> QED
    BY <1>5, <2>1
<1> HIDE DEF d, reached, score, r
<1>7. ASSUME reached # {}  PROVE best # {}
  <2> DEFINE S == {score[t] : t \in reached}
  <2>1. S \in SUBSET Int /\ S # {}
    BY <1>6, <1>7
  <2>2. IsFiniteSet(S)
    <3>1. [t \in reached |-> score[t]] \in Surjection(reached, S)
      BY DEF Surjection
    <3> QED
      BY <3>1, <1>3, FS_Surjection
  <2>3. PICK m \in S : \A x \in S : m <= x
    <3> HIDE DEF S
    <3> QED BY <2>1, <2>2, LeastInt
  <2> QED
    BY <2>3
<1>8. reached # {} => l \in reached
  <2>1. best \in SUBSET Int /\ IsFiniteSet(best) /\ best \subseteq reached
    BY <1>3, FS_Subset
  <2> HIDE DEF best
  <2>2. best # {} => \E x \in best : \A y \in best : x <= y
    BY <2>1, LeastInt
  <2> QED
    BY <1>7, <2>1, <2>2 DEF Search!Least
<1> HIDE DEF l
<1>9. reached # {} => /\ [vid |-> l, cost |-> d[l]] # None
                      /\ [vid |-> l, cost |-> d[l]].vid = l /\ [vid |-> l, cost |-> d[l]].cost = d[l]
  <2>1. reached # {} => l \in Int /\ d[l] \in Nat
    BY <1>1, <1>3, <1>4, <1>8
  <2>2. None \notin [vid : Int, cost : Nat]
    BY DEF Search!LocalSearchAssumption
  <2> QED
    BY <2>1, <2>2
<1>10. /\ r = None <=> reached = {}
       /\ r # None => r.vid \in reached /\ r.cost = d[r.vid]
  BY <1>2, <1>8, <1>9
<1> QED
  BY <1>4, <1>10 DEF d, r

\* What a search is about stays as it was.
AnswersInv ==
    /\ rows \in SUBSET Edges /\ targets \in TargetSets /\ intercept \in Intercepts
    /\ Search!SearchAnswers

LEMMA WantedIs ==
  ASSUME Search!LocalSearchAssumption, rows \in SUBSET Edges, targets \in TargetSets
  PROVE  /\ Search!Graph \in SUBSET Edges
         /\ Search!Wanted \subseteq Int /\ IsFiniteSet(Search!Wanted)
         /\ Search!VertsOf(Search!Graph) \subseteq Int
<1>1. Search!Graph \in SUBSET Edges
  BY DEF Search!Graph, Search!CellFile
<1>2. targets \subseteq Int /\ IsFiniteSet(targets)
  <2>1. targets \subseteq Int /\ Search!IsFiniteSet(targets)
    BY DEF Search!LocalSearchAssumption
  <2>2. Search!IsFiniteSet(targets) <=> IsFiniteSet(targets)
    BY Zenon DEF Search!IsFiniteSet, IsFiniteSet
  <2> QED
    BY <2>1, <2>2
<1>3. Search!Preferred \subseteq targets
  BY DEF Search!Preferred
<1>4. Search!Wanted \subseteq targets
  BY <1>3 DEF Search!Wanted
<1>5. Search!VertsOf(Search!Graph) \subseteq Int
  BY <1>1 DEF Search!VertsOf, Search!LocalSearchAssumption
<1> QED
  BY <1>1, <1>2, <1>4, <1>5, FS_Subset

Promised(p, r) ==
    p = "done" /\ Search!Loadable =>
        LET d == Search!Costs({start}, Search!Arcs(Search!Graph), Limit)
            inReach == Search!Wanted \cap DOMAIN d IN
        IF r = None THEN inReach = {}
        ELSE r.vid \in inReach /\ d[r.vid] <= r.cost

LEMMA PromiseStays ==
  ASSUME UNCHANGED <<rows, start, targets, prefer, intercept>>
  PROVE  Search!SearchAnswers' <=> Promised(pc', result')
<1>1. Search!Graph' = Search!Graph
  BY DEF Search!Graph, Search!CellFile, Search!Cells, Search!CellOf
<1>2. Search!Wanted' = Search!Wanted
  BY <1>1 DEF Search!Wanted, Search!Preferred, Search!VertsOf, Search!Distance
<1>3. Search!Loadable' <=> Search!Loadable
  BY <1>1, <1>2 DEF Search!Loadable, Search!CellFile, Search!CellOf, Search!VertsOf
<1>4. Search!Costs({start}, Search!Arcs(Search!Graph), Limit)' = Search!Costs({start}, Search!Arcs(Search!Graph), Limit)
  BY <1>1
<1> QED
  BY <1>1, <1>2, <1>3, Zenon DEF Search!SearchAnswers, Promised

LEMMA SearchStarts == Search!Init => AnswersInv
<1> SUFFICES ASSUME Search!Init PROVE AnswersInv
  OBVIOUS
<1>1. pc = "load" /\ rows \in SUBSET Edges /\ targets \in TargetSets /\ intercept \in Intercepts
  BY DEF Search!Init
<1>2. pc # "done"
  BY <1>1
<1> QED
  BY <1>1, <1>2 DEF AnswersInv, Search!SearchAnswers

LEMMA SearchKeeps ==
  ASSUME Search!LocalSearchAssumption, AnswersInv, [Search!Next]_(Search!vars)
  PROVE  AnswersInv'
<1>0. rows \in SUBSET Edges /\ targets \in TargetSets /\ intercept \in Intercepts
  BY DEF AnswersInv
<1>1. intercept \in Int \cup {None}
  BY <1>0 DEF Search!LocalSearchAssumption
<1>2. UNCHANGED <<rows, start, targets, prefer, intercept>>
  BY DEF Search!Next, Search!vars, Search!LoadFails, Search!Load, Search!SearchCrop, Search!SkipCrop, Search!SearchWhole
<1> DEFINE G == Search!Graph
           d == Search!Costs({start}, Search!Arcs(G), Limit)
<1>3. /\ G \in SUBSET Edges /\ Search!Wanted \subseteq Int /\ IsFiniteSet(Search!Wanted)
      /\ Search!VertsOf(G) \subseteq Int
  BY <1>0, WantedIs
<1>4. Search!Loadable => start \in Int
  BY <1>3 DEF Search!Loadable
<1>5. Promised(pc', result')
  <2> SUFFICES ASSUME pc' = "done", Search!Loadable
               PROVE  IF result' = None THEN Search!Wanted \cap DOMAIN d = {}
                      ELSE result'.vid \in Search!Wanted \cap DOMAIN d /\ d[result'.vid] <= result'.cost
    BY DEF Promised
  <2>1. CASE Search!LoadFails
    BY <2>1 DEF Search!LoadFails
  <2>2. CASE Search!Load \/ Search!SkipCrop
    BY <2>2 DEF Search!Load, Search!SkipCrop
  <2>3. CASE Search!SearchCrop
    <3> DEFINE C == Search!Cropped
               e == Search!Costs({start}, Search!Arcs(C), Limit)
               r == Search!Best(C, Search!Wanted)
    <3>1. r # None /\ result' = r
      BY <2>3 DEF Search!SearchCrop, Search!Answer
    <3>2. C = {x \in G : x.src \in Search!Kept /\ x.dst \in Search!Kept}
      BY DEF Search!Cropped
    <3>3. C \in SUBSET Edges
      BY <3>2, <1>3
    <3>4. r.vid \in Search!Wanted \cap DOMAIN e /\ r.cost = e[r.vid]
      <4> HIDE DEF C
      <4> QED BY <1>1, <1>3, <1>4, <3>1, <3>3, BestIs
    <3>5. Search!Arcs(C) \subseteq Search!Arcs(G)
      <4> HIDE DEF C, G
      <4> QED BY <1>3, <3>2, EdgesTyped, CropIsPart, SearchIs
    <3>6. DOMAIN e \subseteq DOMAIN d /\ \A v \in DOMAIN e : d[v] <= e[v]
      <4>1. Search!Arcs(C) \in ArcsOf(Int) /\ Search!Arcs(G) \in ArcsOf(Int) /\ IsFiniteSet(Search!Arcs(G))
        BY <1>3, <3>3, EdgesTyped
      <4>2. Limit \in Nat /\ {start} \in SUBSET Int
        BY <1>4 DEF Search!LocalSearchAssumption
      <4> HIDE DEF C, G
      <4> QED
        BY <3>5, <4>1, <4>2, SearchesCompare, SearchIs
    <3> HIDE DEF d, e, r
    <3> QED
      BY <3>1, <3>4, <3>6
  <2>4. CASE Search!SearchWhole
    <3> DEFINE r == Search!Best(G, Search!Wanted)
    <3>1. result' = r
      BY <2>4 DEF Search!SearchWhole, Search!Answer
    <3>2. /\ r = None <=> Search!Wanted \cap DOMAIN d = {}
          /\ r # None => r.vid \in Search!Wanted \cap DOMAIN d /\ r.cost = d[r.vid]
      <4> HIDE DEF G
      <4> QED BY <1>1, <1>3, <1>4, BestIs
    <3>3. \A v \in DOMAIN d : d[v] \in Nat
      <4>1. Search!Arcs(G) \in ArcsOf(Int) /\ IsFiniteSet(Search!Arcs(G))
        BY <1>3, EdgesTyped
      <4>2. Limit \in Nat /\ {start} \in SUBSET Int
        BY <1>4 DEF Search!LocalSearchAssumption
      <4> HIDE DEF G
      <4> QED
        BY <4>1, <4>2, SearchesCompare, SearchIs
    <3> HIDE DEF d, r
    <3> QED
      BY <3>1, <3>2, <3>3
  <2>5. CASE UNCHANGED Search!vars
    <3>1. pc = "done" /\ result' = result
      BY <2>5 DEF Search!vars
    <3> QED
      BY <3>1 DEF AnswersInv, Search!SearchAnswers
  <2> QED
    BY <2>1, <2>2, <2>3, <2>4, <2>5 DEF Search!Next
<1>6. Search!SearchAnswers'
  BY <1>2, <1>5, PromiseStays
<1> QED
  BY <1>0, <1>2, <1>6 DEF AnswersInv

(* A road search overlooks nothing: when it comes back empty, none of the   *)
(* wanted targets is in reach of the start in the cells it loaded, and what *)
(* it comes back with is a wanted target in reach, at no less than its cost *)
(* there; whatever the cells hold, however small the crop is and wherever   *)
(* it is pulled.  For LocalSearch this is SearchAnswers.                    *)
THEOREM SearchesAnswer ==
  Search!LocalSearchAssumption => (Search!Spec => []Search!SearchAnswers)
<1> SUFFICES ASSUME Search!LocalSearchAssumption PROVE Search!Spec => []Search!SearchAnswers
  OBVIOUS
<1>1. Search!Init => AnswersInv
  BY SearchStarts
<1>2. AnswersInv /\ [Search!Next]_(Search!vars) => AnswersInv'
  BY SearchKeeps
<1>3. AnswersInv => Search!SearchAnswers
  BY DEF AnswersInv
<1> QED
  BY <1>1, <1>2, <1>3, PTL DEF Search!Spec

---------------------------------------------------------------------------
\* TrunkTrees.
CONSTANTS WaySets, Vertices, Cities, At, Piers, Chains, CELL, TILE, BUFFER, PAD, DISC,
          SEED_RADIUS, MAX_CLIMB, BORDER, MAX_PASSES
VARIABLES chain, cells, npz, graph, source, trunks, turn, changed
Trees == INSTANCE TrunkTrees WITH Place <- At

\* Where the pointers of r lead from A.
Closed(r, W) == \A v \in W : r[v] \in DOMAIN r => r[v] \in W
Led(r, A, W) ==
    /\ W \in SUBSET DOMAIN r /\ A \subseteq W /\ Closed(r, W)
    /\ \A C \in SUBSET DOMAIN r : A \subseteq C /\ Closed(r, C) => W \subseteq C
Leads(r, A, u) ==
    /\ u = [n \in 0..Cardinality(DOMAIN r) |-> u[n]]
    /\ u[0] = A
    /\ \A n \in 1..Cardinality(DOMAIN r) : u[n - 1] \in SUBSET DOMAIN r =>
            u[n] = u[n - 1] \cup ({r[v] : v \in u[n - 1]} \cap DOMAIN r)

LEMMA LedTo ==
  ASSUME NEW r, IsFiniteSet(DOMAIN r), NEW A \in SUBSET DOMAIN r
  PROVE  \E g : /\ Leads(r, A, g) /\ Led(r, A, g[Cardinality(DOMAIN r)])
                /\ \A n \in 0..Cardinality(DOMAIN r) : g[n] \in SUBSET DOMAIN r
                /\ \A u : Leads(r, A, u) => u = g
<1> DEFINE D == DOMAIN r
           N == Cardinality(D)
           Go(S) == S \cup ({r[v] : v \in S} \cap D)
           F == [S \in SUBSET D |-> Go(S)]
<1>1. F \in [SUBSET D -> SUBSET D] /\ \A S \in SUBSET D : F[S] = Go(S) /\ S \subseteq F[S]
  OBVIOUS
<1>2. \A C \in SUBSET D : (\A S \in SUBSET C : Go(S) \subseteq C) <=> Closed(r, C)
  BY DEF Closed
<1>3. N \in Nat
  BY FS_CardinalityType
<1> HIDE DEF F
<1>4. PICK g \in [0..N -> SUBSET D] :
            /\ g[0] = A /\ \A n \in 1..N : g[n] = F[g[n - 1]]
            /\ A \subseteq g[N]
            /\ F[g[N]] = g[N]
            /\ \A C \in SUBSET D : A \subseteq C /\ (\A S \in SUBSET C : F[S] \subseteq C)
                                   => g[N] \subseteq C
            /\ \A u : FollowsOn(u, N, A, SUBSET D, F) => u = g
  <2>1. PICK g : SpreadOf(g, N, A, D, F)
    BY <1>1, SpreadIs
  <2> QED
    BY <2>1 DEF SpreadOf, SequenceOf
<1>5. \A n \in 0..N : g[n] \in SUBSET D
  BY <1>4
<1>6. \A n \in 1..N : n - 1 \in 0..N
  BY <1>3
<1> HIDE DEF D, N, Go
<1>7. Leads(r, A, g)
  <2>1. \A n \in 1..N : g[n] = Go(g[n - 1])
    BY <1>1, <1>4, <1>5, <1>6
  <2>2. g = [n \in 0..N |-> g[n]]
    BY <1>4
  <2> QED
    BY <2>1, <2>2, <1>4 DEF Leads, Go, D, N
<1>8. Led(r, A, g[N])
  <2>1. g[N] \in SUBSET D
    BY <1>3, <1>5
  <2>2. Closed(r, g[N])
    <3>1. Go(g[N]) = g[N]
      BY <1>1, <1>4, <2>1
    <3> QED
      BY <3>1 DEF Closed, Go, D
  <2>3. ASSUME NEW C \in SUBSET D, A \subseteq C, Closed(r, C)  PROVE g[N] \subseteq C
    <3>1. \A S \in SUBSET C : Go(S) \subseteq C /\ F[S] = Go(S)
      BY <1>1, <1>2, <2>3
    <3> QED
      BY <3>1, <2>3, <1>4
  <2> QED
    BY <1>4, <2>1, <2>2, <2>3 DEF Led, D
<1>9. ASSUME NEW u, Leads(r, A, u)  PROVE u = g
  <2>1. \A n \in 1..N : u[n - 1] \in SUBSET D => u[n] = Go(u[n - 1])
    BY <1>9 DEF Leads, D, N, Go
  <2>2. FollowsOn(u, N, A, SUBSET D, F)
    BY <2>1, <1>1, <1>9 DEF FollowsOn, Leads, D, N
  <2> QED
    BY <2>2, <1>4
<1> QED
  BY <1>5, <1>7, <1>8, <1>9 DEF D, N

LEMMA LedIsOne ==
  ASSUME NEW r, NEW A, NEW W, NEW W2, Led(r, A, W), Led(r, A, W2)
  PROVE  W = W2
BY DEF Led

\* A walk, as TrunkTrees takes it.
WalkOf(r, S0) ==
    (CHOOSE h : h = [n \in 0..Cardinality(DOMAIN r) |->
            IF n = 0 THEN S0 \cap DOMAIN r
            ELSE h[n - 1] \cup ({r[v] : v \in h[n - 1]} \cap DOMAIN r)])[Cardinality(DOMAIN r)]

LEMMA WalkIs ==
  ASSUME NEW r, IsFiniteSet(DOMAIN r), NEW S0
  PROVE  Led(r, S0 \cap DOMAIN r, Trees!WalkFrom(r, S0))
<1> DEFINE A == S0 \cap DOMAIN r
           N == Cardinality(DOMAIN r)
           Go(S) == S \cup ({r[v] : v \in S} \cap DOMAIN r)
           H(h) == [n \in 0..N |-> IF n = 0 THEN A ELSE Go(h[n - 1])]
<1>1. Trees!WalkFrom(r, S0) = (CHOOSE h : h = H(h))[N]
  <2>1. Trees!WalkFrom(r, S0) = WalkOf(r, S0)
    BY Zenon DEF Trees!WalkFrom, Trees!Cardinality, WalkOf, Cardinality
  <2> QED
    BY Zenon, <2>1 DEF WalkOf
<1>2. N \in Nat /\ A \in SUBSET DOMAIN r
  BY FS_CardinalityType
<1> HIDE DEF A, N
<1>3. PICK g : /\ Leads(r, A, g) /\ Led(r, A, g[N])
               /\ \A n \in 0..N : g[n] \in SUBSET DOMAIN r
               /\ \A u : Leads(r, A, u) => u = g
  BY <1>2, LedTo DEF N
<1>4. g = H(g)
  <2>1. ASSUME NEW n \in 0..N  PROVE g[n] = IF n = 0 THEN A ELSE Go(g[n - 1])
    <3>1. n # 0 => n \in 1..N /\ n - 1 \in 0..N
      BY <1>2
    <3> QED
      BY <3>1, <1>3 DEF Leads, N
  <2>2. g = [n \in 0..N |-> g[n]]
    BY <1>3 DEF Leads, N
  <2> HIDE DEF Go
  <2> QED
    BY <2>1, <2>2
<1>5. ASSUME NEW u, u = H(u)  PROVE u = g
  <2>1. \A n \in 0..N : H(u)[n] = IF n = 0 THEN A ELSE Go(u[n - 1])
    OBVIOUS
  <2>2. H(u) = [n \in 0..N |-> H(u)[n]]
    OBVIOUS
  <2> HIDE DEF H, Go
  <2>3. u = [n \in 0..N |-> u[n]]
    BY <2>2, <1>5
  <2>4. u[0] = A /\ \A n \in 1..N : u[n] = Go(u[n - 1])
    BY <2>1, <1>5, <1>2
  <2>5. Leads(r, A, u)
    BY <2>3, <2>4 DEF Leads, N, Go
  <2> QED
    BY <2>5, <1>3
<1>6. (CHOOSE h : h = H(h)) = g
  <2> HIDE DEF H
  <2> QED BY <1>4, <1>5
<1> HIDE DEF H
<1>7. Led(r, A, Trees!WalkFrom(r, S0))
  BY <1>1, <1>3, <1>6
<1> QED
  BY <1>7 DEF A

\* As many rounds as a walk has ways take in all of the walk.
LEMMA ClimbReaches ==
  ASSUME NEW r, IsFiniteSet(DOMAIN r), NEW v \in DOMAIN r, NEW W, Led(r, {v}, W),
         NEW N \in Nat, Cardinality(W) <= N + 1,
         NEW u \in [0..N -> SUBSET DOMAIN r], v \in u[0],
         \A n \in 1..N : u[n] = u[n - 1] \cup ({r[x] : x \in u[n - 1]} \cap DOMAIN r)
  PROVE  W \subseteq u[N]
<1> DEFINE D == W \ {v}
           K == Cardinality(D)
           Go(T) == T \cup ({r[x] : x \in T \cup {v}} \cap D)
           F == [T \in SUBSET D |-> Go(T)]
<1>1. v \in W /\ W \in SUBSET DOMAIN r /\ IsFiniteSet(W) /\ Closed(r, W)
  BY FS_Subset DEF Led
<1>2. IsFiniteSet(D) /\ K \in Nat /\ K <= N
  <2>1. IsFiniteSet(D) /\ K = Cardinality(W) - 1
    BY <1>1, FS_RemoveElement
  <2>2. Cardinality(W) \in Nat /\ K \in Nat
    BY <1>1, <2>1, FS_CardinalityType
  <2> QED
    BY <2>1, <2>2
<1>3. F \in [SUBSET D -> SUBSET D] /\ \A T \in SUBSET D : F[T] = Go(T) /\ T \subseteq F[T]
  OBVIOUS
<1>4. {} \in SUBSET D
  OBVIOUS
<1> HIDE DEF F, Go, K
<1>5. PICK t : SpreadOf(t, K, {}, D, F)
  BY <1>2, <1>3, <1>4, SpreadIs DEF K
<1>6. /\ t \in [0..K -> SUBSET D] /\ t[0] = {} /\ F[t[K]] = t[K]
      /\ \A n \in 1..K : t[n] = F[t[n - 1]]
  BY <1>5 DEF SpreadOf, SequenceOf
<1>7. W \subseteq t[K] \cup {v}
  <2> DEFINE C == t[K] \cup {v}
  <2>1. t[K] \in SUBSET D /\ Go(t[K]) = t[K]
    BY <1>2, <1>3, <1>6
  <2>2. ASSUME NEW x \in C, r[x] \in DOMAIN r  PROVE r[x] \in C
    <3>1. r[x] \in W
      BY <1>1, <2>1, <2>2 DEF Closed
    <3>2. r[x] \in D => r[x] \in Go(t[K])
      BY <2>2 DEF Go
    <3> QED
      BY <3>1, <3>2, <2>1
  <2>3. C \in SUBSET DOMAIN r /\ {v} \subseteq C /\ Closed(r, C)
    BY <1>1, <2>1, <2>2 DEF Closed
  <2> HIDE DEF C
  <2>4. W \subseteq C
    BY <2>3 DEF Led
  <2> QED
    BY <2>4 DEF C
<1>8. t[K] \cup {v} \subseteq u[K]
  <2> DEFINE S == {n \in 0..K : t[n] \cup {v} \subseteq u[n]}
  <2>1. 0 \in S
    BY <1>2, <1>6
  <2>2. ASSUME NEW n \in 0..K, n # 0, n - 1 \in S  PROVE n \in S
    <3>1. /\ n \in 1..K /\ n \in 1..N /\ n - 1 \in 0..K /\ n - 1 \in 0..N
          /\ t[n - 1] \in SUBSET D /\ t[n - 1] \cup {v} \subseteq u[n - 1]
      BY <1>2, <1>6, <2>2
    <3>2. t[n] = Go(t[n - 1])
      BY <3>1, <1>3, <1>6
    <3>3. u[n] = u[n - 1] \cup ({r[x] : x \in u[n - 1]} \cap DOMAIN r)
      BY <3>1
    <3>4. t[n] \cup {v} \subseteq u[n]
      BY <3>1, <3>2, <3>3, <1>1 DEF Go
    <3> QED
      BY <3>4
  <2> HIDE DEF S
  <2>3. 0..K \subseteq S
    BY <2>1, <2>2, <1>2, Upward
  <2> QED
    BY <2>3, <1>2 DEF S
<1>9. u[K] \subseteq u[N]
  <2> DEFINE S == {n \in K..N : u[K] \subseteq u[n]}
  <2>1. K \in S
    BY <1>2
  <2>2. ASSUME NEW n \in K..N, n # K, n - 1 \in S  PROVE n \in S
    <3>1. n \in 1..N
      BY <1>2, <2>2
    <3>2. u[n - 1] \subseteq u[n]
      BY <3>1
    <3> QED
      BY <3>2, <2>2
  <2> HIDE DEF S
  <2>3. K..N \subseteq S
    BY <2>1, <2>2, <1>2, Upward
  <2> QED
    BY <2>3, <1>2 DEF S
<1> QED
  BY <1>7, <1>8, <1>9

\* What leads away from the polygon, as TrunkTrees follows it back.
AncestorsOf(r, A) ==
    (CHOOSE h : h = [n \in 0..MAX_CLIMB |->
            IF n = 0 THEN A
            ELSE h[n - 1] \cup ({r[v] : v \in h[n - 1]} \ {None})])[MAX_CLIMB]

\* Where no walk is too long for the rounds, they come to the seeds.
LEMMA AncestorsAre ==
  ASSUME NEW r, IsFiniteSet(DOMAIN r), NEW A \in SUBSET DOMAIN r, None \notin DOMAIN r,
         \A v \in DOMAIN r : r[v] \in DOMAIN r \cup {None}, MAX_CLIMB \in Nat,
         \A v \in A : Cardinality(Trees!WalkFrom(r, {v})) <= MAX_CLIMB + 1
  PROVE  Led(r, A, Trees!Ancestors(r, A))
<1> DEFINE N == MAX_CLIMB
           D == DOMAIN r
           Go(S) == S \cup ({r[v] : v \in S} \cap D)
           Up(S) == S \cup ({r[v] : v \in S} \ {None})
           F == [S \in SUBSET D |-> Go(S)]
           H(h) == [n \in 0..N |-> IF n = 0 THEN A ELSE Up(h[n - 1])]
           Way(v) == Trees!WalkFrom(r, {v})
<1>1. Trees!Ancestors(r, A) = (CHOOSE h : h = H(h))[N]
  <2>1. Trees!Ancestors(r, A) = AncestorsOf(r, A)
    BY Zenon DEF Trees!Ancestors, AncestorsOf
  <2> QED
    BY Zenon, <2>1 DEF AncestorsOf
<1>2. \A S \in SUBSET D : Up(S) = Go(S) /\ Go(S) \in SUBSET D
  OBVIOUS
<1>3. F \in [SUBSET D -> SUBSET D] /\ \A S \in SUBSET D : F[S] = Go(S)
  OBVIOUS
<1>4. A \in SUBSET D /\ N \in Nat
  OBVIOUS
<1>5. \A v \in A : Led(r, {v}, Way(v)) /\ Cardinality(Way(v)) <= N + 1
  <2> SUFFICES ASSUME NEW v \in A  PROVE Led(r, {v}, Way(v))
    OBVIOUS
  <2>1. Led(r, {v} \cap DOMAIN r, Way(v))
    BY WalkIs
  <2>2. {v} \cap DOMAIN r = {v}
    OBVIOUS
  <2> HIDE DEF Way
  <2> QED
    BY <2>1, <2>2
<1> HIDE DEF N, Up, F, Way
<1>6. PICK g : SequenceOf(g, N, A, SUBSET D, F)
  <2> HIDE DEF D
  <2> QED BY <1>3, <1>4, SequenceIs
<1>7. /\ g \in [0..N -> SUBSET D] /\ g[0] = A /\ \A n \in 1..N : g[n] = F[g[n - 1]]
      /\ \A u : FollowsOn(u, N, A, SUBSET D, F) => u = g
  BY <1>6 DEF SequenceOf
<1>8. ASSUME NEW n \in 1..N  PROVE n - 1 \in 0..N /\ g[n - 1] \in SUBSET D /\ g[n] = Go(g[n - 1])
  <2>1. n - 1 \in 0..N
    BY <1>4
  <2> QED
    BY <2>1, <1>3, <1>7
<1> HIDE DEF D, Go
<1>9. (CHOOSE h : h = H(h)) = g
  <2>1. g = H(g)
    <3>1. \A n \in 0..N : g[n] = IF n = 0 THEN A ELSE Up(g[n - 1])
      <4>1. \A n \in 0..N : n = 0 \/ n \in 1..N
        OBVIOUS
      <4> QED
        BY <4>1, <1>2, <1>7, <1>8
    <3>2. g = [n \in 0..N |-> g[n]]
      BY <1>7
    <3> QED
      BY <3>1, <3>2
  <2>2. ASSUME NEW u, u = H(u)  PROVE u = g
    <3>1. /\ \A n \in 0..N : H(u)[n] = IF n = 0 THEN A ELSE Up(u[n - 1])
          /\ H(u) = [n \in 0..N |-> H(u)[n]]
      OBVIOUS
    <3> HIDE DEF H
    <3>2. u = [n \in 0..N |-> u[n]]
      BY <3>1, <2>2
    <3>3. u[0] = A /\ \A n \in 1..N : u[n] = Up(u[n - 1])
      BY <3>1, <2>2, <1>4
    <3>4. \A n \in 1..N : u[n - 1] \in SUBSET D => u[n] = F[u[n - 1]]
      BY <3>3, <1>2, <1>3
    <3> QED
      BY <3>2, <3>3, <3>4, <1>7 DEF FollowsOn
  <2> HIDE DEF H
  <2> QED
    BY <2>1, <2>2
<1> HIDE DEF H
<1>10. A \subseteq g[N]
  <2> DEFINE S == {n \in 0..N : A \subseteq g[n]}
  <2>1. 0 \in S
    BY <1>4, <1>7
  <2>2. ASSUME NEW n \in 0..N, n # 0, n - 1 \in S  PROVE n \in S
    <3>1. n \in 1..N
      BY <1>4, <2>2
    <3>2. g[n - 1] \subseteq g[n]
      BY <3>1, <1>8 DEF Go
    <3> QED
      BY <3>2, <2>2
  <2> HIDE DEF S
  <2>3. 0..N \subseteq S
    BY <2>1, <2>2, <1>4, Upward
  <2> QED
    BY <2>3, <1>4 DEF S
<1>11. ASSUME NEW C \in SUBSET DOMAIN r, A \subseteq C, Closed(r, C)  PROVE g[N] \subseteq C
  <2> DEFINE S == {n \in 0..N : g[n] \subseteq C}
  <2>1. 0 \in S
    BY <1>4, <1>7, <1>11
  <2>2. ASSUME NEW n \in 0..N, n # 0, n - 1 \in S  PROVE n \in S
    <3>1. n \in 1..N
      BY <1>4, <2>2
    <3>2. g[n] = g[n - 1] \cup ({r[v] : v \in g[n - 1]} \cap DOMAIN r) /\ g[n - 1] \subseteq C
      BY <3>1, <2>2, <1>8 DEF Go, D
    <3>3. g[n] \subseteq C
      BY <3>2, <1>11 DEF Closed
    <3> QED
      BY <3>3
  <2> HIDE DEF S
  <2>3. 0..N \subseteq S
    BY <2>1, <2>2, <1>4, Upward
  <2> QED
    BY <2>3, <1>4 DEF S
<1>12. Closed(r, g[N])
  <2> DEFINE U == UNION {Way(v) : v \in A}
  <2>1. U \in SUBSET DOMAIN r /\ A \subseteq U
    BY <1>5 DEF Led
  <2>2. Closed(r, U)
    <3>1. \A v \in A : Closed(r, Way(v))
      BY <1>5 DEF Led
    <3> QED
      BY <3>1 DEF Closed
  <2>3. g[N] \subseteq U
    <3> HIDE DEF U
    <3> QED BY <2>1, <2>2, <1>11
  <2>4. ASSUME NEW v \in A  PROVE Way(v) \subseteq g[N]
    <3>1. \A n \in 1..N : g[n] = g[n - 1] \cup ({r[x] : x \in g[n - 1]} \cap DOMAIN r)
      BY <1>8 DEF Go, D
    <3>2. v \in g[0] /\ v \in DOMAIN r /\ g \in [0..N -> SUBSET DOMAIN r]
      BY <1>7, <1>4 DEF D
    <3> QED
      BY <3>1, <3>2, <1>4, <1>5, ClimbReaches
  <2>5. g[N] = U
    BY <2>3, <2>4
  <2> QED
    BY <2>2, <2>5
<1>13. g[N] \in SUBSET DOMAIN r
  BY <1>4, <1>7 DEF D
<1> QED
  BY <1>1, <1>9, <1>10, <1>11, <1>12, <1>13 DEF Led

\* What a walk from some entries leaves out no walk from one of them needs.
LEMMA PruningKeeps ==
  ASSUME NEW r, IsFiniteSet(DOMAIN r), r = [v \in DOMAIN r |-> r[v]], NEW S0
  PROVE  LET p == Trees!PruneTrunk(r, S0) IN
         /\ DOMAIN p \in SUBSET DOMAIN r /\ p = [v \in DOMAIN p |-> r[v]]
         /\ \A t \in S0 : Trees!WalkFrom(p, {t}) = Trees!WalkFrom(r, {t})
<1> DEFINE W == Trees!WalkFrom(r, S0)
           p == [v \in W |-> r[v]]
<1>1. Led(r, S0 \cap DOMAIN r, W)
  BY WalkIs
<1>2. Trees!PruneTrunk(r, S0) = IF W = {} THEN r ELSE p
  BY DEF Trees!PruneTrunk
<1> HIDE DEF W
<1>3. W \in SUBSET DOMAIN r /\ IsFiniteSet(W) /\ DOMAIN p = W /\ \A v \in W : p[v] = r[v]
  BY <1>1, FS_Subset DEF Led
<1> HIDE DEF p
<1>4. ASSUME NEW t \in S0  PROVE Trees!WalkFrom(p, {t}) = Trees!WalkFrom(r, {t})
  <2> DEFINE A == {t} \cap DOMAIN r
             R == Trees!WalkFrom(r, {t})
             P == Trees!WalkFrom(p, {t})
  <2>1. A = {t} \cap DOMAIN p
    BY <1>1, <1>3 DEF Led
  <2>2. Led(r, A, R) /\ Led(p, A, P)
    BY <2>1, <1>3, WalkIs
  <2> HIDE DEF R, P
  <2>3. R \subseteq W
    BY <1>1, <2>2 DEF Led
  <2>4. Closed(r, P)
    BY <1>1, <1>3, <2>2 DEF Led, Closed
  <2>5. R \subseteq P
    BY <2>2, <2>4, <1>3 DEF Led
  <2>6. Closed(p, R)
    BY <2>2, <2>3, <1>3 DEF Led, Closed
  <2>7. P \subseteq R
    BY <2>2, <2>3, <2>6, <1>3 DEF Led
  <2> QED
    BY <2>5, <2>7 DEF R, P
<1> QED
  BY <1>2, <1>3, <1>4 DEF p

---------------------------------------------------------------------------
\* The predecessors a search may return, written out.
BeforeOf(v, sources, dist, arcs, none) ==
    IF v \in sources THEN {none}
    ELSE {u \in DOMAIN dist : \E x \in arcs : x.from = u /\ x.to = v /\ dist[u] + x.cost = dist[v]}
Extended(t, v, u) == [x \in DOMAIN t \cup {v} |-> IF x = v THEN u ELSE t[x]]
ChoicesOf(sources, dist, arcs, none) ==
    (CHOOSE it : it = [s \in SUBSET DOMAIN dist |->
        IF s = {} THEN {<<>>}
        ELSE {Extended(t[1], One(s), t[2]) :
                t \in it[s \ {One(s)}] \X BeforeOf(One(s), sources, dist, arcs, none)}])[DOMAIN dist]
Knows(parent, none, u) ==
    u = [n \in 0..Cardinality(DOMAIN parent) |->
            IF n = 0 THEN {} ELSE {v \in DOMAIN parent : parent[v] \in u[n - 1] \cup {none}}]

LEMMA ParentsWritten ==
  ASSUME NEW sources, NEW dist, NEW arcs, NEW none, NEW p \in Trees!Parents(sources, dist, arcs, none)
  PROVE  /\ p \in ChoicesOf(sources, dist, arcs, none)
         /\ (CHOOSE u : Knows(p, none, u))[Cardinality(DOMAIN p)] = DOMAIN p
<1>1. Trees!Parents(sources, dist, arcs, none) =
        {q \in ChoicesOf(sources, dist, arcs, none) : Trees!Rooted(q, none)}
  BY Zenon DEF Trees!Parents, Trees!FoldSet, Trees!MapThenFoldSet, ChoicesOf, Extended, BeforeOf, One
<1>2. Trees!Rooted(p, none) <=> (CHOOSE u : Knows(p, none, u))[Cardinality(DOMAIN p)] = DOMAIN p
  BY Zenon DEF Trees!Rooted, Trees!Cardinality, Knows, Cardinality
<1> QED
  BY <1>1, <1>2

\* They are chosen for each vertex among those before it.
LEMMA ChoicesAre ==
  ASSUME NEW sources, NEW dist, IsFiniteSet(DOMAIN dist), NEW arcs, NEW none,
         NEW p \in ChoicesOf(sources, dist, arcs, none)
  PROVE  DOMAIN p = DOMAIN dist /\ \A v \in DOMAIN dist : p[v] \in BeforeOf(v, sources, dist, arcs, none)
<1> DEFINE T == DOMAIN dist
           U == T \cup {none}
           V == SUBSET (UNION {[s -> U] : s \in SUBSET T})
           Bf(v) == BeforeOf(v, sources, dist, arcs, none)
           More(v, S) == {Extended(t[1], v, t[2]) : t \in S \X Bf(v)}
           F == [z \in T \X V |-> More(z[1], z[2])]
           H(u) == [s \in SUBSET T |-> IF s = {} THEN {<<>>} ELSE More(One(s), u[s \ {One(s)}])]
           Fits(t, s) == DOMAIN t = s /\ \A v \in s : t[v] \in Bf(v)
<1>1. \A v \in T : Bf(v) \subseteq U
  BY DEF BeforeOf
<1>2. ChoicesOf(sources, dist, arcs, none) = (CHOOSE u : u = H(u))[T]
  BY Zenon DEF ChoicesOf
<1> HIDE DEF Bf, T
<1>3. {<<>>} \in V
  OBVIOUS
<1>4. ASSUME NEW v \in T, NEW S \in V  PROVE More(v, S) \in V
  <2> SUFFICES ASSUME NEW t \in S \X Bf(v)
               PROVE  Extended(t[1], v, t[2]) \in UNION {[s -> U] : s \in SUBSET T}
    OBVIOUS
  <2>1. PICK s \in SUBSET T : t[1] \in [s -> U]
    OBVIOUS
  <2>2. t[2] \in U
    BY <1>1
  <2>3. Extended(t[1], v, t[2]) \in [s \cup {v} -> U] /\ s \cup {v} \in SUBSET T
    BY <2>1, <2>2 DEF Extended
  <2> QED
    BY <2>3
<1> HIDE DEF V, More
<1>5. F \in [T \X V -> V] /\ \A v \in T, S \in V : F[<<v, S>>] = More(v, S)
  BY <1>4
<1> HIDE DEF F
<1>6. PICK g \in [SUBSET T -> V] :
            /\ g[{}] = {<<>>}
            /\ \A s \in SUBSET T : s # {} => g[s] = F[<<One(s), g[s \ {One(s)}]>>]
            /\ \A u : FoldsOn(u, T, V, {<<>>}, F) => u = g
  BY <1>3, <1>5, FoldIs DEF T
<1>7. ASSUME NEW s \in SUBSET T, s # {}
      PROVE  /\ One(s) \in s /\ One(s) \in T /\ s \ {One(s)} \in SUBSET T
             /\ g[s \ {One(s)}] \in V /\ g[s] = More(One(s), g[s \ {One(s)}])
  <2>1. One(s) \in s
    BY <1>7 DEF One
  <2>2. s \ {One(s)} \in SUBSET T /\ One(s) \in T
    BY <2>1
  <2>3. g[s \ {One(s)}] \in V
    BY <2>2, <1>6
  <2> QED
    BY <2>1, <2>2, <2>3, <1>5, <1>6, <1>7
<1>8. g = H(g)
  <2>1. \A s \in SUBSET T : g[s] = IF s = {} THEN {<<>>} ELSE More(One(s), g[s \ {One(s)}])
    BY <1>6, <1>7
  <2>2. g = [s \in SUBSET T |-> g[s]]
    BY <1>6
  <2> QED
    BY <2>1, <2>2
<1>9. ASSUME NEW u, u = H(u)  PROVE u = g
  <2>1. /\ \A s \in SUBSET T : H(u)[s] = IF s = {} THEN {<<>>} ELSE More(One(s), u[s \ {One(s)}])
        /\ H(u) = [s \in SUBSET T |-> H(u)[s]]
    OBVIOUS
  <2> HIDE DEF H
  <2>2. u = [s \in SUBSET T |-> u[s]]
    BY <2>1, <1>9
  <2>3. \A s \in SUBSET T : u[s] = IF s = {} THEN {<<>>} ELSE More(One(s), u[s \ {One(s)}])
    BY <2>1, <1>9
  <2>4. ASSUME NEW s \in SUBSET T, s # {}, u[s \ {One(s)}] \in V
        PROVE  u[s] = F[<<One(s), u[s \ {One(s)}]>>]
    BY <2>3, <2>4, <1>5, <1>7
  <2> QED
    BY <2>2, <2>3, <2>4, <1>6 DEF FoldsOn
<1>10. (CHOOSE u : u = H(u)) = g
  <2> HIDE DEF H
  <2> QED BY <1>8, <1>9
<1>11. IsFiniteSet(T) /\ Cardinality(T) \in Nat
  BY FS_CardinalityType DEF T
<1> DEFINE G == {k \in Nat : \A s \in SUBSET T : Cardinality(s) = k => \A t \in g[s] : Fits(t, s)}
<1>12. 0 \in G
  <2>1. \A s \in SUBSET T : Cardinality(s) = 0 => s = {}
    BY <1>11, OneIs
  <2>2. \A t \in g[{}] : Fits(t, {})
    BY <1>6
  <2> QED
    BY <2>1, <2>2
<1>13. ASSUME NEW k \in 0..Cardinality(T), k # 0, k - 1 \in G  PROVE k \in G
  <2>1. ASSUME NEW s \in SUBSET T, Cardinality(s) = k, NEW t \in g[s]  PROVE Fits(t, s)
    <3>1. s # {} /\ Cardinality(s \ {One(s)}) = k - 1
      BY <2>1, <1>11, <1>13, OneIs
    <3>2. \A x \in g[s \ {One(s)}] : Fits(x, s \ {One(s)})
      BY <3>1, <1>7, <1>13
    <3>3. PICK x \in g[s \ {One(s)}] \X Bf(One(s)) : t = Extended(x[1], One(s), x[2])
      BY <2>1, <3>1, <1>7 DEF More
    <3>4. Fits(x[1], s \ {One(s)}) /\ x[2] \in Bf(One(s)) /\ One(s) \in s
      BY <3>1, <3>2, <3>3, <1>7
    <3> QED
      BY <3>3, <3>4 DEF Extended
  <2> QED
    BY <2>1
<1> HIDE DEF G
<1>14. Cardinality(T) \in G
  <2>1. 0..Cardinality(T) \subseteq G
    BY <1>11, <1>12, <1>13, Upward
  <2> QED
    BY <2>1, <1>11
<1>15. p \in g[T]
  BY <1>2, <1>10
<1>16. Fits(p, T)
  BY <1>14, <1>15 DEF G
<1> QED
  BY <1>16 DEF T, Bf

\* Predecessors that lead back from everywhere go down in some order.
Downwards(parent, none) ==
    \E rank \in [DOMAIN parent -> Nat] :
        \A v \in DOMAIN parent : parent[v] \in DOMAIN parent \ {none} => rank[parent[v]] < rank[v]

LEMMA KnownGoDown ==
  ASSUME NEW parent, IsFiniteSet(DOMAIN parent), NEW none, none \notin DOMAIN parent,
         (CHOOSE u : Knows(parent, none, u))[Cardinality(DOMAIN parent)] = DOMAIN parent
  PROVE  Downwards(parent, none)
<1> DEFINE D == DOMAIN parent
           N == Cardinality(D)
           Go(K) == {v \in D : parent[v] \in K \cup {none}}
           F == [K \in SUBSET D |-> Go(K)]
           H(u) == [n \in 0..N |-> IF n = 0 THEN {} ELSE Go(u[n - 1])]
<1>1. N \in Nat
  BY FS_CardinalityType
<1>2. F \in [SUBSET D -> SUBSET D] /\ \A K \in SUBSET D : F[K] = Go(K)
  OBVIOUS
<1>3. (CHOOSE u : Knows(parent, none, u)) = (CHOOSE u : u = H(u))
  BY Zenon DEF Knows
<1> HIDE DEF D, N, F
<1>4. PICK g \in [0..N -> SUBSET D] :
            /\ g[0] = {} /\ \A n \in 1..N : g[n] = F[g[n - 1]]
            /\ \A u : FollowsOn(u, N, {}, SUBSET D, F) => u = g
  <2> HIDE DEF Go, H
  <2>1. {} \in SUBSET D
    OBVIOUS
  <2>2. PICK g : SequenceOf(g, N, {}, SUBSET D, F)
    BY <2>1, <1>1, <1>2, SequenceIs
  <2> QED
    BY <2>2 DEF SequenceOf
<1>5. ASSUME NEW n \in 1..N  PROVE n - 1 \in 0..N /\ g[n - 1] \in SUBSET D /\ g[n] = Go(g[n - 1])
  <2>1. n - 1 \in 0..N
    BY <1>1
  <2> QED
    BY <2>1, <1>2, <1>4
<1>6. g = H(g)
  <2>1. ASSUME NEW n \in 0..N  PROVE g[n] = IF n = 0 THEN {} ELSE Go(g[n - 1])
    <3>1. n # 0 => n \in 1..N
      OBVIOUS
    <3> QED
      BY <3>1, <1>4, <1>5
  <2>2. g = [n \in 0..N |-> g[n]]
    BY <1>4
  <2> QED
    BY <2>1, <2>2
<1>7. ASSUME NEW u, u = H(u)  PROVE u = g
  <2>1. /\ \A n \in 0..N : H(u)[n] = IF n = 0 THEN {} ELSE Go(u[n - 1])
        /\ H(u) = [n \in 0..N |-> H(u)[n]]
    OBVIOUS
  <2> HIDE DEF H
  <2>2. u = [n \in 0..N |-> u[n]]
    BY <2>1, <1>7
  <2>3. u[0] = {} /\ \A n \in 1..N : u[n] = Go(u[n - 1])
    BY <2>1, <1>1, <1>7
  <2>4. \A n \in 1..N : u[n - 1] \in SUBSET D => u[n] = F[u[n - 1]]
    BY <2>3, <1>2
  <2> QED
    BY <2>2, <2>3, <2>4, <1>4 DEF FollowsOn
<1>8. (CHOOSE u : u = H(u)) = g
  <2> HIDE DEF H
  <2> QED BY <1>6, <1>7
<1>9. g[N] = D
  BY <1>3, <1>8 DEF N, D
<1> DEFINE In(v) == {n \in 0..N : v \in g[n]}
           rank == [v \in D |-> CHOOSE n \in In(v) : \A m \in In(v) : n <= m]
<1>10. ASSUME NEW v \in D  PROVE rank[v] \in In(v) /\ \A m \in In(v) : rank[v] <= m
  <2>1. N \in In(v) /\ In(v) \in SUBSET Nat
    BY <1>1, <1>9
  <2>2. \E n \in In(v) : \A m \in In(v) : n <= m
    <3> HIDE DEF In
    <3> QED BY <2>1, LeastNat
  <2> HIDE DEF In
  <2> QED
    BY <2>2
<1> HIDE DEF rank
<1>11. rank \in [D -> Nat]
  <2>1. rank = [v \in D |-> rank[v]]
    BY DEF rank
  <2>2. \A v \in D : rank[v] \in Nat
    BY <1>10
  <2> QED
    BY <2>1, <2>2
<1>12. ASSUME NEW v \in D, parent[v] \in D \ {none}  PROVE rank[parent[v]] < rank[v]
  <2>1. rank[v] \in 0..N /\ v \in g[rank[v]]
    BY <1>10
  <2>2. rank[v] \in 1..N
    BY <2>1, <1>1, <1>4
  <2>3. parent[v] \in g[rank[v] - 1] /\ rank[v] - 1 \in 0..N
    BY <2>1, <2>2, <1>5, <1>12
  <2>4. rank[parent[v]] <= rank[v] - 1
    BY <2>3, <1>10, <1>12
  <2>5. rank[parent[v]] \in Nat
    BY <1>11, <1>12
  <2> QED
    BY <2>1, <2>4, <2>5
<1> QED
  BY <1>11, <1>12 DEF Downwards, D

(* The predecessors lead back over the vertices reached, without a circle,  *)
(* to the sources.                                                          *)
LEMMA ParentsAre ==
  ASSUME NEW sources, NEW dist, IsFiniteSet(DOMAIN dist), NEW arcs, NEW none, none \notin DOMAIN dist,
         NEW p \in Trees!Parents(sources, dist, arcs, none)
  PROVE  /\ DOMAIN p = DOMAIN dist
         /\ \A v \in DOMAIN dist : /\ p[v] \in DOMAIN dist \cup {none}
                                   /\ p[v] = none => v \in sources
                                   /\ p[v] # none => \E x \in arcs :
                                        x.from = p[v] /\ x.to = v /\ dist[p[v]] + x.cost = dist[v]
         /\ Downwards(p, none)
<1>1. /\ p \in ChoicesOf(sources, dist, arcs, none)
      /\ (CHOOSE u : Knows(p, none, u))[Cardinality(DOMAIN p)] = DOMAIN p
  BY ParentsWritten
<1>2. DOMAIN p = DOMAIN dist /\ \A v \in DOMAIN dist : p[v] \in BeforeOf(v, sources, dist, arcs, none)
  BY <1>1, ChoicesAre
<1>3. Downwards(p, none)
  BY <1>1, <1>2, KnownGoDown
<1>4. ASSUME NEW v \in DOMAIN dist
      PROVE  /\ p[v] \in DOMAIN dist \cup {none} /\ (p[v] = none => v \in sources)
             /\ p[v] # none => \E x \in arcs :
                    x.from = p[v] /\ x.to = v /\ dist[p[v]] + x.cost = dist[v]
  <2>1. p[v] \in BeforeOf(v, sources, dist, arcs, none)
    BY <1>2
  <2> QED
    BY <2>1 DEF BeforeOf
<1> QED
  BY <1>2, <1>3, <1>4

---------------------------------------------------------------------------
\* What a tree is computed from, and the tree.
SeedsOn(a) == {v \in Trees!Inside(a, Trees!GraphOf(a)) : Trees!Distance(v, At[a]) <= SEED_RADIUS}
ArcsOn(a) == Trees!Within(Trees!GraphOf(a), Trees!Inside(a, Trees!GraphOf(a)))
DistOn(a) == CostsOf(SeedsOn(a), ArcsOn(a), CostSum(ArcsOn(a)))

LEMMA TreesWritten ==
  ASSUME NEW a, NEW t \in Trees!TreesOf(a), t # None
  PROVE  t.cost = DistOn(a) /\ t.parent \in Trees!Parents(SeedsOn(a), DistOn(a), ArcsOn(a), None)
<1> DEFINE frontier == Trees!FrontierOf(DOMAIN DistOn(a), Trees!GraphOf(a),
                                        Trees!Inside(a, Trees!GraphOf(a)))
<1>1. Trees!Costs(SeedsOn(a), ArcsOn(a), Trees!MapThenSumSet(LAMBDA x : x.cost, ArcsOn(a))) = DistOn(a)
  BY Zenon DEF Trees!Costs, Trees!Cheapest, Trees!Cardinality, Trees!MapThenSumSet, Trees!MapThenFoldSet,
               DistOn, CostSum, CostsOf, Priced, Searched, Ends, Stepped, Lowest, Cardinality
<1>2. Trees!TreesOf(a) =
        LET dist == Trees!Costs(SeedsOn(a), ArcsOn(a), Trees!MapThenSumSet(LAMBDA x : x.cost, ArcsOn(a)))
        IN  IF SeedsOn(a) = {} THEN {None}
            ELSE {[cost |-> dist, parent |-> p,
                   frontier |-> Trees!FrontierOf(DOMAIN dist, Trees!GraphOf(a),
                                                 Trees!Inside(a, Trees!GraphOf(a)))] :
                    p \in Trees!Parents(SeedsOn(a), dist, ArcsOn(a), None)}
  BY Zenon DEF Trees!TreesOf, SeedsOn, ArcsOn
<1>3. Trees!TreesOf(a) = IF SeedsOn(a) = {} THEN {None}
            ELSE {[cost |-> DistOn(a), parent |-> p, frontier |-> frontier] :
                    p \in Trees!Parents(SeedsOn(a), DistOn(a), ArcsOn(a), None)}
  BY Zenon, <1>1, <1>2
<1> HIDE DEF frontier
<1>4. t \in {[cost |-> DistOn(a), parent |-> p, frontier |-> frontier] :
                    p \in Trees!Parents(SeedsOn(a), DistOn(a), ArcsOn(a), None)}
  BY <1>3
<1>5. PICK p \in Trees!Parents(SeedsOn(a), DistOn(a), ArcsOn(a), None) :
            t = [cost |-> DistOn(a), parent |-> p, frontier |-> frontier]
  BY <1>4
<1> QED
  BY <1>5

CellsInv ==
    /\ cells \in SUBSET EdgeRows /\ IsFiniteSet(cells)
    /\ \A e \in cells : e.src \in Nat /\ e.dst \in Nat

\* A tree leads from every vertex back to a seed.
TreeOk(t) ==
    /\ IsFiniteSet(DOMAIN t.cost) /\ DOMAIN t.cost \subseteq Nat
    /\ DOMAIN t.parent = DOMAIN t.cost
    /\ \A v \in DOMAIN t.cost : /\ t.parent[v] \in DOMAIN t.cost \cup {None}
                                /\ t.parent[v] = None => t.cost[v] = 0
    /\ Downwards(t.parent, None)

LEMMA TreesAreOk ==
  ASSUME Trees!TrunkTreesAssumption, CellsInv, NEW a, NEW t \in Trees!TreesOf(a), t # None
  PROVE  TreeOk(t)
<1> DEFINE all == Trees!GraphOf(a)
           inside == Trees!Inside(a, all)
           X == Ends(all)
<1>1. all \in ArcsOf(Nat) /\ IsFiniteSet(all)
  <2>1. PICK es \in SUBSET cells : all = Trees!Arcs(es)
    <3>1. \A l, r : Trees!Loaded(l, r) \in SUBSET cells
      BY DEF Trees!Loaded
    <3> QED
      BY <3>1 DEF Trees!GraphOf
  <2>2. Trees!Arcs(es) = MatrixOf(es)
    BY Zenon DEF Trees!Arcs, Trees!Csr, Trees!MapThenSumSet, Trees!MapThenFoldSet,
                 MatrixOf, EntriesOf, Between, CostSum
  <2>3. es \in SUBSET EdgeRows /\ IsFiniteSet(es)
    BY FS_Subset DEF CellsInv
  <2>4. all = MatrixOf(es)
    BY <2>1, <2>2
  <2> HIDE DEF all
  <2>5. all \in ArcsOf(Int) /\ IsFiniteSet(all)
    BY <2>3, <2>4, ArcsTyped
  <2>6. ASSUME NEW x \in all  PROVE x.from \in Nat /\ x.to \in Nat
    <3>1. PICK e \in EntriesOf(es) : x = [from |-> e.from, to |-> e.to, cost |-> CostSum(Between(es, e.from, e.to))]
      BY <2>4, ArcsAre
    <3>2. e.of \in es /\ {e.from, e.to} = {e.of.src, e.of.dst}
      BY <2>3, EntriesAre
    <3> QED
      BY <3>1, <3>2 DEF CellsInv
  <2> QED
    BY <2>5, <2>6 DEF ArcsOf
<1>2. inside \in SUBSET X
  BY DEF Trees!Inside, Ends
<1>3. SeedsOn(a) \in SUBSET X /\ ArcsOn(a) \in SUBSET all
  BY <1>2 DEF SeedsOn, ArcsOn, Trees!Within
<1> HIDE DEF all, inside
<1>4. IsFiniteSet(X) /\ X \in SUBSET Nat
  BY <1>1, EndsFinite DEF Ends, ArcsOf
<1>5. ArcsOn(a) \in ArcsOf(X) /\ IsFiniteSet(ArcsOn(a))
  <2>1. ArcsOn(a) \in ArcsOf(X)
    BY <1>1, <1>3 DEF ArcsOf, Ends
  <2> QED
    BY <2>1, <1>1, <1>3, FS_Subset
<1> HIDE DEF X
<1>6. CostSum(ArcsOn(a)) \in Nat
  <2>1. \A x \in ArcsOn(a) : x.cost \in Nat
    BY <1>5 DEF ArcsOf
  <2> QED
    BY <2>1, <1>5, CostsAddUp
<1>7. DOMAIN DistOn(a) \subseteq X /\ \A s \in SeedsOn(a) : DistOn(a)[s] = 0
  <2>1. DOMAIN DistOn(a) \subseteq X
    BY <1>3, <1>5, <1>6, SearchesCompare DEF DistOn
  <2>2. \A s \in SeedsOn(a) : DistOn(a)[s] = 0
    BY <1>3, <1>5, <1>6, SourcesAreFree DEF DistOn
  <2> QED
    BY <2>1, <2>2
<1>8. IsFiniteSet(DOMAIN DistOn(a)) /\ DOMAIN DistOn(a) \subseteq Nat
  BY <1>4, <1>7, FS_Subset
<1>9. None \notin DOMAIN DistOn(a)
  BY <1>8 DEF Trees!TrunkTreesAssumption
<1>10. t.cost = DistOn(a) /\ t.parent \in Trees!Parents(SeedsOn(a), DistOn(a), ArcsOn(a), None)
  BY TreesWritten
<1>11. /\ DOMAIN t.parent = DOMAIN DistOn(a)
       /\ \A v \in DOMAIN DistOn(a) : /\ t.parent[v] \in DOMAIN DistOn(a) \cup {None}
                                      /\ t.parent[v] = None => v \in SeedsOn(a)
       /\ Downwards(t.parent, None)
  <2> DEFINE q == t.parent
             d == DistOn(a)
  <2>1. q \in Trees!Parents(SeedsOn(a), d, ArcsOn(a), None) /\ IsFiniteSet(DOMAIN d) /\ None \notin DOMAIN d
    BY <1>8, <1>9, <1>10
  <2> HIDE DEF q, d
  <2>2. /\ DOMAIN q = DOMAIN d
        /\ \A v \in DOMAIN d : q[v] \in DOMAIN d \cup {None} /\ (q[v] = None => v \in SeedsOn(a))
        /\ Downwards(q, None)
    BY <2>1, ParentsAre
  <2> QED
    BY <2>2 DEF q, d
<1> QED
  BY <1>7, <1>8, <1>10, <1>11 DEF TreeOk

---------------------------------------------------------------------------
\* The cells, trees and graph, until the trunks are built.
GrownInv ==
    /\ ways \in WaySets /\ chain \in Chains
    /\ CellsInv
    /\ npz = [c \in Cities |-> npz[c]]
    /\ \A c \in Cities : npz[c] # None => TreeOk(npz[c])
    /\ \A e \in graph : e.from \in Cities /\ e.to \in Cities

\* What is left of a trunk: rows of it, enough for the walks from some entries.
PartOf(left, whole, entries) ==
    /\ IsFiniteSet(DOMAIN whole)
    /\ DOMAIN left \subseteq DOMAIN whole
    /\ left = [v \in DOMAIN left |-> whole[v]]
    /\ \A t \in entries : Trees!WalkFrom(left, {t}) = Trees!WalkFrom(whole, {t})

\* The trunks as they are pruned.
TrunksInv ==
    /\ DOMAIN source \subseteq Cities \X Cities /\ DOMAIN trunks = DOMAIN source
    /\ \A q \in DOMAIN source : PartOf(trunks[q], source[q], Trees!Entries(q[1], trunks))

\* Every walk of a trunk ends, and only among some vertices, or it is cut off.
Arrives(s, among, cut) ==
    \A v \in DOMAIN s :
        LET ends == Trees!TerminiOf(s) \cap Trees!WalkFrom(s, {v}) IN
        ends # {} /\ (ends \subseteq among \/ cut)

CutOff(a, b) == \E u \in npz[a].frontier \ Trees!NodesOf(b) : Trees!TooDeep(a, u)

ArriveInv ==
    \A p \in DOMAIN source : source[p] # Trees!Degenerate(p[1], p[2]) =>
        Arrives(source[p], Trees!NodesOf(p[2]) \cup Trees!SeedsOf(p[1]), CutOff(p[1], p[2]))

TreesInv ==
    /\ GrownInv
    /\ pc \in {"export", "spt", "paired", "prune", "deployed"}
    /\ pc \in {"prune", "deployed"} => ArriveInv /\ TrunksInv

LEMMA KeptAreNodes ==
  ASSUME Trees!TrunkTreesAssumption, GrownInv, NEW a \in Cities, NEW b \in Cities, npz[a] # None
  PROVE  /\ Trees!KeptRows(a, b) \subseteq Trees!NodesOf(a)
         /\ TreeOk(npz[a]) /\ Trees!NodesOf(a) = DOMAIN npz[a].cost
         /\ Trees!NodesOf(b) \subseteq Nat /\ None \notin Trees!NodesOf(b)
<1>1. TreeOk(npz[a]) /\ Trees!NodesOf(a) = DOMAIN npz[a].cost
  BY DEF GrownInv, Trees!NodesOf
<1>2. Trees!NodesOf(b) \subseteq Nat
  BY DEF GrownInv, Trees!NodesOf, TreeOk
<1>3. None \notin Trees!NodesOf(b)
  BY <1>2 DEF Trees!TrunkTreesAssumption
<1>4. \A v \in Trees!NodesOf(a) : npz[a].parent[v] \in Trees!NodesOf(a) \cup {None}
  BY <1>1 DEF TreeOk
<1>5. Trees!KeptRows(a, b) \subseteq Trees!NodesOf(a)
  BY <1>3, <1>4 DEF Trees!KeptRows
<1> QED
  BY <1>1, <1>2, <1>3, <1>5

LEMMA PairsAreFinite ==
  ASSUME Trees!TrunkTreesAssumption, GrownInv, NEW a \in Cities, NEW b \in Cities, npz[a] # None
  PROVE  /\ IsFiniteSet(DOMAIN Trees!BuildPair(a, b))
         /\ Trees!BuildPair(a, b) = [v \in DOMAIN Trees!BuildPair(a, b) |-> Trees!BuildPair(a, b)[v]]
<1> DEFINE d == Trees!Degenerate(a, b)
           kept == IF npz[b] = None THEN {} ELSE Trees!KeptRows(a, b)
           trunk == [v \in kept |-> IF npz[a].parent[v] \in kept THEN npz[a].parent[v] ELSE Trees!NULL]
<1>1. Trees!BuildPair(a, b) = IF kept = {} THEN d ELSE trunk
  BY DEF Trees!BuildPair
<1>2. IsFiniteSet(DOMAIN d) /\ d = [v \in DOMAIN d |-> d[v]]
  <2>1. DOMAIN d = {Trees!SynthVid(a)} \cup {Trees!SynthVid(b)} /\ d = [v \in DOMAIN d |-> d[v]]
    BY DEF Trees!Degenerate
  <2>2. IsFiniteSet({Trees!SynthVid(a)}) /\ IsFiniteSet({Trees!SynthVid(b)})
    BY FS_Singleton
  <2>3. IsFiniteSet({Trees!SynthVid(a)} \cup {Trees!SynthVid(b)})
    BY <2>2, FS_Union
  <2> QED
    BY <2>1, <2>3
<1>3. IsFiniteSet(DOMAIN trunk) /\ trunk = [v \in DOMAIN trunk |-> trunk[v]]
  <2>1. kept \in SUBSET DOMAIN npz[a].cost /\ IsFiniteSet(DOMAIN npz[a].cost)
    BY KeptAreNodes DEF TreeOk
  <2> HIDE DEF kept
  <2>2. IsFiniteSet(kept) /\ DOMAIN trunk = kept
    BY <2>1, FS_Subset
  <2> QED
    BY <2>2
<1> HIDE DEF d, trunk, kept
<1> QED
  BY <1>1, <1>2, <1>3

LEMMA EntriesShrink ==
  ASSUME NEW db, NEW db2, DOMAIN db2 = DOMAIN db,
         \A p \in DOMAIN db : Trees!TerminiOf(db2[p]) \subseteq Trees!TerminiOf(db[p])
  PROVE  \A c : Trees!Entries(c, db2) \subseteq Trees!Entries(c, db)
BY DEF Trees!Entries

LEMMA TreesBegin == Trees!TrunkTreesAssumption /\ Trees!Init => TreesInv
<1> SUFFICES ASSUME Trees!TrunkTreesAssumption, Trees!Init  PROVE TreesInv
  OBVIOUS
<1>1. CellsInv
  BY FS_EmptySet DEF Trees!Init, CellsInv
<1> QED
  BY <1>1 DEF Trees!Init, TreesInv, GrownInv

LEMMA GrowthKeeps ==
  ASSUME Trees!TrunkTreesAssumption, TreesInv,
         Trees!ExportCells \/ Trees!ComputeSpt \/ Trees!AdaptGraph
  PROVE  TreesInv'
<1>1. CASE Trees!ExportCells
  <2>1. CellsInv'
    <3> DEFINE out == {x \in ways : Trees!Exported(x)}
    <3>1. /\ IsFiniteSet(out)
          /\ \A w \in out : /\ w.src \in Nat /\ w.dst \in Nat /\ w.cost \in Int
                            /\ w.reverse_cost \in Int \cup {None}
      <4>1. Trees!IsFiniteSet(ways) /\ \A w \in ways :
                w.src \in Int /\ w.dst \in Int /\ {w.cost, w.reverse_cost} \subseteq Int \cup {None}
        BY DEF Trees!TrunkTreesAssumption, TreesInv, GrownInv
      <4>2. IsFiniteSet(ways)
        BY Zenon, <4>1 DEF Trees!IsFiniteSet, IsFiniteSet
      <4>3. IsFiniteSet(out)
        BY <4>2, FS_Subset
      <4>4. \A w \in out : w \in ways /\ w.cost # None /\ w.src \in Nat /\ w.dst \in Nat
        BY DEF Trees!Exported, Trees!TrunkTreesAssumption
      <4> HIDE DEF out
      <4> QED
        BY <4>1, <4>3, <4>4
    <3>2. cells' = {Trees!CellRow(w) : w \in out}
      BY <1>1 DEF Trees!ExportCells
    <3> HIDE DEF out
    <3>3. IsFiniteSet(cells')
      <4>1. [w \in out |-> Trees!CellRow(w)] \in Surjection(out, cells')
        BY <3>2 DEF Surjection
      <4> QED
        BY <4>1, <3>1, FS_Surjection
    <3>4. \A w \in out : /\ Trees!CellRow(w) \in EdgeRows
                         /\ Trees!CellRow(w).src \in Nat /\ Trees!CellRow(w).dst \in Nat
      BY <3>1 DEF Trees!CellRow, EdgeRows
    <3> QED
      BY <3>2, <3>3, <3>4 DEF CellsInv
  <2> QED
    BY <1>1, <2>1 DEF Trees!ExportCells, TreesInv, GrownInv
<1>2. CASE Trees!ComputeSpt
  <2> DEFINE x == Trees!Least(todo)
  <2>1. PICK t \in Trees!TreesOf(x) : npz' = [npz EXCEPT ![x] = t]
    BY <1>2 DEF Trees!ComputeSpt
  <2>2. CellsInv /\ npz = [c \in Cities |-> npz[c]] /\ \A c \in Cities : npz[c] # None => TreeOk(npz[c])
    BY DEF TreesInv, GrownInv
  <2>3. t # None => TreeOk(t)
    BY <2>2, TreesAreOk
  <2> HIDE DEF x
  <2>4. npz' = [c \in Cities |-> npz'[c]] /\ \A c \in Cities : npz'[c] # None => TreeOk(npz'[c])
    <3>1. \A c \in Cities : npz'[c] = IF c = x THEN t ELSE npz[c]
      BY <2>1, <2>2
    <3>2. npz' = [c \in Cities |-> npz'[c]]
      BY <2>1, <2>2
    <3>3. \A c \in Cities : npz'[c] = t \/ npz'[c] = npz[c]
      BY <3>1
    <3> QED
      BY <3>2, <3>3, <2>2, <2>3
  <2>5. cells' = cells /\ ways' = ways /\ chain' = chain /\ graph' = graph /\ pc = "spt" /\ pc' = pc
    BY <1>2 DEF Trees!ComputeSpt
  <2>6. \A c \in Cities : (npz[c] # None => TreeOk(npz[c]))' <=> (npz'[c] # None => TreeOk(npz'[c]))
    BY DEF TreeOk
  <2> QED
    BY <2>2, <2>4, <2>5, <2>6 DEF TreesInv, GrownInv, CellsInv
<1>3. CASE Trees!AdaptGraph
  <2>1. \A e \in chain : e.a \in Cities /\ e.b \in Cities
    BY DEF TreesInv, GrownInv, Trees!TrunkTreesAssumption
  <2>2. \A y \in graph' : \E e \in chain : {y.from, y.to} = {e.a, e.b}
    BY <1>3 DEF Trees!AdaptGraph
  <2>3. \A y \in graph' : y.from \in Cities /\ y.to \in Cities
    BY <2>1, <2>2
  <2> QED
    BY <1>3, <2>3 DEF Trees!AdaptGraph, TreesInv, GrownInv, CellsInv, TreeOk
<1> QED
  BY <1>1, <1>2, <1>3

(* From every row of a trunk that was built the walk leads to the next      *)
(* city's tree, or to a seed of its own, if it was not cut off.             *)
LEMMA PairsArrive ==
  ASSUME Trees!TrunkTreesAssumption, GrownInv, NEW a \in Cities, NEW b \in Cities, npz[a] # None,
         Trees!BuildPair(a, b) # Trees!Degenerate(a, b)
  PROVE  Arrives(Trees!BuildPair(a, b), Trees!NodesOf(b) \cup Trees!SeedsOf(a), CutOff(a, b))
<1> DEFINE parent == npz[a].parent
           tree == Trees!NodesOf(a)
           fonly == tree \ Trees!NodesOf(b)
           leaves == npz[a].frontier \cap fonly
           up == Trees!Ancestors(parent, leaves)
           bfrontier == {parent[v] : v \in fonly} \cap Trees!NodesOf(b)
           kept == Trees!KeptRows(a, b)
           s == Trees!BuildPair(a, b)
<1>1. kept # {} /\ s = [v \in kept |-> IF parent[v] \in kept THEN parent[v] ELSE Trees!NULL]
  BY DEF Trees!BuildPair
<1>2. kept = (fonly \cap up) \cup bfrontier
  BY <1>1 DEF Trees!KeptRows
<1>3. /\ kept \subseteq tree /\ tree \subseteq Nat /\ IsFiniteSet(tree)
      /\ DOMAIN parent = tree /\ None \notin tree
      /\ \A v \in tree : parent[v] \in tree \cup {None} /\ (parent[v] = None => v \in Trees!SeedsOf(a))
      /\ Downwards(parent, None)
  <2>1. TreeOk(npz[a]) /\ tree = DOMAIN npz[a].cost /\ kept \subseteq tree
    BY KeptAreNodes
  <2>2. None \notin Nat
    BY DEF Trees!TrunkTreesAssumption
  <2> QED
    BY <2>1, <2>2 DEF TreeOk, Trees!SeedsOf
<1>4. ASSUME ~CutOff(a, b)  PROVE Led(parent, leaves, up)
  <2>1. MAX_CLIMB \in Nat
    BY DEF Trees!TrunkTreesAssumption
  <2>2. leaves \in SUBSET DOMAIN parent
    BY <1>3
  <2>3. ASSUME NEW v \in leaves  PROVE Cardinality(Trees!WalkFrom(parent, {v})) <= MAX_CLIMB + 1
    <3>1. ~Trees!TooDeep(a, v)
      BY <1>4 DEF CutOff
    <3>2. ~(Cardinality(Trees!WalkFrom(parent, {v})) > MAX_CLIMB + 1)
      BY Zenon, <3>1 DEF Trees!TooDeep, Trees!Cardinality, Cardinality
    <3>3. IsFiniteSet(Trees!WalkFrom(parent, {v}))
      <4>1. Led(parent, {v} \cap DOMAIN parent, Trees!WalkFrom(parent, {v}))
        BY <1>3, WalkIs
      <4>2. Trees!WalkFrom(parent, {v}) \in SUBSET DOMAIN parent
        BY <4>1 DEF Led
      <4> QED
        BY <4>2, <1>3, FS_Subset
    <3>4. Cardinality(Trees!WalkFrom(parent, {v})) \in Nat
      BY <3>3, FS_CardinalityType
    <3> QED
      BY <3>2, <3>4, <2>1
  <2> HIDE DEF parent, leaves
  <2> QED
    BY <1>3, <2>1, <2>2, <2>3, AncestorsAre
<1> HIDE DEF parent, tree, leaves, up, kept, s
<1>5. IsFiniteSet(kept) /\ DOMAIN s = kept
  BY <1>1, <1>3, FS_Subset
<1>6. \A v \in kept : (s[v] = parent[v] /\ parent[v] \in kept) \/ (s[v] = Trees!NULL /\ parent[v] \notin kept)
  BY <1>1
<1>7. Trees!NULL \notin kept
  BY <1>3 DEF Trees!NULL
<1>8. ASSUME ~CutOff(a, b), NEW u \in kept, s[u] = Trees!NULL
      PROVE  u \in Trees!NodesOf(b) \cup Trees!SeedsOf(a)
  <2> SUFFICES ASSUME u \notin Trees!NodesOf(b), u \notin Trees!SeedsOf(a)  PROVE FALSE
    OBVIOUS
  <2>1. parent[u] \notin kept
    BY <1>6, <1>7, <1>8
  <2>2. u \in fonly /\ u \in up
    BY <1>2, <1>3
  <2>3. parent[u] \in tree
    BY <1>3
  <2>4. parent[u] \in up
    BY <1>3, <1>4, <1>8, <2>2, <2>3 DEF Led, Closed
  <2>5. parent[u] \in Trees!NodesOf(b) \/ parent[u] \in fonly
    BY <2>3
  <2>6. parent[u] \in Trees!NodesOf(b) => parent[u] \in bfrontier
    BY <2>2
  <2> QED
    BY <2>1, <2>4, <2>5, <2>6, <1>2
<1>9. ASSUME NEW v \in kept  PROVE Trees!TerminiOf(s) \cap Trees!WalkFrom(s, {v}) # {}
  <2> DEFINE W == Trees!WalkFrom(s, {v})
  <2>1. Led(s, {v}, W)
    <3>1. {v} \cap DOMAIN s = {v}
      BY <1>5
    <3> QED
      BY <3>1, <1>5, WalkIs
  <2> HIDE DEF W
  <2>2. v \in W /\ W \in SUBSET kept /\ Closed(s, W)
    BY <2>1, <1>5 DEF Led
  <2>3. PICK rank \in [tree -> Nat] :
            \A x \in tree : parent[x] \in tree \ {None} => rank[parent[x]] < rank[x]
    BY <1>3 DEF Downwards
  <2>4. PICK u \in W : \A y \in W : rank[u] <= rank[y]
    <3> DEFINE R == {rank[y] : y \in W}
    <3>1. R \in SUBSET Nat /\ R # {}
      BY <2>2, <2>3, <1>3
    <3>2. \E m \in R : \A n \in R : m <= n
      <4> HIDE DEF R
      <4> QED BY <3>1, LeastNat
    <3> QED
      BY <3>2
  <2>5. u \in kept /\ u \in tree
    BY <2>2, <1>3
  <2>6. ASSUME parent[u] \in kept  PROVE FALSE
    <3>1. s[u] = parent[u] /\ s[u] \in DOMAIN s
      BY <2>5, <2>6, <1>5, <1>6
    <3>2. parent[u] \in W
      BY <3>1, <2>2 DEF Closed
    <3>3. parent[u] \in tree \ {None}
      BY <2>6, <1>3
    <3>4. rank[parent[u]] < rank[u] /\ rank[u] <= rank[parent[u]] /\ rank[u] \in Nat /\ rank[parent[u]] \in Nat
      BY <3>2, <3>3, <2>3, <2>4, <2>5
    <3> QED
      BY <3>4
  <2>7. u \in Trees!TerminiOf(s)
    BY <2>5, <2>6, <1>5, <1>6 DEF Trees!TerminiOf
  <2> QED
    BY <2>7 DEF W
<1>10. ASSUME NEW v \in kept, ~CutOff(a, b)
       PROVE  Trees!TerminiOf(s) \cap Trees!WalkFrom(s, {v}) \subseteq Trees!NodesOf(b) \cup Trees!SeedsOf(a)
  BY <1>5, <1>8, <1>10 DEF Trees!TerminiOf
<1>11. Arrives(s, Trees!NodesOf(b) \cup Trees!SeedsOf(a), CutOff(a, b))
  BY <1>5, <1>9, <1>10 DEF Arrives
<1> QED
  BY <1>11 DEF s

LEMMA NothingCutAnew == npz' = npz => \A x, y : CutOff(x, y)' <=> CutOff(x, y)
<1> SUFFICES ASSUME npz' = npz, NEW x, NEW y  PROVE CutOff(x, y)' <=> CutOff(x, y)
  OBVIOUS
<1>1. \A u : Trees!TooDeep(x, u)' <=> Trees!TooDeep(x, u)
  BY DEF Trees!TooDeep
<1>2. Trees!NodesOf(y)' = Trees!NodesOf(y)
  BY DEF Trees!NodesOf
<1> QED
  BY <1>1, <1>2 DEF CutOff

LEMMA BuildingKeeps ==
  ASSUME Trees!TrunkTreesAssumption, TreesInv, Trees!BuildPaired
  PROVE  TreesInv'
<1> DEFINE P == {<<e.from, e.to>> : e \in {x \in graph : npz[x.from] # None}}
<1>1. GrownInv /\ GrownInv'
  BY DEF TreesInv, GrownInv, CellsInv, Trees!BuildPaired, TreeOk
<1>2. source' = [p \in P |-> Trees!BuildPair(p[1], p[2])] /\ trunks' = source' /\ pc' = "prune"
  BY DEF Trees!BuildPaired
<1>3. \A p \in P : p \in Cities \X Cities /\ npz[p[1]] # None
  BY <1>1 DEF GrownInv
<1> HIDE DEF P
<1>4. ArriveInv'
  <2>1. npz' = npz
    BY DEF Trees!BuildPaired
  <2>2. \A c : Trees!NodesOf(c)' = Trees!NodesOf(c) /\ Trees!SeedsOf(c)' = Trees!SeedsOf(c)
    BY <2>1 DEF Trees!NodesOf, Trees!SeedsOf
  <2>5. \A x, y : CutOff(x, y)' <=> CutOff(x, y)
    BY <2>1, NothingCutAnew
  <2>3. ASSUME NEW p \in P, source'[p] # Trees!Degenerate(p[1], p[2])
        PROVE  Arrives(source'[p], Trees!NodesOf(p[2]) \cup Trees!SeedsOf(p[1]), CutOff(p[1], p[2]))
    <3>1. source'[p] = Trees!BuildPair(p[1], p[2]) /\ p[1] \in Cities /\ p[2] \in Cities /\ npz[p[1]] # None
      BY <1>2, <1>3
    <3> QED
      BY <3>1, <2>3, <1>1, PairsArrive
  <2>4. DOMAIN source' = P
    BY <1>2
  <2> QED
    BY <2>2, <2>3, <2>4, <2>5 DEF ArriveInv, Arrives
<1>5. \A q \in P : /\ IsFiniteSet(DOMAIN source'[q])
                   /\ source'[q] = [v \in DOMAIN source'[q] |-> source'[q][v]]
  <2> TAKE q \in P
  <2>1. source'[q] = Trees!BuildPair(q[1], q[2]) /\ q[1] \in Cities /\ q[2] \in Cities /\ npz[q[1]] # None
    BY <1>2, <1>3
  <2> QED
    BY <2>1, <1>1, PairsAreFinite
<1>6. DOMAIN source' = P
  BY <1>2
<1>7. TrunksInv'
  BY <1>2, <1>3, <1>5, <1>6 DEF TrunksInv, PartOf
<1> QED
  BY <1>1, <1>2, <1>4, <1>7 DEF TreesInv

LEMMA PruningCityKeeps ==
  ASSUME Trees!TrunkTreesAssumption, TreesInv, Trees!PruneCity
  PROVE  TreesInv'
<1> DEFINE a == Trees!Least(turn)
<1>1. pc = "prune" /\ pc' = pc /\ source' = source /\ npz' = npz
  BY DEF Trees!PruneCity
<1>2. GrownInv /\ TrunksInv /\ ArriveInv
  BY <1>1 DEF TreesInv
<1>3. GrownInv'
  BY <1>2 DEF GrownInv, CellsInv, Trees!PruneCity, TreeOk
<1>4. ArriveInv'
  <2>1. \A c : Trees!NodesOf(c)' = Trees!NodesOf(c) /\ Trees!SeedsOf(c)' = Trees!SeedsOf(c)
    BY <1>1 DEF Trees!NodesOf, Trees!SeedsOf
  <2>2. \A x, y : CutOff(x, y)' <=> CutOff(x, y)
    BY <1>1, NothingCutAnew
  <2> QED
    BY <2>1, <2>2, <1>1, <1>2 DEF ArriveInv, Arrives
<1>5. trunks' = [p \in DOMAIN trunks |->
                    IF p[1] = a /\ ~Trees!IsBorder(a)
                    THEN Trees!PruneTrunk(trunks[p], Trees!Entries(a, trunks)) ELSE trunks[p]]
  BY DEF Trees!PruneCity
<1> HIDE DEF a
<1>6. ASSUME NEW q \in DOMAIN trunks
      PROVE  /\ DOMAIN trunks'[q] \subseteq DOMAIN trunks[q]
             /\ trunks'[q] = [v \in DOMAIN trunks'[q] |-> trunks[q][v]]
             /\ \A t \in Trees!Entries(q[1], trunks) :
                    Trees!WalkFrom(trunks'[q], {t}) = Trees!WalkFrom(trunks[q], {t})
  <2>1. IsFiniteSet(DOMAIN trunks[q]) /\ trunks[q] = [v \in DOMAIN trunks[q] |-> trunks[q][v]]
    <3>1. /\ IsFiniteSet(DOMAIN source[q]) /\ DOMAIN trunks[q] \subseteq DOMAIN source[q]
          /\ trunks[q] = [v \in DOMAIN trunks[q] |-> source[q][v]]
      BY <1>2 DEF TrunksInv, PartOf
    <3>2. IsFiniteSet(DOMAIN trunks[q])
      BY <3>1, FS_Subset
    <3> QED
      BY <3>1, <3>2
  <2>2. CASE q[1] = a /\ ~Trees!IsBorder(a)
    <3>1. trunks'[q] = Trees!PruneTrunk(trunks[q], Trees!Entries(q[1], trunks))
      BY <1>5, <2>2
    <3> QED
      BY <3>1, <2>1, PruningKeeps
  <2>3. CASE ~(q[1] = a /\ ~Trees!IsBorder(a))
    <3>1. trunks'[q] = trunks[q]
      BY <1>5, <2>3
    <3> QED
      BY <3>1, <2>1
  <2> QED
    BY <2>2, <2>3
<1>7. DOMAIN trunks' = DOMAIN trunks
  BY <1>5
<1>8. \A c : Trees!Entries(c, trunks') \subseteq Trees!Entries(c, trunks)
  <2>1. \A p \in DOMAIN trunks : Trees!TerminiOf(trunks'[p]) \subseteq Trees!TerminiOf(trunks[p])
    BY <1>6 DEF Trees!TerminiOf
  <2> QED
    BY <2>1, <1>7, EntriesShrink
<1>9. ASSUME NEW q \in DOMAIN source
      PROVE  PartOf(trunks'[q], source[q], Trees!Entries(q[1], trunks'))
  <2>1. q \in DOMAIN trunks /\ PartOf(trunks[q], source[q], Trees!Entries(q[1], trunks))
    BY <1>2 DEF TrunksInv
  <2>2. \A v \in DOMAIN trunks'[q] : trunks[q][v] = source[q][v]
    BY <2>1, <1>6 DEF PartOf
  <2>3. trunks'[q] = [v \in DOMAIN trunks'[q] |-> source[q][v]]
    BY <2>1, <2>2, <1>6
  <2> QED
    BY <2>1, <2>3, <1>6, <1>8 DEF PartOf
<1>10. TrunksInv'
  <2>1. \A q \in DOMAIN source : PartOf(trunks'[q], source'[q], Trees!Entries(q[1], trunks'))
    BY <1>1, <1>9
  <2>2. DOMAIN source' \subseteq Cities \X Cities /\ DOMAIN trunks' = DOMAIN source' /\ DOMAIN source = DOMAIN source'
    BY <1>1, <1>2, <1>7 DEF TrunksInv
  <2>3. \A q \in DOMAIN source' : PartOf(trunks'[q], source'[q], Trees!Entries(q[1], trunks'))
    BY <2>1, <2>2
  <2> QED
    BY <2>2, <2>3 DEF TrunksInv, Trees!Entries
<1> QED
  BY <1>1, <1>3, <1>4, <1>10 DEF TreesInv

LEMMA TreesStay ==
  ASSUME TreesInv, pc' = pc, UNCHANGED <<ways, chain, cells, npz, graph, source, trunks>>
  PROVE  TreesInv'
<1>1. GrownInv'
  BY DEF TreesInv, GrownInv, CellsInv, TreeOk
<1>2. ASSUME pc \in {"prune", "deployed"}  PROVE ArriveInv' /\ TrunksInv'
  <2>1. \A c : Trees!NodesOf(c)' = Trees!NodesOf(c) /\ Trees!SeedsOf(c)' = Trees!SeedsOf(c)
    BY DEF Trees!NodesOf, Trees!SeedsOf
  <2>2. ArriveInv /\ TrunksInv
    BY <1>2 DEF TreesInv
  <2>5. \A x, y : CutOff(x, y)' <=> CutOff(x, y)
    BY NothingCutAnew
  <2>3. ArriveInv'
    BY <2>1, <2>2, <2>5 DEF ArriveInv, Arrives
  <2>4. TrunksInv'
    BY <2>2 DEF TrunksInv, Trees!Entries
  <2> QED
    BY <2>3, <2>4
<1> QED
  BY <1>1, <1>2 DEF TreesInv

LEMMA WritingKeeps ==
  ASSUME TreesInv, Trees!WritePruned
  PROVE  TreesInv'
<1>1. pc = "prune" /\ pc' = "deployed" /\ UNCHANGED <<ways, chain, cells, npz, graph, source, trunks>>
  BY DEF Trees!WritePruned
<1>2. GrownInv'
  BY <1>1 DEF TreesInv, GrownInv, CellsInv, TreeOk
<1>3. \A c : Trees!NodesOf(c)' = Trees!NodesOf(c) /\ Trees!SeedsOf(c)' = Trees!SeedsOf(c)
  BY <1>1 DEF Trees!NodesOf, Trees!SeedsOf
<1>4. ArriveInv /\ TrunksInv
  BY <1>1 DEF TreesInv
<1>7. \A x, y : CutOff(x, y)' <=> CutOff(x, y)
  BY <1>1, NothingCutAnew
<1>5. ArriveInv'
  BY <1>1, <1>3, <1>4, <1>7 DEF ArriveInv, Arrives
<1>6. TrunksInv'
  BY <1>1, <1>4 DEF TrunksInv, Trees!Entries
<1> QED
  BY <1>1, <1>2, <1>5, <1>6 DEF TreesInv

LEMMA TreesKeep == Trees!TrunkTreesAssumption /\ TreesInv /\ [Trees!Next]_(Trees!vars) => TreesInv'
<1> SUFFICES ASSUME Trees!TrunkTreesAssumption, TreesInv, [Trees!Next]_(Trees!vars)  PROVE TreesInv'
  OBVIOUS
<1>1. CASE Trees!ExportCells \/ Trees!ComputeSpt \/ Trees!AdaptGraph
  BY <1>1, GrowthKeeps
<1>2. CASE Trees!BuildPaired
  BY <1>2, BuildingKeeps
<1>3. CASE Trees!PruneCity
  BY <1>3, PruningCityKeeps
<1>4. CASE Trees!NextPass
  <2>1. pc' = pc /\ UNCHANGED <<ways, chain, cells, npz, graph, source, trunks>>
    BY <1>4 DEF Trees!NextPass
  <2> QED
    BY <2>1, TreesStay
<1>5. CASE Trees!WritePruned
  BY <1>5, WritingKeeps
<1>6. CASE UNCHANGED Trees!vars
  <2>1. pc' = pc /\ UNCHANGED <<ways, chain, cells, npz, graph, source, trunks>>
    BY <1>6 DEF Trees!vars
  <2> QED
    BY <2>1, TreesStay
<1> QED
  BY <1>1, <1>2, <1>3, <1>4, <1>5, <1>6 DEF Trees!Next

(* Wherever a walk in a trunk that was built begins, it ends; and where it  *)
(* ends the next city's tree takes over, or the city itself is reached,     *)
(* unless a road leads out of the polygon deeper in the city's tree than    *)
(* the trunk's rounds go (build_polygon_paired_db_v2.py).  It holds for any *)
(* ways, chain graph, cell sizes, polygons and number of rounds.            *)
THEOREM BuiltWalksArrive == Trees!TrunkTreesAssumption => (Trees!Spec => []Trees!WalksArrive)
<1> SUFFICES ASSUME Trees!TrunkTreesAssumption  PROVE Trees!Spec => []Trees!WalksArrive
  OBVIOUS
<1>1. Trees!Init => TreesInv
  BY TreesBegin
<1>2. TreesInv /\ [Trees!Next]_(Trees!vars) => TreesInv'
  BY TreesKeep
<1>3. TreesInv => Trees!WalksArrive
  BY DEF TreesInv, ArriveInv, Arrives, CutOff, Trees!WalksArrive
<1> QED
  BY <1>1, <1>2, <1>3, PTL DEF Trees!Spec

(* Pruning leaves the walks alone that a router takes: who came over one    *)
(* trunk and goes on over the next finds the walk that was built            *)
(* (prune_paired_trunks.py), however many passes there are.                 *)
THEOREM PruningSpares == Trees!TrunkTreesAssumption => (Trees!Spec => []Trees!PruningKeepsWalks)
<1> SUFFICES ASSUME Trees!TrunkTreesAssumption  PROVE Trees!Spec => []Trees!PruningKeepsWalks
  OBVIOUS
<1>1. Trees!Init => TreesInv
  BY TreesBegin
<1>2. TreesInv /\ [Trees!Next]_(Trees!vars) => TreesInv'
  BY TreesKeep
<1>3. TreesInv => Trees!PruningKeepsWalks
  <2> SUFFICES ASSUME TreesInv, pc = "deployed",
                      NEW p \in DOMAIN trunks, NEW q \in DOMAIN trunks, p[2] = q[1],
                      NEW t \in Trees!TerminiOf(trunks[p])
               PROVE  Trees!WalkFrom(trunks[q], {t}) = Trees!WalkFrom(source[q], {t})
    BY DEF Trees!PruningKeepsWalks
  <2>1. TrunksInv
    BY DEF TreesInv
  <2>2. p[1] \in Cities /\ p = <<p[1], q[1]>>
    BY <2>1 DEF TrunksInv
  <2>3. t \in Trees!Entries(q[1], trunks)
    <3>1. p[1] \in {y \in Cities : <<y, q[1]>> \in DOMAIN trunks}
      BY <2>2
    <3>2. t \in Trees!TerminiOf(trunks[<<p[1], q[1]>>])
      BY <2>2
    <3> QED
      BY <3>1, <3>2 DEF Trees!Entries
  <2>4. PartOf(trunks[q], source[q], Trees!Entries(q[1], trunks))
    BY <2>1 DEF TrunksInv
  <2> QED
    BY <2>3, <2>4 DEF PartOf
<1> QED
  BY <1>1, <1>2, <1>3, PTL DEF Trees!Spec

---------------------------------------------------------------------------
\* Searches that end: what they know is exact

\* What follows for a vertex from the vertices that cost less, is so for all.
LEMMA ByCost ==
  ASSUME NEW D, NEW c \in [D -> Nat], NEW Good,
         \A v \in D : (\A u \in D : c[u] < c[v] => u \in Good) => v \in Good
  PROVE  D \subseteq Good
<1> DEFINE Bad == {c[v] : v \in D \ Good}
<1> SUFFICES ASSUME D \ Good # {} PROVE FALSE
  OBVIOUS
<1>1. Bad \in SUBSET Nat /\ Bad # {}
  OBVIOUS
<1>2. PICK n \in Bad : \A m \in Bad : n <= m
  <2> HIDE DEF Bad
  <2> QED BY <1>1, LeastNat
<1>3. PICK v \in D \ Good : n = c[v]
  OBVIOUS
<1>4. ASSUME NEW u \in D, c[u] < c[v]  PROVE u \in Good
  <2> SUFFICES ASSUME u \notin Good PROVE FALSE
    OBVIOUS
  <2>1. c[u] \in Bad
    OBVIOUS
  <2>2. c[v] <= c[u] /\ c[u] \in Nat /\ c[v] \in Nat
    BY <2>1, <1>2, <1>3
  <2> QED
    BY <2>2, <1>4
<1> QED
  BY <1>3, <1>4

\* What the rounds of a search know, and what it answers from the last one.
RoundsOf(h, N, X, sources, A, limit) ==
    /\ h \in [0..N -> PairsOf(X)]
    /\ h[0] = {<<s, 0>> : s \in sources}
    /\ \A n \in 1..N :
         /\ h[n] \in SUBSET (h[n - 1] \cup Stepped(h[n - 1], A, limit))
         /\ NoDearer(h[n], h[n - 1] \cup Stepped(h[n - 1], A, limit))
    /\ CostsOf(sources, A, limit) = Priced(h[N])
    /\ \A p, r \in h[N] : p[1] = r[1] => p = r

\* They know it for any sources and arcs.
LEMMA RoundsKnow ==
  ASSUME NEW X, NEW sources \in SUBSET X, NEW limit \in Nat,
         NEW A \in ArcsOf(X), IsFiniteSet(A)
  PROVE  \E h : RoundsOf(h, Cardinality(Ends(A)), X, sources, A, limit)
<1> DEFINE N == Cardinality(Ends(A))
<1>1. N \in Nat
  BY EndsFinite, FS_CardinalityType
<1>2. PICK h : Rounds(h, X, sources, A, limit, N)
  <2> HIDE DEF N
  <2> QED BY <1>1, WaysAre
<1>3. CostsOf(sources, A, limit) = Priced(h[N])
  <2>1. CostsOf(sources, A, limit) = Priced((CHOOSE u : Searched(sources, A, limit, N, u))[N])
    BY DEF CostsOf
  <2> QED
    BY <2>1, <1>2 DEF Rounds
<1> HIDE DEF N
<1>4. h \in [0..N -> PairsOf(X)] /\ h[0] = {<<s, 0>> : s \in sources}
  BY <1>2 DEF Rounds
<1>5. ASSUME NEW n \in 1..N
      PROVE  /\ h[n] \in SUBSET (h[n - 1] \cup Stepped(h[n - 1], A, limit))
             /\ NoDearer(h[n], h[n - 1] \cup Stepped(h[n - 1], A, limit))
             /\ \A p, r \in h[n] : p[1] = r[1] => p = r
  <2> DEFINE R == h[n - 1] \cup Stepped(h[n - 1], A, limit)
  <2>1. n - 1 \in 0..N
    BY <1>1
  <2>2. R \in PairsOf(X) /\ h[n] = Lowest(R)
    BY <2>1, <1>2, <1>4, SteppedIs DEF Rounds
  <2> HIDE DEF R
  <2>3. /\ Lowest(R) \in SUBSET R /\ NoDearer(Lowest(R), R)
        /\ \A p, r \in Lowest(R) : p[1] = r[1] => p = r
    BY <2>2, LowestIs
  <2>4. h[n] \in SUBSET R /\ NoDearer(h[n], R) /\ \A p, r \in h[n] : p[1] = r[1] => p = r
    BY Zenon, <2>2, <2>3
  <2> QED
    BY <2>4 DEF R
<1>6. \A p, r \in h[N] : p[1] = r[1] => p = r
  <2>1. \A p, r \in h[0] : p[1] = r[1] => p = r
    BY <1>4
  <2>2. N = 0 \/ N \in 1..N
    BY <1>1
  <2> QED
    BY <2>1, <2>2, <1>5
<1>7. RoundsOf(h, N, X, sources, A, limit)
  BY <1>3, <1>4, <1>5, <1>6 DEF RoundsOf
<1> QED
  BY <1>7 DEF N

(* A search stays within what the arcs do not lead out of, and finds no way *)
(* cheaper than what no arc improves.                                       *)
Unimproved(c, W, sources, A) ==
    /\ sources \subseteq W /\ c \in [W -> Nat]
    /\ \A s \in sources : c[s] = 0
    /\ \A a \in A : a.from \in W => a.to \in W /\ c[a.to] <= c[a.from] + a.cost

NoCheaper(d, c, W) ==
    DOMAIN d \subseteq W /\ \A v \in DOMAIN d : d[v] \in Nat /\ c[v] <= d[v]

LEMMA SearchStays ==
  ASSUME NEW X, NEW sources \in SUBSET X, NEW limit \in Nat,
         NEW A \in ArcsOf(X), IsFiniteSet(A),
         NEW W, NEW c, Unimproved(c, W, sources, A)
  PROVE  LET d == CostsOf(sources, A, limit) IN
         NoCheaper(d, c, W) /\ \A v \in DOMAIN d : d[v] <= limit
<1>0. /\ sources \subseteq W /\ c \in [W -> Nat]
      /\ \A s \in sources : c[s] = 0
      /\ \A a \in A : a.from \in W => a.to \in W /\ c[a.to] <= c[a.from] + a.cost
  BY DEF Unimproved
<1> USE <1>0
<1> DEFINE N == Cardinality(Ends(A))
<1>1. N \in Nat
  BY EndsFinite, FS_CardinalityType
<1>2. PICK h :
            /\ h \in [0..N -> PairsOf(X)]
            /\ h[0] = {<<s, 0>> : s \in sources}
            /\ \A n \in 1..N : h[n] \in SUBSET (h[n - 1] \cup Stepped(h[n - 1], A, limit))
            /\ CostsOf(sources, A, limit) = Priced(h[N])
            /\ \A p, r \in h[N] : p[1] = r[1] => p = r
  <2>1. PICK h : RoundsOf(h, N, X, sources, A, limit)
    BY RoundsKnow
  <2> QED
    BY <2>1 DEF RoundsOf
<1> HIDE DEF N
<1> DEFINE S == {n \in 0..N : \A p \in h[n] : p[1] \in W /\ c[p[1]] <= p[2] /\ p[2] <= limit}
<1>3. 0 \in S
  <2>1. \A p \in h[0] : p[1] \in sources /\ p[2] = 0
    BY <1>2
  <2> QED
    BY <2>1, <1>1
<1>4. ASSUME NEW n \in 0..N, n # 0, n - 1 \in S  PROVE n \in S
  <2>1. n \in 1..N /\ n - 1 \in 0..N
    BY <1>4
  <2>2. \A p \in h[n - 1] : p[1] \in W /\ c[p[1]] <= p[2] /\ p[2] <= limit
    BY <1>4
  <2>3. ASSUME NEW p \in h[n]  PROVE p[1] \in W /\ c[p[1]] <= p[2] /\ p[2] <= limit
    <3>1. p \in h[n - 1] \/ p \in Stepped(h[n - 1], A, limit)
      BY <2>1, <1>2
    <3>2. CASE p \in Stepped(h[n - 1], A, limit)
      <4>1. PICK y \in h[n - 1], a \in A :
                y[1] = a.from /\ y[2] + a.cost <= limit /\ p = <<a.to, y[2] + a.cost>>
        BY <3>2 DEF Stepped
      <4>2. y[1] \in W /\ c[y[1]] <= y[2]
        BY <2>2
      <4>3. y[2] \in Nat /\ a.cost \in Nat
        BY <2>1, <1>2 DEF PairsOf, ArcsOf
      <4>4. a.to \in W /\ c[a.to] <= c[a.from] + a.cost /\ c[a.to] \in Nat /\ c[a.from] \in Nat
        BY <4>1, <4>2
      <4>5. p[1] = a.to /\ p[2] = y[2] + a.cost
        BY <4>1
      <4> QED
        BY <4>1, <4>2, <4>3, <4>4, <4>5
    <3> QED
      BY <3>1, <3>2, <2>2
  <2> QED
    BY <2>3
<1>5. N \in S
  <2> HIDE DEF S
  <2>1. 0..N \subseteq S
    BY <1>1, <1>3, <1>4, Upward
  <2> QED
    BY <2>1, <1>1
<1>6. /\ \A p \in h[N] : p[1] \in DOMAIN Priced(h[N]) /\ Priced(h[N])[p[1]] = p[2]
      /\ \A v \in DOMAIN Priced(h[N]) : \E p \in h[N] : p[1] = v
  BY <1>2, PricedIs
<1>7. ASSUME NEW v \in DOMAIN Priced(h[N])
      PROVE  /\ v \in W /\ Priced(h[N])[v] \in Nat /\ c[v] <= Priced(h[N])[v]
             /\ Priced(h[N])[v] <= limit
  <2>1. PICK p \in h[N] : p[1] = v
    BY <1>6
  <2>2. p[2] \in Nat
    BY <1>1, <1>2 DEF PairsOf
  <2> QED
    BY <2>1, <2>2, <1>5, <1>6
<1> QED
  BY <1>2, <1>7 DEF NoCheaper

(* Costs no arc improves, each of which some arc accounts for, are those a  *)
(* search finds, if its limit does not come in between.  Where arcs may     *)
(* cost nothing, what accounts for a cost must lead back to a source: r is  *)
(* how far back that is.                                                    *)
LedBack(c, r, D, S, A) ==
    /\ r \in [D -> Nat] /\ \A s \in S : r[s] = 0
    /\ \A v \in D \ S : \E a \in A : /\ a.to = v /\ a.from \in D /\ c[v] = c[a.from] + a.cost
                                    /\ r[a.from] < r[v]

Reckoned(c, r, D, S, A, limit) ==
    /\ S \subseteq D /\ c \in [D -> Nat] /\ \A s \in S : c[s] = 0
    /\ \A a \in A : a.from \in D => a.to \in D /\ c[a.to] <= c[a.from] + a.cost
    /\ LedBack(c, r, D, S, A)
    /\ \A v \in D : c[v] <= limit

Exact(c, D, S, A, limit) ==
    /\ S \subseteq D /\ c \in [D -> Nat] /\ \A s \in S : c[s] = 0
    /\ \A a \in A : a.cost > 0
    /\ \A a \in A : a.from \in D => a.to \in D /\ c[a.to] <= c[a.from] + a.cost
    /\ \A v \in D \ S : \E a \in A : a.to = v /\ a.from \in D /\ c[v] = c[a.from] + a.cost
    /\ \A v \in D : c[v] <= limit

Agree(d, c, D) == DOMAIN d = D /\ \A v \in D : d[v] = c[v]

LEMMA SearchReckons ==
  ASSUME NEW X, NEW S \in SUBSET X, NEW limit \in Nat, NEW A \in ArcsOf(X), IsFiniteSet(A),
         NEW D, NEW c, NEW r, Reckoned(c, r, D, S, A, limit)
  PROVE  Agree(CostsOf(S, A, limit), c, D)
<1>0. /\ S \subseteq D /\ c \in [D -> Nat] /\ \A s \in S : c[s] = 0
      /\ r \in [D -> Nat] /\ \A s \in S : r[s] = 0
      /\ \A a \in A : a.from \in D => a.to \in D /\ c[a.to] <= c[a.from] + a.cost
      /\ \A v \in D \ S : \E a \in A : /\ a.to = v /\ a.from \in D /\ c[v] = c[a.from] + a.cost
                                      /\ r[a.from] < r[v]
      /\ \A v \in D : c[v] <= limit
  BY DEF Reckoned, LedBack
<1> USE <1>0
<1> DEFINE N == Cardinality(Ends(A))
           L(v) == {u \in D \ S : r[u] <= r[v]}
<1>1. N \in Nat /\ IsFiniteSet(Ends(A))
  BY EndsFinite, FS_CardinalityType
<1>2. PICK h : RoundsOf(h, N, X, S, A, limit)
  BY RoundsKnow
<1>3. D \ S \subseteq Ends(A)
  BY DEF Ends
<1>4. ASSUME NEW v \in D
      PROVE  IsFiniteSet(L(v)) /\ Cardinality(L(v)) \in 0..N
  <2>1. L(v) \subseteq Ends(A)
    BY <1>3
  <2> HIDE DEF L
  <2> QED
    BY <2>1, <1>1, FS_Subset, FS_CardinalityType
<1>5. ASSUME NEW a \in A, a.from \in D, a.to \in D \ S, r[a.from] < r[a.to]
      PROVE  Cardinality(L(a.from)) + 1 <= Cardinality(L(a.to))
  <2>1. r[a.from] \in Nat /\ r[a.to] \in Nat /\ \A u \in D : r[u] \in Nat
    BY <1>5
  <2>2. L(a.from) \subseteq L(a.to) \ {a.to}
    BY <2>1, <1>5
  <2>3. a.to \in L(a.to)
    BY <1>5, <2>1
  <2>4. IsFiniteSet(L(a.to)) /\ Cardinality(L(a.to)) \in Nat
    <3> HIDE DEF L
    <3> QED BY <1>1, <1>4, <1>5
  <2> HIDE DEF L
  <2>5. IsFiniteSet(L(a.to) \ {a.to}) /\ Cardinality(L(a.to) \ {a.to}) = Cardinality(L(a.to)) - 1
    BY <2>3, <2>4, FS_RemoveElement
  <2>6. Cardinality(L(a.from)) <= Cardinality(L(a.to) \ {a.to}) /\ Cardinality(L(a.from)) \in Nat
    BY <2>2, <2>5, FS_Subset, FS_CardinalityType
  <2> QED
    BY <2>4, <2>5, <2>6
<1> HIDE DEF N, L
<1> DEFINE Known(v, n) == \E p \in h[n] : p[1] = v /\ p[2] <= c[v]
<1>6. \A n \in 0..N : h[n] \in PairsOf(X)
  BY <1>2 DEF RoundsOf
<1>7. ASSUME NEW n \in 1..N, NEW v \in D, Known(v, n - 1)  PROVE Known(v, n)
  <2>1. PICK p \in h[n - 1] : p[1] = v /\ p[2] <= c[v]
    BY <1>7
  <2>2. n - 1 \in 0..N /\ n \in 0..N
    BY <1>1
  <2>3. PICK q \in h[n] : q[1] = p[1] /\ q[2] <= p[2]
    BY <2>1, <1>2 DEF RoundsOf, NoDearer
  <2>4. q[2] \in Nat /\ p[2] \in Nat /\ c[v] \in Nat
    BY <2>1, <2>2, <2>3, <1>6 DEF PairsOf
  <2> QED
    BY <2>1, <2>3, <2>4
<1>8. ASSUME NEW v \in D, NEW m \in 0..N, Known(v, m)  PROVE Known(v, N)
  <2> DEFINE K == {n \in m..N : Known(v, n)}
  <2>1. m \in K
    BY <1>1, <1>8
  <2>2. ASSUME NEW n \in m..N, n # m, n - 1 \in K  PROVE n \in K
    <3>1. n \in 1..N
      BY <1>1, <2>2
    <3> QED
      BY <3>1, <2>2, <1>7
  <2> HIDE DEF K, Known
  <2>3. m..N \subseteq K
    BY <2>1, <2>2, <1>1, Upward
  <2> QED
    BY <2>3, <1>1 DEF K
<1> DEFINE Good == {v \in D : \A n \in Cardinality(L(v))..N : Known(v, n)}
<1>9. ASSUME NEW v \in D, \A u \in D : r[u] < r[v] => u \in Good  PROVE v \in Good
  <2> SUFFICES ASSUME NEW n \in Cardinality(L(v))..N  PROVE Known(v, n)
    OBVIOUS
  <2> HIDE DEF Known
  <2>0. Cardinality(L(v)) \in 0..N /\ n \in Nat
    BY <1>1, <1>4
  <2> DEFINE K == {k \in Cardinality(L(v))..N : Known(v, k)}
  <2>1. Cardinality(L(v)) \in K
    <3>1. CASE v \in S
      <4>1. <<v, 0>> \in h[0]
        BY <1>2, <3>1 DEF RoundsOf
      <4>2. Known(v, 0)
        BY <4>1, <3>1 DEF Known
      <4>3. L(v) = {}
        <5>1. ASSUME NEW u \in D \ S  PROVE r[u] > 0
          <6>1. PICK a \in A : a.from \in D /\ r[a.from] < r[u]
            OBVIOUS
          <6>2. r[a.from] \in Nat /\ r[u] \in Nat
            BY <6>1
          <6> QED
            BY <6>1, <6>2
        <5>2. \A u \in D : r[u] \in Nat
          OBVIOUS
        <5> QED
          BY <5>1, <5>2, <3>1 DEF L
      <4>4. Cardinality(L(v)) = 0
        BY <4>3, FS_EmptySet
      <4> QED
        BY <4>2, <4>4, <2>0
    <3>2. CASE v \notin S
      <4>1. PICK a \in A : /\ a.to = v /\ a.from \in D /\ c[v] = c[a.from] + a.cost
                            /\ r[a.from] < r[v]
        BY <3>2
      <4> DEFINE k == Cardinality(L(v)) - 1
      <4>2. r[a.from] < r[v] /\ Cardinality(L(a.from)) + 1 <= Cardinality(L(v))
        BY <4>1, <3>2, <1>5
      <4>3. Cardinality(L(a.from)) \in Nat
        BY <4>1, <1>4
      <4>4. k \in Cardinality(L(a.from))..N /\ k \in 0..N /\ k + 1 \in 1..N
        BY <4>2, <4>3, <2>0, <1>1
      <4>5. Known(a.from, k)
        BY <4>1, <4>2, <4>4, <1>9
      <4>6. PICK p \in h[k] : p[1] = a.from /\ p[2] <= c[a.from]
        BY <4>5 DEF Known
      <4>7. p[2] \in Nat /\ a.cost \in Nat /\ c[a.from] \in Nat /\ c[v] \in Nat /\ c[v] <= limit
        BY <4>1, <4>4, <4>6, <1>6 DEF PairsOf, ArcsOf
      <4>8. p[2] + a.cost <= limit /\ p[2] + a.cost <= c[v]
        BY <4>1, <4>6, <4>7
      <4>9. <<v, p[2] + a.cost>> \in Stepped(h[k], A, limit)
        <5>1. <<p, a>> \in h[k] \X A /\ <<p, a>>[1] = p /\ <<p, a>>[2] = a
          OBVIOUS
        <5> QED
          BY <5>1, <4>1, <4>6, <4>8, Zenon DEF Stepped
      <4>10. k + 1 - 1 = k /\ k + 1 = Cardinality(L(v))
        BY <2>0, <1>1
      <4> HIDE DEF k
      <4>11. NoDearer(h[k + 1], h[k] \cup Stepped(h[k], A, limit))
        <5> DEFINE m == k + 1
        <5>1. m \in 1..N /\ m - 1 = k
          BY <4>4, <4>10
        <5> HIDE DEF m
        <5>2. NoDearer(h[m], h[m - 1] \cup Stepped(h[m - 1], A, limit))
          BY <5>1, <1>2 DEF RoundsOf
        <5>3. NoDearer(h[m], h[k] \cup Stepped(h[k], A, limit))
          BY Zenon, <5>1, <5>2
        <5> QED
          BY <5>3 DEF m
      <4>12. PICK q \in h[k + 1] : q[1] = v /\ q[2] <= p[2] + a.cost
        <5>1. <<v, p[2] + a.cost>>[1] = v /\ <<v, p[2] + a.cost>>[2] = p[2] + a.cost
          OBVIOUS
        <5> QED
          BY <4>9, <4>11, <5>1 DEF NoDearer
      <4>13. q[2] \in Nat
        BY <4>4, <4>12, <1>6 DEF PairsOf
      <4>14. Known(v, k + 1)
        BY <4>7, <4>8, <4>12, <4>13 DEF Known
      <4> QED
        BY <4>14, <4>10, <2>0
    <3> QED
      BY <3>1, <3>2
  <2>2. ASSUME NEW k \in Cardinality(L(v))..N, k # Cardinality(L(v)), k - 1 \in K  PROVE k \in K
    <3>1. k \in 1..N
      BY <1>1, <2>0, <2>2
    <3> QED
      BY <3>1, <2>2, <1>7
  <2>3. Cardinality(L(v))..N \subseteq K
    <3> DEFINE m == Cardinality(L(v))
    <3> HIDE DEF K
    <3>1. m \in K /\ m \in Nat /\ \A k \in m..N : k # m /\ k - 1 \in K => k \in K
      BY <2>0, <2>1, <2>2
    <3> HIDE DEF m
    <3>2. m..N \subseteq K
      BY <3>1, <1>1, Upward
    <3> QED
      BY <3>2 DEF m
  <2> QED
    BY <2>3 DEF K
<1>10. D \subseteq Good
  <2> HIDE DEF Good
  <2> QED
    BY <1>9, ByCost
<1>11. \A v \in D : Known(v, N)
  <2> HIDE DEF Known, L
  <2> QED BY <1>1, <1>4, <1>10
<1>12. /\ \A p \in h[N] : p[1] \in DOMAIN Priced(h[N]) /\ Priced(h[N])[p[1]] = p[2]
       /\ CostsOf(S, A, limit) = Priced(h[N])
  BY <1>2, PricedIs DEF RoundsOf
<1>13. NoCheaper(CostsOf(S, A, limit), c, D)
  <2> HIDE DEF L, Known, Good
  <2>1. Unimproved(c, D, S, A)
    BY DEF Unimproved
  <2> QED
    BY <2>1, SearchStays
<1>14. ASSUME NEW v \in D
       PROVE  v \in DOMAIN CostsOf(S, A, limit) /\ CostsOf(S, A, limit)[v] = c[v]
  <2>1. PICK p \in h[N] : p[1] = v /\ p[2] <= c[v]
    BY <1>11
  <2>2. v \in DOMAIN CostsOf(S, A, limit) /\ CostsOf(S, A, limit)[v] = p[2]
    BY <2>1, <1>12
  <2>3. c[v] <= p[2] /\ p[2] \in Nat /\ c[v] \in Nat
    BY <2>2, <1>13 DEF NoCheaper
  <2> QED
    BY <2>1, <2>2, <2>3
<1> QED
  BY <1>13, <1>14 DEF Agree, NoCheaper

\* Where every arc costs something the costs themselves lead back.
LEMMA SearchIsExact ==
  ASSUME NEW X, NEW S \in SUBSET X, NEW limit \in Nat, NEW A \in ArcsOf(X), IsFiniteSet(A),
         NEW D, NEW c, Exact(c, D, S, A, limit)
  PROVE  Agree(CostsOf(S, A, limit), c, D)
<1>1. ASSUME NEW v \in D \ S
      PROVE  \E a \in A : /\ a.to = v /\ a.from \in D /\ c[v] = c[a.from] + a.cost
                         /\ c[a.from] < c[v]
  <2>1. PICK a \in A : a.to = v /\ a.from \in D /\ c[v] = c[a.from] + a.cost
    BY DEF Exact
  <2>2. a.cost \in Nat /\ a.cost > 0 /\ c[a.from] \in Nat
    BY <2>1 DEF Exact, ArcsOf
  <2> QED
    BY <2>1, <2>2
<1>2. Reckoned(c, c, D, S, A, limit)
  BY <1>1 DEF Exact, Reckoned, LedBack
<1> QED
  BY <1>2, SearchReckons

---------------------------------------------------------------------------
\* Sums over finite sets

\* The order in which they are chosen does not matter.
LEMMA SumsAddUp ==
  ASSUME NEW T, IsFiniteSet(T), NEW w \in [T -> Nat], NEW g, SumsOf(g, T, w)
  PROVE  /\ \A s \in SUBSET T : \A x \in T \ s : g[s \cup {x}] = g[s] + w[x]
         /\ \A t \in SUBSET T : \A s \in SUBSET t : g[s] <= g[t]
<1> DEFINE Adds(s) == \A x \in T \ s : g[s \cup {x}] = g[s] + w[x]
           c == [s \in SUBSET T |-> Cardinality(s)]
           Good == {s \in SUBSET T : Adds(s)}
<1>1. c \in [SUBSET T -> Nat]
  BY OneIs
<1>2. ASSUME NEW s \in SUBSET T, \A t \in SUBSET T : c[t] < c[s] => t \in Good
      PROVE  s \in Good
  <2> SUFFICES ASSUME NEW x \in T \ s PROVE g[s \cup {x}] = g[s] + w[x]
    OBVIOUS
  <2> DEFINE o == One(s \cup {x})
  <2>1. s \cup {x} \in SUBSET T /\ s \cup {x} # {} /\ o \in s \cup {x}
    <3>1. s \cup {x} \in SUBSET T /\ s \cup {x} # {}
      OBVIOUS
    <3> QED
      BY <3>1 DEF One
  <2>2. g[s \cup {x}] = w[o] + g[(s \cup {x}) \ {o}]
    BY <2>1 DEF SumsOf
  <2> HIDE DEF o
  <2>3. CASE o = x
    <3>1. (s \cup {x}) \ {o} = s
      BY <2>3
    <3>2. g[s] \in Nat /\ w[x] \in Nat
      BY DEF SumsOf
    <3>3. g[s \cup {x}] = w[x] + g[s]
      BY Zenon, <2>2, <2>3, <3>1
    <3> QED
      BY <3>2, <3>3
  <2>4. CASE o # x
    <3> DEFINE r == s \ {o}
               e == One(s)
    <3>1. o \in s /\ r \in SUBSET T /\ (s \cup {x}) \ {o} = r \cup {x} /\ x \in T \ r /\ o \in T \ r
      BY <2>1, <2>4
    <3>2. c[r] < c[s]
      <4>1. IsFiniteSet(s) /\ Cardinality(s) \in Nat
        BY OneIs
      <4>2. Cardinality(r) = Cardinality(s) - 1
        BY <3>1, <4>1, FS_RemoveElement
      <4> QED
        BY <3>1, <4>1, <4>2
    <3>3. Adds(r)
      BY <1>2, <3>1, <3>2
    <3>4. g[r \cup {x}] = g[r] + w[x] /\ g[r \cup {o}] = g[r] + w[o] /\ r \cup {o} = s
      BY <3>1, <3>3
    <3>5. g[r] \in Nat /\ g[s] \in Nat /\ w[x] \in Nat /\ w[o] \in Nat
      BY <3>1 DEF SumsOf
    <3>6. g[s \cup {x}] = w[o] + g[r \cup {x}]
      BY Zenon, <2>2, <3>1
    <3>7. g[s] = g[r] + w[o]
      BY Zenon, <3>4
    <3> QED
      BY <3>4, <3>5, <3>6, <3>7
  <2> QED
    BY <2>3, <2>4
<1>3. \A s \in SUBSET T : Adds(s)
  <2> HIDE DEF Good, c
  <2>1. SUBSET T \subseteq Good
    BY <1>1, <1>2, ByCost
  <2> QED
    BY <2>1 DEF Good
<1>4. ASSUME NEW t \in SUBSET T, NEW s \in SUBSET t  PROVE g[s] <= g[t]
  <2> DEFINE Above == {u \in SUBSET T : s \subseteq u => g[s] <= g[u]}
  <2>1. ASSUME NEW u \in SUBSET T, \A v \in SUBSET T : c[v] < c[u] => v \in Above
        PROVE  u \in Above
    <3> SUFFICES ASSUME s \subseteq u, s # u PROVE g[s] <= g[u]
      BY DEF SumsOf
    <3>1. PICK x \in u : x \notin s
      OBVIOUS
    <3> DEFINE r == u \ {x}
    <3>2. r \in SUBSET T /\ x \in T \ r /\ r \cup {x} = u /\ s \subseteq r
      BY <3>1
    <3>3. c[r] < c[u]
      <4>1. IsFiniteSet(u) /\ Cardinality(u) \in Nat
        BY OneIs
      <4>2. Cardinality(r) = Cardinality(u) - 1
        BY <3>1, <4>1, FS_RemoveElement
      <4> QED
        BY <3>2, <4>1, <4>2
    <3>4. g[s] <= g[r]
      BY <2>1, <3>2, <3>3
    <3>5. g[u] = g[r] + w[x]
      BY <1>3, <3>2
    <3>6. g[s] \in Nat /\ g[r] \in Nat /\ w[x] \in Nat
      BY <3>2 DEF SumsOf
    <3> QED
      BY <3>4, <3>5, <3>6
  <2> HIDE DEF Above, c
  <2>2. SUBSET T \subseteq Above
    BY <1>1, <2>1, ByCost
  <2> QED
    BY <2>2 DEF Above
<1> QED
  BY <1>3, <1>4

\* What MapThenSumSet comes to.
LengthSum(T) == (CHOOSE it : it = [s \in SUBSET T |-> IF s = {} THEN 0
             ELSE (CHOOSE x \in s : TRUE).length + it[s \ {CHOOSE x \in s : TRUE}]])[T]

LEMMA LengthsAddUp ==
  ASSUME NEW T, IsFiniteSet(T), \A e \in T : e.length \in Nat
  PROVE  \E g : SumsOf(g, T, [e \in T |-> e.length]) /\ LengthSum(T) = g[T]
<1> DEFINE F == [z \in T \X Nat |-> z[1].length + z[2]]
           H(u) == [s \in SUBSET T |-> IF s = {} THEN 0 ELSE One(s).length + u[s \ {One(s)}]]
           w == [e \in T |-> e.length]
<1>1. F \in [T \X Nat -> Nat] /\ \A e \in T, n \in Nat : F[<<e, n>>] = e.length + n
  OBVIOUS
<1>2. LengthSum(T) = (CHOOSE u : u = H(u))[T]
  BY Zenon DEF LengthSum, One
<1> HIDE DEF F
<1>3. PICK g \in [SUBSET T -> Nat] :
            /\ g[{}] = 0
            /\ \A s \in SUBSET T : s # {} => g[s] = F[<<One(s), g[s \ {One(s)}]>>]
            /\ \A u : FoldsOn(u, T, Nat, 0, F) => u = g
  BY <1>1, FoldIs
<1>4. \A s \in SUBSET T : s # {} => One(s) \in T /\ s \ {One(s)} \in SUBSET T
  BY DEF One
<1>5. g = H(g)
  <2>1. \A s \in SUBSET T : g[s] = IF s = {} THEN 0 ELSE One(s).length + g[s \ {One(s)}]
    BY <1>1, <1>3, <1>4
  <2>2. g = [s \in SUBSET T |-> g[s]]
    BY <1>3
  <2> QED
    BY <2>1, <2>2
<1>6. ASSUME NEW u, u = H(u)  PROVE u = g
  <2>1. /\ \A s \in SUBSET T : H(u)[s] = IF s = {} THEN 0 ELSE One(s).length + u[s \ {One(s)}]
        /\ H(u) = [s \in SUBSET T |-> H(u)[s]]
    OBVIOUS
  <2> HIDE DEF H
  <2>2. u = [s \in SUBSET T |-> u[s]]
    BY <2>1, <1>6
  <2>3. \A s \in SUBSET T : u[s] = IF s = {} THEN 0 ELSE One(s).length + u[s \ {One(s)}]
    BY <2>1, <1>6
  <2>4. \A s \in SUBSET T : s # {} /\ u[s \ {One(s)}] \in Nat => u[s] = F[<<One(s), u[s \ {One(s)}]>>]
    BY <2>3, <1>1, <1>4
  <2> QED
    BY <2>2, <2>3, <2>4, <1>3 DEF FoldsOn
<1>7. (CHOOSE u : u = H(u)) = g
  <2> HIDE DEF H
  <2> QED BY <1>5, <1>6
<1>8. SumsOf(g, T, w)
  BY <1>1, <1>3, <1>4 DEF SumsOf
<1> HIDE DEF H, w
<1>9. SumsOf(g, T, w) /\ LengthSum(T) = g[T]
  BY <1>2, <1>7, <1>8
<1> QED
  BY <1>9 DEF w

---------------------------------------------------------------------------
\* Searches from several sources that no limit cuts short

(* Where arcs lead, and at what least cost: what a search would answer that *)
(* no limit cuts short.                                                     *)
Carries(C, A) == \A p \in C, a \in A : p[1] = a.from => <<a.to, p[2] + a.cost>> \in C
WalksOf(S, A, X) ==
    {p \in X \X Nat : \A C \in SUBSET (X \X Nat) :
        (\A s \in S : <<s, 0>> \in C) /\ Carries(C, A) => p \in C}
EndsOf(S, A, X) == {p[1] : p \in WalksOf(S, A, X)}
CostTo(S, A, X) ==
    [v \in EndsOf(S, A, X) |-> CHOOSE n \in {p[2] : p \in {q \in WalksOf(S, A, X) : q[1] = v}} :
                                \A m \in {p[2] : p \in {q \in WalksOf(S, A, X) : q[1] = v}} : n <= m]

\* Exact, whatever the limit.
LeastIn(c, D, S, A) ==
    /\ S \subseteq D /\ c \in [D -> Nat] /\ \A s \in S : c[s] = 0
    /\ \A a \in A : a.from \in D => a.to \in D /\ c[a.to] <= c[a.from] + a.cost
    /\ \A v \in D \ S : \E a \in A : a.to = v /\ a.from \in D /\ c[v] = c[a.from] + a.cost

\* What lies on the cheapest ways from S is all there is.
Rests(c, D, S, A) ==
    \A E \in SUBSET D :
        /\ S \subseteq E
        /\ \A a \in A : a.from \in E /\ a.to \in D /\ c[a.to] = c[a.from] + a.cost => a.to \in E
        => E = D

LEMMA LeastCosts ==
  ASSUME NEW X, NEW S \in SUBSET X, NEW A \in ArcsOf(X)
  PROVE  \E D \in SUBSET X : \E c : LeastIn(c, D, S, A) /\ Rests(c, D, S, A)
<1> DEFINE W == WalksOf(S, A, X)
           D == EndsOf(S, A, X)
           c == CostTo(S, A, X)
           CostsAt(v) == {p[2] : p \in {q \in W : q[1] = v}}
<1>0. ASSUME NEW p \in X \X Nat, NEW a \in A  PROVE <<a.to, p[2] + a.cost>> \in X \X Nat
  <2>1. a.to \in X /\ a.cost \in Nat /\ p[2] \in Nat
    BY DEF ArcsOf
  <2> QED
    BY <2>1
<1>1. /\ W \in SUBSET (X \X Nat)
      /\ \A s \in S : <<s, 0>> \in W
      /\ Carries(W, A)
  <2>1. W \in SUBSET (X \X Nat) /\ \A s \in S : <<s, 0>> \in W
    BY DEF WalksOf
  <2>2. ASSUME NEW p \in W, NEW a \in A, p[1] = a.from  PROVE <<a.to, p[2] + a.cost>> \in W
    <3>1. <<a.to, p[2] + a.cost>> \in X \X Nat
      BY <1>0, <2>1
    <3>2. ASSUME NEW C \in SUBSET (X \X Nat), \A s \in S : <<s, 0>> \in C, Carries(C, A)
          PROVE  <<a.to, p[2] + a.cost>> \in C
      <4>1. p \in C
        BY <3>2 DEF WalksOf
      <4> QED
        BY <4>1, <2>2, <3>2 DEF Carries
    <3> QED
      BY <3>1, <3>2 DEF WalksOf
  <2> QED
    BY <2>1, <2>2 DEF Carries
<1>2. \A C \in SUBSET (X \X Nat) : (\A s \in S : <<s, 0>> \in C) /\ Carries(C, A) => W \subseteq C
  BY DEF WalksOf
<1>3. D = {p[1] : p \in W} /\ c = [v \in D |-> CHOOSE n \in CostsAt(v) : \A m \in CostsAt(v) : n <= m]
  BY Zenon DEF EndsOf, CostTo
<1> HIDE DEF W, D, c
<1>4. \A p \in W : p = <<p[1], p[2]>> /\ p[1] \in X /\ p[2] \in Nat /\ p[1] \in D
  BY <1>1, <1>3
<1>5. ASSUME NEW v \in D
      PROVE  /\ c[v] \in Nat /\ <<v, c[v]>> \in W
             /\ \A n : <<v, n>> \in W => c[v] <= n
  <2>1. CostsAt(v) \in SUBSET Nat
    BY <1>4
  <2>2. CostsAt(v) # {}
    BY <1>3
  <2>3. \A n : n \in CostsAt(v) <=> <<v, n>> \in W
    <3>1. ASSUME NEW n \in CostsAt(v)  PROVE <<v, n>> \in W
      <4>1. PICK p \in W : p[1] = v /\ n = p[2]
        OBVIOUS
      <4> QED
        BY <4>1, <1>4
    <3>2. ASSUME NEW n, <<v, n>> \in W  PROVE n \in CostsAt(v)
      <4>1. <<v, n>>[1] = v /\ <<v, n>>[2] = n
        OBVIOUS
      <4> QED
        BY <4>1, <3>2
    <3> QED
      BY <3>1, <3>2
  <2> HIDE DEF CostsAt
  <2>4. \E n \in CostsAt(v) : \A m \in CostsAt(v) : n <= m
    BY <2>1, <2>2, LeastNat
  <2>5. c[v] \in CostsAt(v) /\ \A m \in CostsAt(v) : c[v] <= m
    BY <2>4, <1>3
  <2> QED
    BY <2>1, <2>3, <2>5
<1>6. D \in SUBSET X /\ S \subseteq D /\ c \in [D -> Nat]
  <2>1. D \in SUBSET X
    BY <1>3, <1>4
  <2>2. S \subseteq D
    <3>1. \A s \in S : <<s, 0>>[1] = s
      OBVIOUS
    <3> QED
      BY <3>1, <1>1, <1>4
  <2> QED
    BY <2>1, <2>2, <1>3, <1>5
<1>7. \A s \in S : c[s] = 0
  <2> TAKE s \in S
  <2>1. c[s] <= 0 /\ c[s] \in Nat
    BY <1>1, <1>5, <1>6
  <2> QED
    BY <2>1
<1>8. ASSUME NEW a \in A, a.from \in D  PROVE a.to \in D /\ c[a.to] <= c[a.from] + a.cost
  <2>1. <<a.from, c[a.from]>> \in W
    BY <1>5, <1>8
  <2>2. <<a.to, c[a.from] + a.cost>> \in W
    BY <2>1, <1>1 DEF Carries
  <2>3. <<a.to, c[a.from] + a.cost>>[1] = a.to
    OBVIOUS
  <2>4. a.to \in D
    BY <2>2, <2>3, <1>4
  <2> QED
    BY <2>2, <2>4, <1>5
<1>9. ASSUME NEW v \in D \ S  PROVE \E a \in A : a.to = v /\ a.from \in D /\ c[v] = c[a.from] + a.cost
  <2> DEFINE x == <<v, c[v]>>
             C == W \ {x}
  <2>0. x \in W /\ x[1] = v /\ x[2] = c[v]
    BY <1>5
  <2>1. \A s \in S : <<s, 0>> \in C
    <3>1. \A s \in S : <<s, 0>> \in W /\ <<s, 0>>[1] = s /\ s # v
      BY <1>1
    <3> HIDE DEF x
    <3> QED BY <3>1, <2>0
  <2>2. C \in SUBSET (X \X Nat)
    BY <1>1
  <2> HIDE DEF x
  <2>3. ~ Carries(C, A)
    BY <2>0, <2>1, <2>2, <1>2
  <2>4. PICK p \in C, a \in A : p[1] = a.from /\ <<a.to, p[2] + a.cost>> \notin C
    BY <2>3 DEF Carries
  <2>5. <<a.to, p[2] + a.cost>> = x
    BY <2>4, <1>1 DEF Carries
  <2>6. a.to = v /\ p[2] + a.cost = c[v]
    BY <2>5, <2>0
  <2>7. a.from \in D /\ p[2] \in Nat /\ c[a.from] <= p[2]
    <3>1. p \in W /\ p = <<p[1], p[2]>> /\ p[1] \in D /\ p[2] \in Nat /\ p[1] = a.from
      BY <2>4, <1>4
    <3>2. <<a.from, p[2]>> \in W
      BY Zenon, <3>1
    <3> QED
      BY <3>1, <3>2, <1>5
  <2>8. c[v] <= c[a.from] + a.cost
    BY <2>6, <2>7, <1>8
  <2>9. a.cost \in Nat /\ c[a.from] \in Nat /\ c[v] \in Nat
    BY <2>7, <1>5 DEF ArcsOf
  <2> QED
    BY <2>6, <2>7, <2>8, <2>9
<1>10. LeastIn(c, D, S, A)
  BY <1>6, <1>7, <1>8, <1>9 DEF LeastIn
<1>11. Rests(c, D, S, A)
  <2> SUFFICES ASSUME NEW E \in SUBSET D, S \subseteq E,
                      \A a \in A : a.from \in E /\ a.to \in D /\ c[a.to] = c[a.from] + a.cost => a.to \in E
               PROVE  D \subseteq E
    BY DEF Rests
  <2> DEFINE C == {p \in W : p[1] \in E \/ p[2] # c[p[1]]}
  <2>1. C \in SUBSET (X \X Nat)
    BY <1>1
  <2>2. \A s \in S : <<s, 0>> \in C
    <3> TAKE s \in S
    <3>1. <<s, 0>> \in W /\ <<s, 0>>[1] \in E
      BY <1>1
    <3> QED
      BY <3>1
  <2>3. ASSUME NEW p \in C, NEW a \in A, p[1] = a.from
        PROVE  <<a.to, p[2] + a.cost>> \in C
    <3> DEFINE x == <<a.to, p[2] + a.cost>>
    <3>1. x \in W /\ x[1] = a.to /\ x[2] = p[2] + a.cost
      BY <2>3, <1>1 DEF Carries
    <3>2. p = <<p[1], p[2]>> /\ p[1] \in D /\ p[2] \in Nat /\ p \in W
      BY <1>4
    <3>3. <<a.from, p[2]>> \in W
      BY Zenon, <3>2, <2>3
    <3>4. a.from \in D /\ c[a.from] <= p[2] /\ c[a.from] \in Nat
      BY <3>2, <3>3, <2>3, <1>5
    <3>5. a.to \in D /\ c[a.to] <= c[a.from] + a.cost /\ c[a.to] \in Nat /\ a.cost \in Nat
      BY <3>4, <1>5, <1>8 DEF ArcsOf
    <3> HIDE DEF x
    <3>6. ASSUME x[2] = c[x[1]]  PROVE x[1] \in E
      <4>1. p[2] = c[a.from] /\ c[a.to] = c[a.from] + a.cost
        BY <3>1, <3>2, <3>4, <3>5, <3>6
      <4>2. a.from \in E
        BY <4>1, <2>3
      <4> QED
        BY <4>1, <4>2, <3>1, <3>5
    <3>7. x \in C
      BY <3>1, <3>6
    <3> QED
      BY <3>7 DEF x
  <2> HIDE DEF C
  <2>4. W \subseteq C
    BY <2>1, <2>2, <2>3, <1>2 DEF Carries
  <2>5. ASSUME NEW v \in D  PROVE v \in E
    <3> DEFINE x == <<v, c[v]>>
    <3>1. x \in C /\ x[1] = v /\ x[2] = c[v]
      BY <1>5, <2>4
    <3> HIDE DEF x
    <3> QED
      BY <3>1 DEF C
  <2> QED
    BY <2>5
<1> QED
  BY <1>6, <1>10, <1>11

\* What accounts for a least cost leads back to a source: counted in arcs.
LEMMA LeastLedBack ==
  ASSUME NEW X, NEW S \in SUBSET X, NEW A \in ArcsOf(X),
         NEW D \in SUBSET X, NEW c, LeastIn(c, D, S, A), Rests(c, D, S, A)
  PROVE  \E r : LedBack(c, r, D, S, A)
<1> DEFINE T == {a \in A : a.from \in D /\ a.to \in D /\ c[a.to] = c[a.from] + a.cost}
           one(a) == [from |-> a.from, to |-> a.to, cost |-> 1]
           B == {one(a) : a \in T}
<1>1. B \in ArcsOf(D)
  BY DEF ArcsOf
<1>2. S \in SUBSET D
  BY DEF LeastIn
<1>3. \A b \in B : /\ b.cost = 1
                  /\ \E a \in T : a.from = b.from /\ a.to = b.to
  OBVIOUS
<1>4. \A a \in T : \E b \in B : b.from = a.from /\ b.to = a.to
  <2> TAKE a \in T
  <2>1. one(a) \in B /\ one(a).from = a.from /\ one(a).to = a.to
    OBVIOUS
  <2> HIDE DEF one, B
  <2> QED
    BY <2>1
<1> HIDE DEF B
<1>5. PICK E \in SUBSET D : \E r : LeastIn(r, E, S, B)
  BY <1>1, <1>2, LeastCosts
<1>6. PICK r : LeastIn(r, E, S, B)
  BY <1>5
<1>7. E = D
  <2>1. \A a \in A : a.from \in E /\ a.to \in D /\ c[a.to] = c[a.from] + a.cost => a.to \in E
    BY <1>4, <1>6 DEF LeastIn
  <2>2. S \subseteq E
    BY <1>6 DEF LeastIn
  <2> QED
    BY <2>1, <2>2 DEF Rests
<1>8. ASSUME NEW v \in D \ S
      PROVE  \E a \in A : /\ a.to = v /\ a.from \in D /\ c[v] = c[a.from] + a.cost
                         /\ r[a.from] < r[v]
  <2>1. PICK b \in B : b.to = v /\ b.from \in D /\ r[v] = r[b.from] + b.cost
    BY <1>6, <1>7 DEF LeastIn
  <2>2. b.cost = 1 /\ \E a \in T : a.from = b.from /\ a.to = b.to
    BY <1>3
  <2>3. r[b.from] \in Nat
    BY <2>1, <1>6, <1>7 DEF LeastIn
  <2> QED
    BY <2>1, <2>2, <2>3
<1>9. LedBack(c, r, D, S, A)
  BY <1>6, <1>7, <1>8 DEF LeastIn, LedBack
<1> QED
  BY <1>9

(* No least way takes an arc twice: none costs more than all arcs together, *)
(* and a search with that limit misses nothing.                             *)
LEMMA LeastWithin ==
  ASSUME NEW X, NEW S \in SUBSET X, NEW A \in ArcsOf(X), IsFiniteSet(A),
         NEW D, NEW c, LeastIn(c, D, S, A), NEW r, LedBack(c, r, D, S, A)
  PROVE  CostSum(A) \in Nat /\ \A v \in D : c[v] <= CostSum(A)
<1>1. /\ S \subseteq D /\ c \in [D -> Nat] /\ \A s \in S : c[s] = 0
      /\ r \in [D -> Nat]
      /\ \A v \in D \ S : \E a \in A : /\ a.to = v /\ a.from \in D /\ c[v] = c[a.from] + a.cost
                                      /\ r[a.from] < r[v]
  BY DEF LeastIn, LedBack
<1>2. \A a \in A : a.cost \in Nat
  BY DEF ArcsOf
<1> DEFINE w == [a \in A |-> a.cost]
<1>3. PICK g : CostSum(A) = g[A] /\ SumsOf(g, A, w)
  BY <1>2, CostsAddUp
<1>4. w \in [A -> Nat] /\ \A a \in A : w[a] = a.cost
  BY <1>2
<1> HIDE DEF w
<1>5. /\ \A s \in SUBSET A : g[s] \in Nat
      /\ \A s \in SUBSET A : \A x \in A \ s : g[s \cup {x}] = g[s] + w[x]
      /\ \A t \in SUBSET A : \A s \in SUBSET t : g[s] <= g[t]
  <2>1. \A s \in SUBSET A : g[s] \in Nat
    BY <1>3 DEF SumsOf
  <2> QED
    BY <2>1, <1>3, <1>4, SumsAddUp
<1> DEFINE Into(v) == {a \in A : a.to \in D /\ r[a.to] <= r[v]}
           Good == {v \in D : c[v] <= g[Into(v)]}
<1>6. ASSUME NEW v \in D, \A u \in D : r[u] < r[v] => u \in Good  PROVE v \in Good
  <2>1. CASE v \in S
    BY <2>1, <1>1, <1>5
  <2>2. CASE v \notin S
    <3>1. PICK a \in A : /\ a.to = v /\ a.from \in D /\ c[v] = c[a.from] + a.cost
                          /\ r[a.from] < r[v]
      BY <2>2, <1>1
    <3>2. PICK u \in D : u = a.from
      BY <3>1
    <3>3. c[u] \in Nat /\ c[v] \in Nat /\ a.cost \in Nat /\ c[v] = c[u] + a.cost
          /\ r[u] \in Nat /\ r[v] \in Nat /\ r[u] < r[v]
      BY <3>1, <3>2, <1>1, <1>2
    <3>4. c[u] <= g[Into(u)]
      BY <3>3, <1>6
    <3>5. a \in A \ Into(u) /\ a \in Into(v)
      BY <3>1, <3>3
    <3>6. Into(u) \cup {a} \subseteq Into(v)
      <4>1. ASSUME NEW x \in Into(u)  PROVE x \in Into(v)
        <5>1. x \in A /\ x.to \in D /\ r[x.to] <= r[u] /\ r[x.to] \in Nat
          BY <1>1
        <5> QED
          BY <5>1, <3>3
      <4> QED
        BY <4>1, <3>5
    <3>7. Into(u) \in SUBSET A /\ Into(v) \in SUBSET A
      OBVIOUS
    <3> HIDE DEF Into
    <3>8. g[Into(u) \cup {a}] = g[Into(u)] + a.cost /\ g[Into(u) \cup {a}] <= g[Into(v)]
      BY <3>5, <3>6, <3>7, <1>4, <1>5
    <3>9. g[Into(u)] \in Nat /\ g[Into(v)] \in Nat /\ g[Into(u) \cup {a}] \in Nat
      BY <3>5, <3>7, <1>5
    <3> QED
      BY <3>3, <3>4, <3>8, <3>9
  <2> QED
    BY <2>1, <2>2
<1>7. D \subseteq Good
  <2> HIDE DEF Good
  <2> QED
    BY <1>1, <1>6, ByCost
<1>8. ASSUME NEW v \in D  PROVE c[v] <= g[A]
  <2>1. Into(v) \in SUBSET A
    OBVIOUS
  <2>2. c[v] <= g[Into(v)]
    BY <1>7
  <2> HIDE DEF Into
  <2>3. g[Into(v)] <= g[A] /\ g[Into(v)] \in Nat /\ g[A] \in Nat /\ c[v] \in Nat
    BY <2>1, <1>1, <1>5
  <2> QED
    BY <2>2, <2>3
<1> QED
  BY <1>3, <1>5, <1>8

\* What such a search reaches is closed.
Spreads(d, S, A, X) ==
    /\ S \subseteq DOMAIN d /\ DOMAIN d \in SUBSET X
    /\ \A v \in DOMAIN d : d[v] \in Nat
    /\ \A a \in A : a.from \in DOMAIN d => a.to \in DOMAIN d

LEMMA SearchSpreads ==
  ASSUME NEW X, NEW S \in SUBSET X, NEW A \in ArcsOf(X), IsFiniteSet(A)
  PROVE  Spreads(CostsOf(S, A, CostSum(A)), S, A, X)
<1>0. PICK D \in SUBSET X : \E c : LeastIn(c, D, S, A) /\ Rests(c, D, S, A)
  BY LeastCosts
<1>1. PICK c : LeastIn(c, D, S, A) /\ Rests(c, D, S, A)
  BY <1>0
<1>2. PICK r : LedBack(c, r, D, S, A)
  BY <1>1, LeastLedBack
<1>3. CostSum(A) \in Nat /\ \A v \in D : c[v] <= CostSum(A)
  BY <1>1, <1>2, LeastWithin
<1>4. Reckoned(c, r, D, S, A, CostSum(A))
  BY <1>1, <1>2, <1>3 DEF Reckoned, LeastIn
<1>5. Agree(CostsOf(S, A, CostSum(A)), c, D)
  BY <1>3, <1>4, SearchReckons
<1> QED
  BY <1>1, <1>5 DEF Agree, LeastIn, Spreads

---------------------------------------------------------------------------
(***************************************************************************)
(* FerryChains: what the graph of the anchors joins, whatever the ways,    *)
(* the piers and the land, and however often stage 5 runs over its own     *)
(* output.  `line` is its q: the vertices whose neighbours are to be       *)
(* improved.                                                               *)
(***************************************************************************)
CONSTANTS FerryWays, Land, MAX_SEA_WAY_M, SHORTEST_WAY_M, MAX_EDGE_M, PIER_LAND_MAX_M,
          PIER_LAND_K, STRETCH, MaxRuns
VARIABLES anchors, edges, cost_to, runs
Ferry == INSTANCE FerryChains WITH q <- line

\* The ferries that run, as arcs, and the ways over the water from a pier.
Water == Ferry!Hops(Ferry!Usable)
Crossings(p) == CostsOf({p}, Water, LengthSum(rows))

LEMMA CrossingsAre ==
  \A p : Ferry!Costs({p}, Ferry!Hops(Ferry!Usable), Ferry!AllWater) = Crossings(p)
<1>1. Ferry!AllWater = LengthSum(rows)
  BY Zenon DEF Ferry!AllWater, Ferry!MapThenSumSet, Ferry!MapThenFoldSet, LengthSum
<1>2. ASSUME NEW sources, NEW arcs, NEW limit
      PROVE  Ferry!Costs(sources, arcs, limit) = CostsOf(sources, arcs, limit)
  BY Zenon DEF Ferry!Costs, Ferry!Cheapest, Ferry!Cardinality,
               CostsOf, Priced, Searched, Ends, Stepped, Lowest, Cardinality
<1> QED
  BY <1>1, <1>2 DEF Water, Crossings

\* Ferries that run take time, and run both ways.
LEMMA WaterIs ==
  ASSUME Ferry!FerryChainsAssumption, rows \in SUBSET FerryWays
  PROVE  /\ Water \in ArcsOf(Nat) /\ IsFiniteSet(Water) /\ \A h \in Water : h.cost > 0
         /\ \A h \in Water : \E r \in rows :
                {h.from, h.to} = {r.source, r.target} /\ h.cost = r.length
         /\ \A h \in Water : [from |-> h.to, to |-> h.from, cost |-> h.cost] \in Water
         /\ IsFiniteSet(rows) /\ \A r \in rows : r.length \in Nat
<1> DEFINE U == Ferry!Usable
           on(r) == [from |-> r.source, to |-> r.target, cost |-> r.length]
           back(r) == [from |-> r.target, to |-> r.source, cost |-> r.length]
<1>1. IsFiniteSet(rows) /\ IsFiniteSet(U) /\ U \subseteq rows
  <2>1. Ferry!IsFiniteSet(FerryWays) /\ U \subseteq rows
    BY DEF Ferry!FerryChainsAssumption, Ferry!Usable
  <2>2. Ferry!IsFiniteSet(FerryWays) <=> IsFiniteSet(FerryWays)
    BY Zenon DEF Ferry!IsFiniteSet, IsFiniteSet
  <2> HIDE DEF U
  <2> QED
    BY <2>1, <2>2, FS_Subset
<1>2. \A r \in rows : r.source \in Nat /\ r.target \in Nat /\ r.length \in Nat
  BY DEF Ferry!FerryChainsAssumption
<1>3. \A r \in U : r \in rows /\ r.length > 0
  BY <1>2 DEF Ferry!Usable, Ferry!FerryChainsAssumption
<1> HIDE DEF U
<1> DEFINE F == {on(r) : r \in U}  B == {back(r) : r \in U}
<1>4. Water = F \cup B
  BY DEF Water, Ferry!Hops, U
<1>5. IsFiniteSet(F) /\ IsFiniteSet(B)
  <2>1. [r \in U |-> on(r)] \in Surjection(U, F) /\ [r \in U |-> back(r)] \in Surjection(U, B)
    BY DEF Surjection
  <2> QED
    BY <2>1, <1>1, FS_Surjection
<1>6. IsFiniteSet(Water)
  <2> HIDE DEF F, B
  <2> QED BY <1>4, <1>5, FS_Union
<1>7. ASSUME NEW h \in Water
      PROVE  /\ h \in [from : Nat, to : Nat, cost : Nat] /\ h.cost > 0
             /\ [from |-> h.to, to |-> h.from, cost |-> h.cost] \in Water
             /\ \E r \in rows : {h.from, h.to} = {r.source, r.target} /\ h.cost = r.length
  <2>1. PICK r \in U : h = on(r) \/ h = back(r)
    BY <1>4
  <2>2. on(r) \in Water /\ back(r) \in Water
    BY <1>4
  <2>3. r \in rows /\ r.length > 0 /\ r.source \in Nat /\ r.target \in Nat /\ r.length \in Nat
    BY <1>2, <1>3
  <2> QED
    BY <2>1, <2>2, <2>3
<1> QED
  BY <1>1, <1>2, <1>6, <1>7 DEF ArcsOf

\* Where the ferries from p lead.
Landlocked(C) == \A h \in Water : h.from \in C => h.to \in C
Away(p) == {v \in Nat : \A C \in SUBSET Nat : p \in C /\ Landlocked(C) => v \in C}

\* Ferries run both ways, so it is away from there; crossings lead no further.
LEMMA AwayIs ==
  ASSUME Ferry!FerryChainsAssumption, rows \in SUBSET FerryWays, NEW p \in Nat
  PROVE  /\ p \in Away(p) /\ Away(p) \in SUBSET Nat /\ Landlocked(Away(p))
         /\ \A v \in Away(p) : p \in Away(v)
         /\ DOMAIN Crossings(p) \subseteq Away(p)
<1>1. ASSUME NEW x \in Nat  PROVE x \in Away(x) /\ Away(x) \in SUBSET Nat /\ Landlocked(Away(x))
  <2>1. x \in Away(x) /\ Away(x) \in SUBSET Nat
    BY DEF Away
  <2>2. ASSUME NEW h \in Water, h.from \in Away(x)  PROVE h.to \in Away(x)
    <3>1. h.to \in Nat
      BY WaterIs DEF ArcsOf
    <3> QED
      BY <2>2, <3>1 DEF Away, Landlocked
  <2> QED
    BY <2>1, <2>2 DEF Landlocked
<1>2. ASSUME NEW v \in Away(p)  PROVE p \in Away(v)
  <2> DEFINE C == {x \in Away(p) : p \in Away(x)}
  <2>1. p \in C /\ C \in SUBSET Nat
    BY <1>1
  <2>2. ASSUME NEW h \in Water, h.from \in C  PROVE h.to \in C
    <3>1. h.to \in Away(p) /\ h.to \in Nat /\ h.from \in Nat
      BY <2>2, <1>1 DEF Landlocked
    <3>2. h.from \in Away(h.to)
      <4>1. [from |-> h.to, to |-> h.from, cost |-> h.cost] \in Water
        BY WaterIs
      <4>2. h.to \in Away(h.to) /\ Landlocked(Away(h.to))
        BY <3>1, <1>1
      <4> QED
        BY <4>1, <4>2 DEF Landlocked
    <3>3. p \in Away(h.from)
      BY <2>2
    <3>4. p \in Away(h.to)
      BY <3>1, <3>2, <3>3, <1>1 DEF Away
    <3> QED
      BY <3>1, <3>4
  <2>3. v \in C
    BY <2>1, <2>2 DEF Away, Landlocked
  <2> QED
    BY <2>3
<1>3. DOMAIN Crossings(p) \subseteq Away(p)
  <2> DEFINE W == Away(p)
             c == [v \in W |-> 0]
             limit == LengthSum(rows)
  <2>1. limit \in Nat
    <3>1. IsFiniteSet(rows) /\ \A r \in rows : r.length \in Nat
      BY WaterIs
    <3>2. PICK g : SumsOf(g, rows, [e \in rows |-> e.length]) /\ LengthSum(rows) = g[rows]
      BY <3>1, LengthsAddUp
    <3> QED
      BY <3>2 DEF SumsOf
  <2>2. Water \in ArcsOf(Nat) /\ IsFiniteSet(Water) /\ {p} \in SUBSET Nat
    BY WaterIs
  <2>3. p \in W /\ \A h \in Water : h.from \in W => h.to \in W
    BY <1>1 DEF Landlocked
  <2>4. \A h \in Water : h.cost \in Nat
    BY <2>2 DEF ArcsOf
  <2>5. c \in [W -> Nat] /\ \A s \in {p} : c[s] = 0
    BY <2>3
  <2>6. \A h \in Water : h.from \in W => h.to \in W /\ c[h.to] <= c[h.from] + h.cost
    <3> HIDE DEF W
    <3> QED BY <2>3, <2>4
  <2> HIDE DEF W, c, limit
  <2>7. Unimproved(c, W, {p}, Water)
    BY <2>3, <2>5, <2>6 DEF Unimproved
  <2>8. NoCheaper(CostsOf({p}, Water, limit), c, W)
    BY <2>1, <2>2, <2>7, SearchStays
  <2> QED
    BY <2>8 DEF W, limit, Crossings, NoCheaper
<1> QED
  BY <1>1, <1>2, <1>3

\* Costs that no ferry improves, each of which a ferry accounts for.
Settled(c, p) ==
    /\ p \in DOMAIN c /\ DOMAIN c \subseteq Nat /\ c \in [DOMAIN c -> Nat] /\ c[p] = 0
    /\ \A h \in Water : h.from \in DOMAIN c =>
            h.to \in DOMAIN c /\ c[h.to] <= c[h.from] + h.cost
    /\ \A v \in DOMAIN c \ {p} : \E h \in Water :
            h.to = v /\ h.from \in DOMAIN c /\ c[h.from] + h.cost <= c[v]

(* They are the crossings: the limit of the search, all water there is, does *)
(* not come in between, as no way without a detour takes a ferry twice.     *)
LEMMA SettledIs ==
  ASSUME Ferry!FerryChainsAssumption, rows \in SUBSET FerryWays, NEW p \in Nat,
         NEW c, Settled(c, p)
  PROVE  /\ Away(p) \subseteq DOMAIN c
         /\ \A v \in DOMAIN c : Crossings(p)[v] = c[v]
<1> DEFINE D == DOMAIN c
           limit == LengthSum(rows)
<1>1. p \in D /\ D \subseteq Nat /\ c \in [D -> Nat] /\ c[p] = 0
  BY DEF Settled
<1>2. /\ Water \in ArcsOf(Nat) /\ IsFiniteSet(Water) /\ \A h \in Water : h.cost > 0 /\ h.cost \in Nat
  BY WaterIs DEF ArcsOf
<1>3. \A h \in Water : h.from \in D => h.to \in D /\ c[h.to] <= c[h.from] + h.cost
  BY DEF Settled
<1>4. \A v \in D \ {p} : \E h \in Water : h.to = v /\ h.from \in D /\ c[v] = c[h.from] + h.cost
  <2> SUFFICES ASSUME NEW v \in D \ {p}
               PROVE  \E h \in Water : h.to = v /\ h.from \in D /\ c[v] = c[h.from] + h.cost
    OBVIOUS
  <2>1. PICK h \in Water : h.to = v /\ h.from \in D /\ c[h.from] + h.cost <= c[v]
    BY DEF Settled
  <2>2. c[v] <= c[h.from] + h.cost /\ c[v] \in Nat /\ c[h.from] \in Nat /\ h.cost \in Nat
    BY <2>1, <1>1, <1>2, <1>3
  <2> QED
    BY <2>1, <2>2
<1>5. /\ IsFiniteSet(rows) /\ \A r \in rows : r.length \in Nat
      /\ \A h \in Water : \E r \in rows : {h.from, h.to} = {r.source, r.target} /\ h.cost = r.length
  BY WaterIs
<1>6. PICK g : SumsOf(g, rows, [e \in rows |-> e.length]) /\ LengthSum(rows) = g[rows]
  BY <1>5, LengthsAddUp
<1>7. \A s \in SUBSET rows : g[s] \in Nat
  BY <1>6 DEF SumsOf
<1>8. /\ \A s \in SUBSET rows : \A x \in rows \ s : g[s \cup {x}] = g[s] + x.length
      /\ \A t \in SUBSET rows : \A s \in SUBSET t : g[s] <= g[t]
  <2> DEFINE w == [e \in rows |-> e.length]
  <2>1. w \in [rows -> Nat] /\ \A e \in rows : w[e] = e.length
    BY <1>5
  <2>2. SumsOf(g, rows, w)
    BY <1>6
  <2> HIDE DEF w
  <2>3. /\ \A s \in SUBSET rows : \A x \in rows \ s : g[s \cup {x}] = g[s] + w[x]
        /\ \A t \in SUBSET rows : \A s \in SUBSET t : g[s] <= g[t]
    BY <2>1, <2>2, <1>5, SumsAddUp
  <2> QED
    BY <2>1, <2>3
<1> HIDE DEF D
<1> DEFINE Near(v) == {r \in rows : {r.source, r.target} \subseteq D
                                  /\ c[r.source] <= c[v] /\ c[r.target] <= c[v]}
           Good == {v \in D : c[v] <= g[Near(v)]}
<1>9. ASSUME NEW v \in D, \A u \in D : c[u] < c[v] => u \in Good  PROVE v \in Good
  <2>1. CASE v = p
    BY <2>1, <1>1, <1>7
  <2>2. CASE v # p
    <3>1. PICK h \in Water : h.to = v /\ h.from \in D /\ c[v] = c[h.from] + h.cost
      BY <2>2, <1>4
    <3> DEFINE u == h.from
    <3>2. PICK r \in rows : {u, v} = {r.source, r.target} /\ h.cost = r.length
      BY <3>1, <1>5
    <3>0. u \in D /\ c[v] = c[u] + h.cost /\ h.cost \in Nat /\ h.cost > 0
      BY <3>1, <1>2
    <3>3. c[u] \in Nat /\ c[v] \in Nat /\ h.cost \in Nat /\ h.cost > 0 /\ u \in D /\ c[u] < c[v]
      <4> HIDE DEF u
      <4>1. c[u] \in Nat /\ c[v] \in Nat
        BY <3>0, <1>1
      <4> QED
        BY <3>0, <4>1
    <3>4. c[u] <= g[Near(u)]
      BY <1>9, <3>3
    <3>5. r \in rows \ Near(u)
      <4>1. r.source = v \/ r.target = v
        BY <3>2
      <4>2. ~ (c[v] <= c[u])
        BY <3>3
      <4> QED
        BY <4>1, <4>2
    <3>6. Near(u) \cup {r} \subseteq Near(v)
      <4>1. r \in Near(v)
        <5>1. (r.source = v \/ r.source = u) /\ (r.target = v \/ r.target = u)
          BY <3>2
        <5>2. c[u] <= c[v] /\ c[v] <= c[v]
          BY <3>3
        <5> QED
          BY <5>1, <5>2, <3>3
      <4>2. ASSUME NEW x \in Near(u)  PROVE x \in Near(v)
        <5>1. x \in rows /\ x.source \in D /\ x.target \in D /\ c[x.source] <= c[u] /\ c[x.target] <= c[u]
          OBVIOUS
        <5>2. c[x.source] \in Nat /\ c[x.target] \in Nat
          BY <5>1, <1>1
        <5> QED
          BY <5>1, <5>2, <3>3
      <4> QED
        BY <4>1, <4>2
    <3>7. Near(u) \in SUBSET rows /\ Near(v) \in SUBSET rows
      OBVIOUS
    <3> HIDE DEF Near, u
    <3>8. g[Near(u) \cup {r}] = g[Near(u)] + r.length /\ g[Near(u) \cup {r}] <= g[Near(v)]
      BY <3>5, <3>6, <3>7, <1>8
    <3>9. g[Near(u)] \in Nat /\ g[Near(v)] \in Nat
      BY <3>7, <1>7
    <3>10. c[v] = c[u] + r.length /\ r.length \in Nat
      BY <3>1, <3>2, <3>3 DEF u
    <3> QED
      BY <3>3, <3>4, <3>8, <3>9, <3>10
  <2> QED
    BY <2>1, <2>2
<1>10. D \subseteq Good
  <2> HIDE DEF Good
  <2>1. c \in [D -> Nat] /\ \A v \in D : (\A u \in D : c[u] < c[v] => u \in Good) => v \in Good
    BY <1>1, <1>9
  <2> QED
    BY <2>1, ByCost
<1>11. limit \in Nat /\ \A v \in D : c[v] <= limit
  <2>1. \A v \in D : Near(v) \in SUBSET rows
    OBVIOUS
  <2>2. \A v \in D : c[v] <= g[Near(v)] /\ g[Near(v)] <= g[rows] /\ c[v] \in Nat
    <3> HIDE DEF Near
    <3> QED BY <1>1, <1>8, <1>10, <2>1
  <2>3. \A v \in D : g[Near(v)] \in Nat
    <3> HIDE DEF Near
    <3> QED BY <2>1, <1>7
  <2>4. limit = g[rows] /\ g[rows] \in Nat
    BY <1>6, <1>7
  <2> HIDE DEF Near, limit
  <2> QED
    BY <2>2, <2>3, <2>4
<1> HIDE DEF Near, Good, limit
<1>12. \A v \in D : CostsOf({p}, Water, limit)[v] = c[v]
  <2>1. Exact(c, D, {p}, Water, limit)
    BY <1>1, <1>2, <1>3, <1>4, <1>11 DEF Exact
  <2>2. {p} \in SUBSET Nat /\ limit \in Nat /\ Water \in ArcsOf(Nat) /\ IsFiniteSet(Water)
    BY <1>2, <1>11
  <2>3. Agree(CostsOf({p}, Water, limit), c, D)
    BY <2>1, <2>2, SearchIsExact
  <2> QED
    BY <2>3 DEF Agree
<1>13. Away(p) \subseteq D
  BY <1>1, <1>3 DEF Away, Landlocked
<1> QED
  BY <1>12, <1>13 DEF D, limit, Crossings

---------------------------------------------------------------------------
\* What is joined at each stage

ClosestKnown(a, s) ==
    \A b \in Ferry!Candidates(a, s) : \E c \in Ferry!Candidates(a, s) :
        Ferry!Known(a, c) /\ Ferry!Distance(a, c) <= Ferry!Distance(a, b)
Crossed(p) == \A v \in Away(p) \cap Ferry!SeaPiers : v > p => Ferry!Known(p, v)
NearOf(p) == {l \in Land : Ferry!Degrees(p, l) < PIER_LAND_MAX_M}
Lands(p) ==
    NearOf(p) # {} =>
        \E l \in NearOf(p) : /\ Ferry!Known(p, l)
                             /\ \A m \in NearOf(p) : Ferry!Degrees(p, l) <= Ferry!Degrees(p, m)

\* Sectors that have been looked at.
CrowInv ==
    /\ pc = "crow" =>
         /\ todo \subseteq anchors \X Ferry!Sectors
         /\ \A a \in anchors, s \in Ferry!Sectors : <<a, s>> \in todo \/ ClosestKnown(a, s)
    /\ pc \notin {"classify", "crow"} => \A a \in anchors, s \in Ferry!Sectors : ClosestKnown(a, s)

\* Piers whose search is over, and the edges it has left.
CrossInv ==
    /\ \A e \in edges : e.mark = "ferry" => e.cost = Crossings(e.a)[e.b]
    /\ pc \in {"ferries", "search"} =>
         /\ todo \subseteq Ferry!SeaPiers
         /\ \A p \in Ferry!SeaPiers : p \in todo \/ Crossed(p) \/ (pc = "search" /\ p = start)
    /\ pc \in {"landings", "written"} => \A p \in Ferry!SeaPiers : Crossed(p)

\* The search at work: a length is that of some way, and no ferry from a vertex
\* that is not queued makes another one shorter.
SweepInv ==
    pc = "search" =>
        /\ start \in Ferry!SeaPiers
        /\ line \in Seq(DOMAIN cost_to)
        /\ DOMAIN cost_to \subseteq Nat /\ cost_to \in [DOMAIN cost_to -> Nat]
        /\ start \in DOMAIN cost_to /\ cost_to[start] = 0
        /\ \A v \in DOMAIN cost_to \ {start} : \E h \in Water :
                h.to = v /\ h.from \in DOMAIN cost_to /\ cost_to[h.from] + h.cost <= cost_to[v]
        /\ \A h \in Water :
                h.from \in DOMAIN cost_to =>
                    \/ \E n \in 1..Len(line) : line[n] = h.from
                    \/ h.to \in DOMAIN cost_to /\ cost_to[h.to] <= cost_to[h.from] + h.cost

\* Piers that have been landed.
LandInv ==
    /\ pc = "landings" =>
         /\ todo \subseteq Ferry!SeaPiers
         /\ \A p \in Ferry!SeaPiers : p \in todo \/ Lands(p)
    /\ pc = "written" => \A p \in Ferry!SeaPiers : Lands(p)

FerryInv ==
    /\ rows \in SUBSET FerryWays
    /\ anchors \subseteq Piers \cup Land
    /\ pc \in {"classify", "crow", "ferries", "search", "landings", "written"}
    /\ CrowInv /\ CrossInv /\ SweepInv /\ LandInv
    /\ Ferry!OneEdgePerPair

\* What edges are known is never forgotten.
LEMMA FerriesGrow ==
  ASSUME anchors' = anchors, rows' = rows, edges \subseteq edges'
  PROVE  /\ \A a, b : Ferry!Known(a, b) => Ferry!Known(a, b)'
         /\ \A a, s : Ferry!Candidates(a, s)' = Ferry!Candidates(a, s)
         /\ \A a, s : ClosestKnown(a, s) => ClosestKnown(a, s)'
         /\ \A p : Crossed(p) => Crossed(p)'
         /\ \A p : Lands(p) => Lands(p)'
         /\ Ferry!SeaPiers' = Ferry!SeaPiers
         /\ Water' = Water
         /\ \A p : Away(p)' = Away(p) /\ Crossings(p)' = Crossings(p)
<1>1. \A a, b : Ferry!Known(a, b) => Ferry!Known(a, b)'
  BY DEF Ferry!Known
<1>2. ASSUME NEW a, NEW s  PROVE Ferry!Candidates(a, s)' = Ferry!Candidates(a, s)
  BY DEF Ferry!Candidates, Ferry!Distance, Ferry!InSector, Ferry!Abs, Ferry!East, Ferry!North
<1>3. ASSUME NEW a, NEW s, ClosestKnown(a, s)  PROVE ClosestKnown(a, s)'
  BY <1>1, <1>2, <1>3, Zenon DEF ClosestKnown, Ferry!Distance, Ferry!Abs, Ferry!East, Ferry!North
<1>4. Ferry!SeaPiers' = Ferry!SeaPiers
  BY DEF Ferry!SeaPiers
<1>5. Water' = Water
  BY DEF Water, Ferry!Hops, Ferry!Usable
<1>6. ASSUME NEW p  PROVE Away(p)' = Away(p) /\ Crossings(p)' = Crossings(p)
  BY <1>5, Zenon DEF Away, Landlocked, Crossings
<1>7. ASSUME NEW p, Crossed(p)  PROVE Crossed(p)'
  BY <1>1, <1>4, <1>6, <1>7 DEF Crossed
<1>8. ASSUME NEW p, Lands(p)  PROVE Lands(p)'
  BY <1>1, <1>8 DEF Lands, NearOf
<1> QED
  BY <1>1, <1>2, <1>3, <1>4, <1>5, <1>6, <1>7, <1>8

\* Edges for pairs that had none.
LEMMA PairsStay ==
  ASSUME Ferry!OneEdgePerPair, NEW New, edges' = edges \cup New,
         \A e \in New : ~Ferry!Known(e.a, e.b),
         \A e, f \in New : {e.a, e.b} = {f.a, f.b} => e = f
  PROVE  Ferry!OneEdgePerPair'
BY DEF Ferry!OneEdgePerPair, Ferry!Known

\* The pier a search starts from.
LEMMA LeastPier ==
  ASSUME NEW S \in SUBSET Nat, S # {}
  PROVE  Ferry!Least(S) \in S
BY LeastNat, Zenon DEF Ferry!Least

\* Piers are vertices.
LEMMA PiersAre ==
  ASSUME Ferry!FerryChainsAssumption
  PROVE  Ferry!SeaPiers \subseteq Nat /\ Ferry!SeaPiers \subseteq Piers
BY DEF Ferry!FerryChainsAssumption, Ferry!SeaPiers

\* Nothing is joined yet.
LEMMA FerriesBegin == Ferry!Init => FerryInv
<1> SUFFICES ASSUME Ferry!Init PROVE FerryInv
  OBVIOUS
<1>1. pc = "classify" /\ rows \in SUBSET FerryWays /\ anchors = {} /\ edges = {}
  BY DEF Ferry!Init
<1> QED
  BY <1>1 DEF FerryInv, CrowInv, CrossInv, SweepInv, LandInv, Ferry!OneEdgePerPair

\* Every anchor has all its sectors before it.
LEMMA ClassifyKeeps ==
  ASSUME Ferry!FerryChainsAssumption, FerryInv, Ferry!ClassifyPiers
  PROVE  FerryInv'
<1>1. /\ pc = "classify" /\ pc' = "crow" /\ rows' = rows /\ edges' = edges
      /\ anchors' \subseteq Piers \cup Land
      /\ todo' = anchors' \X Ferry!Sectors
  BY DEF Ferry!ClassifyPiers
<1>2. Ferry!Sectors' = Ferry!Sectors
  BY DEF Ferry!Sectors
<1>3. CrowInv'
  BY <1>1, <1>2 DEF CrowInv
<1>4. Water' = Water
  BY <1>1 DEF Water, Ferry!Hops, Ferry!Usable
<1>5. \A p : Crossings(p)' = Crossings(p)
  BY <1>1, <1>4, Zenon DEF Crossings
<1>6. CrossInv'
  BY <1>1, <1>5 DEF CrossInv, FerryInv
<1>7. SweepInv' /\ LandInv'
  BY <1>1 DEF SweepInv, LandInv
<1>8. Ferry!OneEdgePerPair'
  BY <1>1 DEF FerryInv, Ferry!OneEdgePerPair
<1> QED
  BY <1>1, <1>3, <1>6, <1>7, <1>8 DEF FerryInv

\* A sector that is looked at has its closest candidate joined.
LEMMA JoinSectorKeeps ==
  ASSUME Ferry!FerryChainsAssumption, FerryInv, Ferry!JoinSector
  PROVE  FerryInv'
<1>1. pc = "crow" /\ pc' = "crow" /\ todo # {} /\ rows' = rows /\ anchors' = anchors
  BY DEF Ferry!JoinSector
<1>2. todo \subseteq anchors \X Ferry!Sectors
  BY <1>1 DEF FerryInv, CrowInv
<1>3. PICK p \in todo :
        /\ todo' = todo \ {p}
        /\ Ferry!Candidates(p[1], p[2]) = {} => edges' = edges
        /\ Ferry!Candidates(p[1], p[2]) # {} =>
             \E b \in Ferry!Nearest(p[1], Ferry!Candidates(p[1], p[2])) :
               edges' = IF Ferry!Known(p[1], b) THEN edges
                        ELSE edges \cup {Ferry!Edge(p[1], b, Ferry!Distance(p[1], b), "air")}
  <2> DEFINE c == CHOOSE x \in todo : TRUE
  <2>1. c \in todo
    BY <1>1
  <2> QED
    BY <2>1, Zenon DEF Ferry!JoinSector
<1>4. PICK a \in anchors, s \in Ferry!Sectors : p = <<a, s>>
  BY <1>2
<1>5. PICK near : near = Ferry!Candidates(a, s)
  OBVIOUS
<1>6. /\ near = {} => edges' = edges
      /\ near # {} => \E b \in Ferry!Nearest(a, near) :
           edges' = IF Ferry!Known(a, b) THEN edges
                    ELSE edges \cup {Ferry!Edge(a, b, Ferry!Distance(a, b), "air")}
  <2>1. p[1] = a /\ p[2] = s
    BY <1>4
  <2> QED
    BY <2>1, <1>3, <1>5
<1>7. /\ edges \subseteq edges'
      /\ \A e \in edges' \ edges : e.mark = "air"
      /\ ClosestKnown(a, s)'
      /\ Ferry!OneEdgePerPair'
  <2>1. CASE near = {}
    <3>1. edges' = edges
      BY <2>1, <1>6
    <3>2. ClosestKnown(a, s)'
      BY <3>1, <2>1, <1>1, <1>5, FerriesGrow DEF ClosestKnown
    <3> QED
      BY <3>1, <3>2 DEF FerryInv, Ferry!OneEdgePerPair
  <2>2. CASE near # {}
    <3>1. PICK b \in Ferry!Nearest(a, near) :
            edges' = IF Ferry!Known(a, b) THEN edges
                     ELSE edges \cup {Ferry!Edge(a, b, Ferry!Distance(a, b), "air")}
      BY <2>2, <1>6
    <3> DEFINE x == Ferry!Edge(a, b, Ferry!Distance(a, b), "air")
    <3>2. b \in near /\ \A y \in near : Ferry!Distance(a, b) <= Ferry!Distance(a, y)
      BY DEF Ferry!Nearest
    <3>3. x.a = a /\ x.b = b /\ x.mark = "air"
      BY DEF Ferry!Edge
    <3>4. edges' = edges \/ edges' = edges \cup {x}
      BY <3>1
    <3>5. Ferry!Known(a, b)'
      BY <3>1, <3>3 DEF Ferry!Known
    <3>6. Ferry!OneEdgePerPair'
      <4>1. CASE Ferry!Known(a, b)
        BY <4>1, <3>1 DEF FerryInv, Ferry!OneEdgePerPair
      <4>2. CASE ~Ferry!Known(a, b)
        <5>1. edges' = edges \cup {x}
          BY <4>2, <3>1
        <5>2. PICK New : New = {x}
          OBVIOUS
        <5>3. /\ \A e \in New : ~Ferry!Known(e.a, e.b)
              /\ \A e, f \in New : {e.a, e.b} = {f.a, f.b} => e = f
              /\ Ferry!OneEdgePerPair
          BY <4>2, <5>2, <3>3 DEF FerryInv
        <5>4. edges' = edges \cup New
          BY <5>1, <5>2
        <5> QED
          BY <5>3, <5>4, PairsStay
      <4> QED
        BY <4>1, <4>2
    <3>7. ClosestKnown(a, s)'
      <4>1. edges \subseteq edges'
        BY <3>4
      <4>2. Ferry!Candidates(a, s)' = near
        BY <4>1, <1>1, <1>5, FerriesGrow
      <4> QED
        BY <4>2, <3>2, <3>5, Zenon DEF ClosestKnown, Ferry!Distance, Ferry!Abs, Ferry!East, Ferry!North
    <3> QED
      BY <3>3, <3>4, <3>6, <3>7
  <2> QED
    BY <2>1, <2>2
<1>8. CrowInv'
  <2>1. ASSUME NEW c \in anchors, NEW t \in Ferry!Sectors
        PROVE  <<c, t>> \in todo' \/ ClosestKnown(c, t)'
    <3>1. CASE <<c, t>> = p
      BY <3>1, <1>4, <1>7
    <3>2. CASE <<c, t>> # p
      <4>1. <<c, t>> \in todo \/ ClosestKnown(c, t)
        BY <1>1 DEF FerryInv, CrowInv
      <4> QED
        BY <4>1, <3>2, <1>1, <1>3, <1>7, FerriesGrow
    <3> QED
      BY <3>1, <3>2
  <2> QED
    BY <2>1, <1>1, <1>2, <1>3 DEF CrowInv, Ferry!Sectors
<1>9. CrossInv'
  <2>1. \A x : Crossings(x)' = Crossings(x)
    BY <1>1, <1>7, FerriesGrow
  <2>2. \A e \in edges' : e.mark = "ferry" => e \in edges
    BY <1>7
  <2> QED
    BY <2>1, <2>2, <1>1 DEF CrossInv, FerryInv
<1> QED
  BY <1>1, <1>7, <1>8, <1>9 DEF FerryInv, SweepInv, LandInv

\* Stage 5 starts when no sector is left, or over what it has written.
LEMMA AugmentKeeps ==
  ASSUME Ferry!FerryChainsAssumption, FerryInv, Ferry!Augment
  PROVE  FerryInv'
<1>1. /\ (pc = "crow" /\ todo = {}) \/ pc = "written"
      /\ pc' = "ferries" /\ todo' = Ferry!SeaPiers
      /\ rows' = rows /\ anchors' = anchors /\ edges' = edges
  BY DEF Ferry!Augment
<1>2. \A a \in anchors, s \in Ferry!Sectors : ClosestKnown(a, s)
  BY <1>1 DEF FerryInv, CrowInv
<1>3. CrowInv'
  <2>1. ASSUME NEW a \in anchors, NEW s \in Ferry!Sectors  PROVE ClosestKnown(a, s)'
    BY <1>1, <1>2, FerriesGrow
  <2> QED
    BY <2>1, <1>1 DEF CrowInv, Ferry!Sectors
<1>4. CrossInv'
  <2>1. \A x : Crossings(x)' = Crossings(x)
    BY <1>1, FerriesGrow
  <2>2. Ferry!SeaPiers' = Ferry!SeaPiers
    BY <1>1 DEF Ferry!SeaPiers
  <2> QED
    BY <2>1, <2>2, <1>1 DEF CrossInv, FerryInv
<1>5. Ferry!OneEdgePerPair'
  BY <1>1 DEF FerryInv, Ferry!OneEdgePerPair
<1> QED
  BY <1>1, <1>3, <1>4, <1>5 DEF FerryInv, SweepInv, LandInv

\* A search starts with its pier; one no ferry calls at has nowhere to go.
LEMMA StartSearchKeeps ==
  ASSUME Ferry!FerryChainsAssumption, FerryInv, Ferry!StartSearch
  PROVE  FerryInv'
<1>1. /\ pc = "ferries" /\ todo # {} /\ start' = Ferry!Least(todo) /\ todo' = todo \ {start'}
      /\ rows' = rows /\ anchors' = anchors /\ edges' = edges
  BY DEF Ferry!StartSearch
<1>2. /\ todo \subseteq Ferry!SeaPiers
      /\ \A p \in Ferry!SeaPiers : p \in todo \/ Crossed(p)
  BY <1>1 DEF FerryInv, CrossInv
<1>3. PICK s : s = start'
  OBVIOUS
<1>4. s \in todo /\ s \in Ferry!SeaPiers /\ s \in Nat
  BY <1>1, <1>2, <1>3, LeastPier, PiersAre
<1>5. /\ s \in Ferry!FerryVertices =>
           /\ pc' = "search" /\ line' = <<s>>
           /\ cost_to' = [v \in {s} |-> 0]
      /\ s \notin Ferry!FerryVertices => pc' = "ferries"
  BY <1>1, <1>3 DEF Ferry!StartSearch
<1>6. CrowInv'
  <2>1. ASSUME NEW a \in anchors, NEW t \in Ferry!Sectors  PROVE ClosestKnown(a, t)'
    BY <1>1, FerriesGrow DEF FerryInv, CrowInv
  <2>2. pc' # "crow"
    BY <1>5
  <2> QED
    BY <2>1, <2>2, <1>1 DEF CrowInv, Ferry!Sectors
<1>7. s \notin Ferry!FerryVertices => Crossed(s)
  <2> SUFFICES ASSUME s \notin Ferry!FerryVertices PROVE Crossed(s)
    OBVIOUS
  <2>1. ASSUME NEW h \in Water  PROVE h.from # s
    <3>1. PICK r \in Ferry!Usable : h.from = r.source \/ h.from = r.target
      BY DEF Water, Ferry!Hops
    <3>2. h.from \in Ferry!FerryVertices
      BY <3>1 DEF Ferry!FerryVertices
    <3> QED
      BY <3>2
  <2>2. Landlocked({s}) /\ {s} \in SUBSET Nat /\ s \in {s}
    BY <2>1, <1>4 DEF Landlocked
  <2>3. \A v \in Away(s) : v = s
    BY <2>2 DEF Away
  <2> QED
    BY <2>3, <1>4 DEF Crossed
<1>8. CrossInv'
  <2>1. \A x : Crossings(x)' = Crossings(x)
    BY <1>1, FerriesGrow
  <2>2. Ferry!SeaPiers' = Ferry!SeaPiers
    BY <1>1 DEF Ferry!SeaPiers
  <2>3. \A p \in Ferry!SeaPiers : Crossed(p) => Crossed(p)'
    BY <1>1, FerriesGrow
  <2>4. \A p \in Ferry!SeaPiers : p \in todo' \/ Crossed(p)' \/ (pc' = "search" /\ p = start')
    <3>1. ASSUME NEW p \in Ferry!SeaPiers
          PROVE p \in todo' \/ Crossed(p)' \/ (pc' = "search" /\ p = start')
      BY <2>3, <1>1, <1>2, <1>3, <1>5, <1>7
    <3> QED BY <3>1
  <2>5. /\ todo' \subseteq Ferry!SeaPiers /\ pc' \in {"ferries", "search"}
        /\ \A e \in edges : e.mark = "ferry" => e.cost = Crossings(e.a)[e.b]
    BY <1>1, <1>2, <1>5 DEF FerryInv, CrossInv
  <2> QED
    BY <2>1, <2>2, <2>4, <2>5, <1>1 DEF CrossInv
<1>9. SweepInv'
  <2> SUFFICES ASSUME pc' = "search" PROVE SweepInv'
    BY DEF SweepInv
  <2>1. line' = <<s>> /\ cost_to' = [v \in {s} |-> 0] /\ Ferry!SeaPiers' = Ferry!SeaPiers
    BY <1>1, <1>5 DEF Ferry!SeaPiers
  <2>2. PICK c : c = [v \in {s} |-> 0]
    OBVIOUS
  <2>3. PICK l : l = <<s>>
    OBVIOUS
  <2>4. DOMAIN c = {s} /\ c[s] = 0 /\ l \in Seq(DOMAIN c) /\ Len(l) = 1 /\ l[1] = s
        /\ c \in [DOMAIN c -> Nat]
    BY <2>2, <2>3
  <2>5. cost_to' = c /\ line' = l /\ start' = s
    BY <2>1, <2>2, <2>3, <1>3
  <2> QED
    BY <2>1, <2>4, <2>5, <1>4 DEF SweepInv
<1>10. LandInv' /\ Ferry!OneEdgePerPair'
  BY <1>1, <1>5 DEF FerryInv, LandInv, Ferry!OneEdgePerPair
<1> QED
  BY <1>1, <1>5, <1>6, <1>8, <1>9, <1>10 DEF FerryInv

---------------------------------------------------------------------------
\* The search over the water

\* A queue without its head, and with what is put behind it.
InOrder(o, B) == \A v \in B : \E i \in DOMAIN o : o[i] = v
Requeues(k, l, B) ==
    /\ \A v \in B : \E i \in 1..Len(k) : k[i] = v
    /\ \A j \in 1..Len(l) : l[j] = Head(l) \/ \E i \in 1..Len(k) : k[i] = l[j]

LEMMA Requeued ==
  ASSUME NEW D, NEW l \in Seq(D), l # <<>>, NEW B, NEW n \in Nat, NEW o \in [1..n -> B],
         InOrder(o, B), NEW k, k = Tail(l) \o o
  PROVE  k \in Seq(D \cup B) /\ Requeues(k, l, B)
<1>0. \A v \in B : \E i \in DOMAIN o : o[i] = v
  BY DEF InOrder
<1>1. o \in Seq(B) /\ Len(o) = n /\ DOMAIN o = 1..n
  OBVIOUS
<1>2. PICK t : t = Tail(l)
  OBVIOUS
<1>3. /\ t \in Seq(D) /\ Len(t) = Len(l) - 1 /\ Len(t) \in Nat /\ Head(l) = l[1]
      /\ \A j \in 1..Len(t) : t[j] = l[j + 1]
  BY <1>2
<1>4. /\ k = t \o o /\ Len(k) = Len(t) + n
      /\ \A i \in 1..Len(t) : k[i] = t[i]
      /\ \A i \in 1..n : k[Len(t) + i] = o[i]
  <2>1. k = t \o o
    BY <1>2
  <2>2. t \in Seq(D \cup B) /\ o \in Seq(D \cup B)
    BY <1>1, <1>3
  <2>3. /\ Len(k) = Len(t) + n
        /\ \A i \in 1..Len(t) + n : k[i] = IF i <= Len(t) THEN t[i] ELSE o[i - Len(t)]
    <3>1. /\ Len(t \o o) = Len(t) + Len(o)
          /\ \A i \in 1..Len(t) + Len(o) :
                (t \o o)[i] = IF i <= Len(t) THEN t[i] ELSE o[i - Len(t)]
      BY <2>2, ConcatProperties
    <3> QED
      BY <3>1, <2>1, <1>1
  <2>4. \A i \in 1..Len(t) : k[i] = t[i]
    BY <2>3, <1>3
  <2>5. ASSUME NEW i \in 1..n  PROVE k[Len(t) + i] = o[i]
    <3>1. Len(t) + i \in 1..Len(t) + n /\ ~ (Len(t) + i <= Len(t)) /\ Len(t) + i - Len(t) = i
      BY <1>3
    <3> QED
      BY <3>1, <2>3
  <2> QED
    BY <2>1, <2>3, <2>4, <2>5
<1>5. k \in Seq(D \cup B)
  <2>1. t \in Seq(D \cup B) /\ o \in Seq(D \cup B)
    BY <1>1, <1>3
  <2> QED
    BY <2>1, <1>4
<1>6. ASSUME NEW v \in B  PROVE \E i \in 1..Len(k) : k[i] = v
  <2>1. PICK i \in 1..n : o[i] = v
    BY <1>0, <1>1
  <2>2. Len(t) + i \in 1..Len(k) /\ k[Len(t) + i] = v
    BY <2>1, <1>3, <1>4
  <2> QED
    BY <2>2
<1>7. ASSUME NEW j \in 1..Len(l), l[j] # Head(l)  PROVE \E i \in 1..Len(k) : k[i] = l[j]
  <2>1. j # 1
    BY <1>3, <1>7
  <2>2. j - 1 \in 1..Len(t) /\ j - 1 + 1 = j
    BY <2>1, <1>3
  <2>3. k[j - 1] = l[j] /\ j - 1 \in 1..Len(k)
    <3>1. k[j - 1] = t[j - 1] /\ t[j - 1] = l[j]
      BY <2>2, <1>3, <1>4
    <3> QED
      BY <3>1, <2>2, <1>3, <1>4
  <2> QED
    BY <2>3
<1> QED
  BY <1>5, <1>6, <1>7 DEF Requeues

\* One round of the search, from the lengths c and the head u of the queue.
Improved(c, u, d, better) ==
    /\ IsFiniteSet(better) /\ better \subseteq Nat
    /\ DOMAIN d = DOMAIN c \cup better /\ d \in [DOMAIN d -> Nat]
    /\ \A v \in DOMAIN c : d[v] <= c[v]
    /\ \A v \in DOMAIN c \ better : d[v] = c[v]
    /\ \A v \in DOMAIN c \cap better : d[v] < c[v]
    /\ \A v \in better : \E h \in Water : h.from = u /\ h.to = v /\ d[v] = c[u] + h.cost
    /\ \A h \in Water : h.from = u => h.to \in DOMAIN d /\ d[h.to] <= c[u] + h.cost

\* What Expand does, is such a round.
LEMMA RoundIs ==
  ASSUME Ferry!FerryChainsAssumption, FerryInv, Ferry!Expand
  PROVE  \E better, order :
            /\ Improved(cost_to, Head(line), cost_to', better)
            /\ order \in [1..Cardinality(better) -> better]
            /\ \A v \in better : \E n \in DOMAIN order : order[n] = v
            /\ line' = Tail(line) \o order
<1>1. pc = "search" /\ line # <<>>
  BY DEF Ferry!Expand
<1>2. /\ line \in Seq(DOMAIN cost_to) /\ DOMAIN cost_to \subseteq Nat
      /\ cost_to \in [DOMAIN cost_to -> Nat]
  BY <1>1 DEF FerryInv, SweepInv
<1> DEFINE u == Head(line)
           hops == {h \in Water : h.from = u}
           costs(v) == {h.cost : h \in {x \in hops : x.to = v}}
           length(v) == cost_to[u] + Ferry!Least(costs(v))
           better == {v \in {h.to : h \in hops} : v \notin DOMAIN cost_to \/ length(v) < cost_to[v]}
<1>3. /\ cost_to' = [v \in DOMAIN cost_to \cup better |->
                       IF v \in better THEN length(v) ELSE cost_to[v]]
      /\ \E order \in [1..Ferry!Cardinality(better) -> better] :
           /\ \A v \in better : \E n \in DOMAIN order : order[n] = v
           /\ line' = Tail(line) \o order
  BY Zenon DEF Ferry!Expand, Ferry!Improves, Water
<1>4. PICK c : c = cost_to
  OBVIOUS
<1>5. PICK w : w = u
  OBVIOUS
<1>6. w \in DOMAIN c /\ c[w] \in Nat
  BY <1>1, <1>2, <1>4, <1>5
<1>7. IsFiniteSet(Water) /\ \A h \in Water : h \in [from : Nat, to : Nat, cost : Nat]
  BY WaterIs DEF FerryInv, ArcsOf
<1>8. IsFiniteSet(better) /\ better \subseteq Nat
  <2>1. hops \subseteq Water
    OBVIOUS
  <2>2. IsFiniteSet(hops)
    <3> HIDE DEF hops
    <3> QED BY <2>1, <1>7, FS_Subset
  <2> DEFINE T == {h.to : h \in hops}
  <2>3. [h \in hops |-> h.to] \in Surjection(hops, T)
    BY DEF Surjection
  <2>4. T \subseteq Nat /\ better \subseteq T
    BY <2>1, <1>7
  <2> HIDE DEF T, hops, better
  <2>5. IsFiniteSet(T)
    BY <2>2, <2>3, FS_Surjection
  <2> QED
    BY <2>4, <2>5, FS_Subset
<1>9. Ferry!Cardinality(better) = Cardinality(better)
  BY Zenon DEF Ferry!Cardinality, Cardinality
<1>10. ASSUME NEW v \in {h.to : h \in hops}
       PROVE  /\ \E h \in Water : h.from = w /\ h.to = v /\ length(v) = c[w] + h.cost
              /\ \A h \in Water : h.from = w /\ h.to = v => length(v) <= c[w] + h.cost
              /\ length(v) \in Nat
  <2>1. costs(v) \in SUBSET Nat /\ costs(v) # {}
    BY <1>7
  <2> DEFINE m == Ferry!Least(costs(v))
  <2>2. m \in costs(v) /\ \A x \in costs(v) : m <= x
    <3> HIDE DEF costs
    <3> QED BY <2>1, LeastNat, Zenon DEF Ferry!Least
  <2> HIDE DEF m
  <2>3. \E h \in Water : h.from = w /\ h.to = v /\ m = h.cost
    BY <2>2, <1>5
  <2>4. ASSUME NEW h \in Water, h.from = w, h.to = v  PROVE m <= h.cost /\ h.cost \in Nat
    BY <2>2, <2>4, <1>5, <1>7
  <2>5. m \in Nat /\ length(v) = c[w] + m
    BY <2>1, <2>2, <1>4, <1>5 DEF m
  <2> HIDE DEF hops, length
  <2> QED
    BY <2>3, <2>4, <2>5, <1>6
<1>11. PICK d : d = cost_to'
  OBVIOUS
<1>12. PICK b : b = better
  OBVIOUS
<1>13. /\ b \subseteq {h.to : h \in hops}
       /\ \A v \in {h.to : h \in hops} : v \in b <=> v \notin DOMAIN c \/ length(v) < c[v]
       /\ d = [v \in DOMAIN c \cup b |-> IF v \in b THEN length(v) ELSE c[v]]
  BY <1>3, <1>4, <1>11, <1>12
<1>14. \A h \in Water : h.from = w => h.to \in {x.to : x \in hops}
  BY <1>5
<1>15. \A v \in DOMAIN c : c[v] \in Nat
  BY <1>2, <1>4
<1>16. PICK T : T = {h.to : h \in hops}
  OBVIOUS
<1> HIDE DEF length, better, costs, hops, u
<1>17. DOMAIN d = DOMAIN c \cup b /\ \A v \in b : d[v] = length(v) /\ \A x \in DOMAIN c \ b : d[x] = c[x]
  <2>1. \A x \in DOMAIN c \ b : d[x] = c[x]
    BY <1>13
  <2> QED
    BY <2>1, <1>13
<1>18. Improved(c, w, d, b)
  <2>0. \A x \in DOMAIN c \ b : d[x] = c[x]
    BY <1>13
  <2>1. \A v \in b : v \in T /\ length(v) \in Nat /\ d[v] = length(v)
    BY <1>10, <1>13, <1>16
  <2>2. \A v \in b : v \in DOMAIN c => d[v] < c[v]
    BY <2>1, <1>13, <1>16
  <2>3. \A v \in DOMAIN c : d[v] <= c[v]
    BY <2>0, <2>1, <2>2, <1>15
  <2>4. \A v \in DOMAIN d : d[v] \in Nat
    BY <2>0, <2>1, <1>15, <1>17
  <2>5. d \in [DOMAIN d -> Nat]
    BY <2>4, <1>13
  <2>6. \A v \in b : \E h \in Water : h.from = w /\ h.to = v /\ d[v] = c[w] + h.cost
    BY <2>1, <1>10, <1>16
  <2>7. ASSUME NEW h \in Water, h.from = w  PROVE h.to \in DOMAIN d /\ d[h.to] <= c[w] + h.cost
    <3>1. h.to \in T /\ length(h.to) <= c[w] + h.cost /\ length(h.to) \in Nat /\ h.cost \in Nat
      BY <2>7, <1>7, <1>10, <1>14, <1>16
    <3>2. CASE h.to \in b
      BY <3>1, <3>2, <2>1, <1>17
    <3>3. CASE h.to \notin b
      <4>1. h.to \in DOMAIN c /\ ~ (length(h.to) < c[h.to])
        BY <3>1, <3>3, <1>13, <1>16
      <4>2. d[h.to] = c[h.to] /\ c[h.to] \in Nat
        BY <4>1, <3>3, <2>0, <1>15
      <4> QED
        BY <4>1, <4>2, <3>1, <1>6, <1>17
    <3> QED
      BY <3>2, <3>3
  <2>8. IsFiniteSet(b) /\ b \subseteq Nat
    BY <1>8, <1>12
  <2> QED
    BY <2>0, <2>2, <2>3, <2>5, <2>6, <2>7, <2>8, <1>17 DEF Improved
<1>19. PICK order \in [1..Cardinality(b) -> b] :
          /\ \A v \in b : \E n \in DOMAIN order : order[n] = v
          /\ line' = Tail(line) \o order
  BY <1>3, <1>9, <1>12
<1> QED
  BY <1>4, <1>5, <1>11, <1>18, <1>19 DEF u

\* A round leaves unimproved only what is queued.
LEMMA ExpandKeeps ==
  ASSUME Ferry!FerryChainsAssumption, FerryInv, Ferry!Expand
  PROVE  FerryInv'
<1>1. /\ pc = "search" /\ pc' = "search" /\ line # <<>>
      /\ rows' = rows /\ anchors' = anchors /\ edges' = edges /\ todo' = todo /\ start' = start
  BY DEF Ferry!Expand
<1>2. PICK b, o :
        /\ Improved(cost_to, Head(line), cost_to', b)
        /\ o \in [1..Cardinality(b) -> b]
        /\ \A v \in b : \E n \in DOMAIN o : o[n] = v
        /\ line' = Tail(line) \o o
  BY RoundIs
<1>3. PICK c : c = cost_to
  OBVIOUS
<1>4. PICK d : d = cost_to'
  OBVIOUS
<1>5. PICK l : l = line
  OBVIOUS
<1>6. PICK k : k = line'
  OBVIOUS
<1>7. PICK u : u = Head(l)
  OBVIOUS
<1>8. /\ start \in Ferry!SeaPiers /\ start \in Nat
      /\ l \in Seq(DOMAIN c) /\ DOMAIN c \subseteq Nat /\ c \in [DOMAIN c -> Nat]
      /\ start \in DOMAIN c /\ c[start] = 0
      /\ \A v \in DOMAIN c \ {start} : \E h \in Water :
              h.to = v /\ h.from \in DOMAIN c /\ c[h.from] + h.cost <= c[v]
      /\ \A h \in Water : h.from \in DOMAIN c =>
              \/ \E n \in 1..Len(l) : l[n] = h.from
              \/ h.to \in DOMAIN c /\ c[h.to] <= c[h.from] + h.cost
  BY <1>1, <1>3, <1>5, PiersAre DEF FerryInv, SweepInv
<1>9. /\ IsFiniteSet(b) /\ b \subseteq Nat
      /\ DOMAIN d = DOMAIN c \cup b /\ d \in [DOMAIN d -> Nat]
      /\ \A v \in DOMAIN c : d[v] <= c[v]
      /\ \A v \in DOMAIN c \ b : d[v] = c[v]
      /\ \A v \in DOMAIN c \cap b : d[v] < c[v]
      /\ \A v \in b : \E h \in Water : h.from = u /\ h.to = v /\ d[v] = c[u] + h.cost
      /\ \A h \in Water : h.from = u => h.to \in DOMAIN d /\ d[h.to] <= c[u] + h.cost
  BY <1>2, <1>3, <1>4, <1>5, <1>7 DEF Improved
<1>10. /\ k \in Seq(DOMAIN c \cup b)
       /\ \A v \in b : \E n \in 1..Len(k) : k[n] = v
       /\ \A j \in 1..Len(l) : l[j] = u \/ \E n \in 1..Len(k) : k[n] = l[j]
  <2>1. PICK n : n = Cardinality(b)
    OBVIOUS
  <2>2. n \in Nat
    BY <2>1, <1>9, FS_CardinalityType
  <2>3. l # <<>> /\ k = Tail(l) \o o /\ o \in [1..n -> b] /\ \A v \in b : \E i \in DOMAIN o : o[i] = v
    BY <2>1, <1>1, <1>2, <1>5, <1>6
  <2>4. PICK D : D = DOMAIN c
    OBVIOUS
  <2>5. l \in Seq(D)
    BY <2>4, <1>8
  <2>6. InOrder(o, b)
    BY <2>3 DEF InOrder
  <2>7. k \in Seq(D \cup b) /\ Requeues(k, l, b)
    BY <2>2, <2>3, <2>5, <2>6, Requeued
  <2> QED
    BY <2>4, <2>7, <1>7 DEF Requeues
<1>11. u \in DOMAIN c
  BY <1>1, <1>5, <1>7, <1>8
<1>12. /\ \A v \in DOMAIN c : c[v] \in Nat
       /\ \A v \in DOMAIN d : d[v] \in Nat
       /\ \A h \in Water : h.cost \in Nat /\ h.cost > 0
  BY <1>8, <1>9, WaterIs DEF FerryInv, ArcsOf
<1>13. start \in DOMAIN d /\ d[start] = 0 /\ start \notin b
  <2>1. d[start] \in Nat
    BY <1>8, <1>9, <1>12
  <2>2. ~ (d[start] < c[start])
    BY <2>1, <1>8
  <2> QED
    BY <2>1, <2>2, <1>8, <1>9
<1>14. ASSUME NEW v \in DOMAIN d \ {start}
       PROVE  \E h \in Water : h.to = v /\ h.from \in DOMAIN d /\ d[h.from] + h.cost <= d[v]
  <2>1. CASE v \in b
    <3>1. PICK h \in Water : h.from = u /\ h.to = v /\ d[v] = c[u] + h.cost
      BY <2>1, <1>9
    <3>2. u \in DOMAIN d /\ d[u] <= c[u] /\ d[u] \in Nat /\ c[u] \in Nat /\ h.cost \in Nat
      BY <1>9, <1>11, <1>12
    <3> QED
      BY <3>1, <3>2
  <2>2. CASE v \notin b
    <3>1. v \in DOMAIN c \ {start} /\ d[v] = c[v]
      BY <2>2, <1>9
    <3>2. PICK h \in Water : h.to = v /\ h.from \in DOMAIN c /\ c[h.from] + h.cost <= c[v]
      BY <3>1, <1>8
    <3>3. /\ h.from \in DOMAIN d /\ d[h.from] <= c[h.from] /\ d[h.from] \in Nat
          /\ c[h.from] \in Nat /\ h.cost \in Nat /\ c[v] \in Nat
      BY <3>1, <3>2, <1>9, <1>12
    <3> QED
      BY <3>1, <3>2, <3>3
  <2> QED
    BY <2>1, <2>2
<1>15. ASSUME NEW h \in Water, h.from \in DOMAIN d
       PROVE  \/ \E n \in 1..Len(k) : k[n] = h.from
              \/ h.to \in DOMAIN d /\ d[h.to] <= d[h.from] + h.cost
  <2>1. CASE h.from \in b
    BY <2>1, <1>10
  <2>2. CASE h.from \notin b
    <3>1. h.from \in DOMAIN c /\ d[h.from] = c[h.from] /\ c[h.from] \in Nat /\ h.cost \in Nat
      BY <2>2, <1>9, <1>12, <1>15
    <3>2. CASE h.from = u
      BY <3>1, <3>2, <1>9
    <3>3. CASE h.from # u /\ \E n \in 1..Len(l) : l[n] = h.from
      BY <3>3, <1>10
    <3>4. CASE h.to \in DOMAIN c /\ c[h.to] <= c[h.from] + h.cost
      <4>1. h.to \in DOMAIN d /\ d[h.to] <= c[h.to] /\ d[h.to] \in Nat /\ c[h.to] \in Nat
        BY <3>4, <1>9, <1>12
      <4> QED
        BY <4>1, <3>1, <3>4
    <3> QED
      BY <3>1, <3>2, <3>3, <3>4, <1>8
  <2> QED
    BY <2>1, <2>2
<1>16. SweepInv'
  <2>1. Water' = Water /\ Ferry!SeaPiers' = Ferry!SeaPiers
    BY <1>1, FerriesGrow
  <2>2. DOMAIN d \subseteq Nat /\ k \in Seq(DOMAIN d) /\ d \in [DOMAIN d -> Nat]
    BY <1>8, <1>9, <1>10
  <2> QED
    BY <2>1, <2>2, <1>1, <1>4, <1>6, <1>8, <1>13, <1>14, <1>15, Zenon DEF SweepInv
<1>17. CrowInv' /\ LandInv'
  <2>1. ASSUME NEW a \in anchors, NEW t \in Ferry!Sectors  PROVE ClosestKnown(a, t)'
    BY <1>1, FerriesGrow DEF FerryInv, CrowInv
  <2> QED
    BY <2>1, <1>1 DEF CrowInv, LandInv, Ferry!Sectors
<1>18. CrossInv'
  <2>1. \A x : Crossings(x)' = Crossings(x)
    BY <1>1, FerriesGrow
  <2>2. Ferry!SeaPiers' = Ferry!SeaPiers
    BY <1>1, FerriesGrow
  <2>3. \A p \in Ferry!SeaPiers : Crossed(p) => Crossed(p)'
    BY <1>1, FerriesGrow
  <2>4. /\ todo \subseteq Ferry!SeaPiers
        /\ \A e \in edges : e.mark = "ferry" => e.cost = Crossings(e.a)[e.b]
        /\ \A p \in Ferry!SeaPiers : p \in todo \/ Crossed(p) \/ p = start
    BY <1>1 DEF FerryInv, CrossInv
  <2> QED
    BY <2>1, <2>2, <2>3, <2>4, <1>1 DEF CrossInv
<1>19. Ferry!OneEdgePerPair'
  BY <1>1 DEF FerryInv, Ferry!OneEdgePerPair
<1> QED
  BY <1>1, <1>16, <1>17, <1>18, <1>19 DEF FerryInv

---------------------------------------------------------------------------
\* Crossings and landings

\* With nothing queued the lengths are the true ones, and all of them.
LEMMA EmitCrossingsKeeps ==
  ASSUME Ferry!FerryChainsAssumption, FerryInv, Ferry!EmitCrossings
  PROVE  FerryInv'
<1>1. /\ pc = "search" /\ pc' = "ferries" /\ line = <<>>
      /\ rows' = rows /\ anchors' = anchors /\ todo' = todo /\ start' = start
  BY DEF Ferry!EmitCrossings
<1>2. PICK c : c = cost_to
  OBVIOUS
<1>3. PICK s : s = start
  OBVIOUS
<1>4. PICK V : V = {w \in DOMAIN c \cap Ferry!SeaPiers : w > s /\ ~Ferry!Known(s, w)}
  OBVIOUS
<1>5. PICK New : New = {Ferry!Edge(s, v, c[v], "ferry") : v \in V}
  OBVIOUS
<1>6. edges' = edges \cup New
  BY <1>2, <1>3, <1>4, <1>5, Zenon DEF Ferry!EmitCrossings
<1>7. s \in Ferry!SeaPiers /\ s \in Nat /\ Ferry!SeaPiers \subseteq Nat
  BY <1>1, <1>3, PiersAre DEF FerryInv, SweepInv
<1>8. Settled(c, s)
  <2>1. /\ line \in Seq(DOMAIN c)
        /\ DOMAIN c \subseteq Nat /\ c \in [DOMAIN c -> Nat]
        /\ s \in DOMAIN c /\ c[s] = 0
        /\ \A v \in DOMAIN c \ {s} : \E h \in Water :
                h.to = v /\ h.from \in DOMAIN c /\ c[h.from] + h.cost <= c[v]
        /\ \A h \in Water : h.from \in DOMAIN c =>
                \/ \E n \in 1..Len(line) : line[n] = h.from
                \/ h.to \in DOMAIN c /\ c[h.to] <= c[h.from] + h.cost
    BY <1>1, <1>2, <1>3 DEF FerryInv, SweepInv
  <2>2. ~ \E n \in 1..Len(line) : TRUE
    BY <1>1
  <2> QED
    BY <2>1, <2>2 DEF Settled
<1>9. Away(s) \subseteq DOMAIN c /\ \A v \in DOMAIN c : Crossings(s)[v] = c[v]
  BY <1>7, <1>8, SettledIs DEF FerryInv
<1>10. ASSUME NEW e \in New
       PROVE  \E v \in V : e.a = s /\ e.b = v /\ e.cost = c[v] /\ e.mark = "ferry"
                           /\ e = Ferry!Edge(s, v, c[v], "ferry")
  BY <1>5 DEF Ferry!Edge
<1>11. Ferry!OneEdgePerPair'
  <2>1. \A e \in New : ~Ferry!Known(e.a, e.b)
    BY <1>4, <1>10
  <2>2. ASSUME NEW e \in New, NEW f \in New, {e.a, e.b} = {f.a, f.b}  PROVE e = f
    <3>1. PICK v \in V : e.a = s /\ e.b = v /\ e = Ferry!Edge(s, v, c[v], "ferry")
      BY <1>10
    <3>2. PICK w \in V : f.a = s /\ f.b = w /\ f = Ferry!Edge(s, w, c[w], "ferry")
      BY <1>10
    <3>3. v = w
      BY <2>2, <3>1, <3>2
    <3> QED
      BY <3>1, <3>2, <3>3
  <2>3. Ferry!OneEdgePerPair
    BY DEF FerryInv
  <2> QED
    BY <2>1, <2>2, <2>3, <1>6, PairsStay
<1>12. Crossed(s)'
  <2>1. ASSUME NEW v \in Away(s) \cap Ferry!SeaPiers, v > s  PROVE Ferry!Known(s, v)'
    <3>1. CASE Ferry!Known(s, v)
      BY <3>1, <1>1, <1>6, FerriesGrow
    <3>2. CASE ~Ferry!Known(s, v)
      <4>1. v \in V
        BY <3>2, <2>1, <1>4, <1>9
      <4>2. PICK e : e = Ferry!Edge(s, v, c[v], "ferry")
        OBVIOUS
      <4>3. e \in edges' /\ e.a = s /\ e.b = v
        BY <4>1, <4>2, <1>5, <1>6 DEF Ferry!Edge
      <4> QED
        BY <4>3 DEF Ferry!Known
    <3> QED
      BY <3>1, <3>2
  <2>2. Away(s)' = Away(s) /\ Ferry!SeaPiers' = Ferry!SeaPiers
    BY <1>1, <1>6, FerriesGrow
  <2> QED
    BY <2>1, <2>2, Zenon DEF Crossed
<1>13. CrowInv'
  <2>1. ASSUME NEW a \in anchors, NEW t \in Ferry!Sectors  PROVE ClosestKnown(a, t)'
    BY <1>1, <1>6, FerriesGrow DEF FerryInv, CrowInv
  <2> QED
    BY <2>1, <1>1 DEF CrowInv, Ferry!Sectors
<1>14. CrossInv'
  <2>1. /\ Ferry!SeaPiers' = Ferry!SeaPiers
        /\ \A x : Crossings(x)' = Crossings(x)
        /\ \A p \in Ferry!SeaPiers : Crossed(p) => Crossed(p)'
    BY <1>1, <1>6, FerriesGrow
  <2>2. ASSUME NEW e \in edges', e.mark = "ferry"  PROVE e.cost = Crossings(e.a)[e.b]
    <3>1. CASE e \in edges
      BY <3>1, <2>2 DEF FerryInv, CrossInv
    <3>2. CASE e \in New
      <4>1. PICK v \in V : e.a = s /\ e.b = v /\ e.cost = c[v]
        BY <3>2, <1>10
      <4> QED
        BY <4>1, <1>4, <1>9
    <3> QED
      BY <3>1, <3>2, <1>6
  <2>3. todo \subseteq Ferry!SeaPiers /\ \A p \in Ferry!SeaPiers : p \in todo \/ Crossed(p) \/ p = s
    BY <1>1, <1>3 DEF FerryInv, CrossInv
  <2>4. \A p \in Ferry!SeaPiers : p \in todo \/ Crossed(p)'
    BY <2>1, <2>3, <1>12
  <2> QED
    BY <2>1, <2>2, <2>3, <2>4, <1>1 DEF CrossInv
<1> QED
  BY <1>1, <1>11, <1>13, <1>14 DEF FerryInv, SweepInv, LandInv

\* The crossings are over; without land there is none to join.
LEMMA CrossingsDoneKeeps ==
  ASSUME Ferry!FerryChainsAssumption, FerryInv, Ferry!CrossingsDone
  PROVE  FerryInv'
<1>1. /\ pc = "ferries" /\ pc' = "landings" /\ todo = {}
      /\ todo' = IF Land = {} THEN {} ELSE Ferry!SeaPiers
      /\ rows' = rows /\ anchors' = anchors /\ edges' = edges
  BY DEF Ferry!CrossingsDone
<1>2. CrowInv'
  <2>1. ASSUME NEW a \in anchors, NEW t \in Ferry!Sectors  PROVE ClosestKnown(a, t)'
    BY <1>1, FerriesGrow DEF FerryInv, CrowInv
  <2> QED
    BY <2>1, <1>1 DEF CrowInv, Ferry!Sectors
<1>3. CrossInv'
  <2>1. /\ Ferry!SeaPiers' = Ferry!SeaPiers
        /\ \A x : Crossings(x)' = Crossings(x)
        /\ \A p \in Ferry!SeaPiers : Crossed(p) => Crossed(p)'
    BY <1>1, FerriesGrow
  <2>2. \A p \in Ferry!SeaPiers : Crossed(p)
    BY <1>1 DEF FerryInv, CrossInv
  <2> QED
    BY <2>1, <2>2, <1>1 DEF CrossInv, FerryInv
<1>4. LandInv'
  <2>1. Ferry!SeaPiers' = Ferry!SeaPiers
    BY <1>1, FerriesGrow
  <2>2. ASSUME NEW p, Land = {}  PROVE Lands(p)'
    BY <2>2 DEF Lands, NearOf
  <2> QED
    BY <2>1, <2>2, <1>1 DEF LandInv
<1>5. Ferry!OneEdgePerPair'
  BY <1>1 DEF FerryInv, Ferry!OneEdgePerPair
<1> QED
  BY <1>1, <1>2, <1>3, <1>4, <1>5 DEF FerryInv, SweepInv

\* One of the nearest of a set of places of the land.
LEMMA NearestLand ==
  ASSUME Ferry!FerryChainsAssumption, NEW p \in Piers, NEW S \in SUBSET Land, S # {}
  PROVE  /\ \E l \in S : \A m \in S : Ferry!Degrees(p, l) <= Ferry!Degrees(p, m)
         /\ \A l \in Land : Ferry!Degrees(p, l) \in Nat
<1>1. ASSUME NEW l \in Land  PROVE Ferry!Degrees(p, l) \in Nat
  <2>1. At[p] \in Int \X Int /\ At[l] \in Int \X Int /\ STRETCH \in Nat
    BY DEF Ferry!FerryChainsAssumption
  <2>2. Ferry!East(p, l) \in Int /\ Ferry!North(p, l) \in Int
    BY <2>1 DEF Ferry!East, Ferry!North
  <2>3. Ferry!Abs(Ferry!East(p, l)) \in Nat /\ Ferry!Abs(Ferry!North(p, l)) \in Nat
    BY <2>2 DEF Ferry!Abs
  <2>4. \A i, j, k \in Nat : i * j + k \in Nat
    OBVIOUS
  <2> QED
    BY <2>1, <2>3, <2>4 DEF Ferry!Degrees
<1> DEFINE T == {Ferry!Degrees(p, l) : l \in S}
<1>2. T \in SUBSET Nat /\ T # {}
  BY <1>1
<1>3. PICK n \in T : \A m \in T : n <= m
  <2> HIDE DEF T
  <2> QED BY <1>2, LeastNat
<1> QED
  BY <1>1, <1>3

\* A pier that is landed has one of the nearest places in reach.
LEMMA JoinLandKeeps ==
  ASSUME Ferry!FerryChainsAssumption, FerryInv, Ferry!JoinLand
  PROVE  FerryInv'
<1>1. /\ pc = "landings" /\ pc' = "landings" /\ todo # {}
      /\ rows' = rows /\ anchors' = anchors
  BY DEF Ferry!JoinLand
<1>2. todo \subseteq Ferry!SeaPiers /\ \A x \in Ferry!SeaPiers : x \in todo \/ Lands(x)
  BY <1>1 DEF FerryInv, LandInv
<1>3. PICK p : p = Ferry!Least(todo)
  OBVIOUS
<1>4. p \in todo /\ p \in Ferry!SeaPiers /\ p \in Piers
  BY <1>1, <1>2, <1>3, LeastPier, PiersAre
<1>5. PICK S \in Ferry!Landings(p) :
        edges' = edges \cup
          {Ferry!Edge(p, l, Ferry!Distance(p, l), "landing") : l \in {m \in S : ~Ferry!Known(p, m)}}
  BY <1>3, Zenon DEF Ferry!JoinLand
<1>6. todo' = todo \ {p}
  BY <1>3, Zenon DEF Ferry!JoinLand
<1>7. PICK V : V = {m \in S : ~Ferry!Known(p, m)}
  OBVIOUS
<1>8. PICK New : New = {Ferry!Edge(p, l, Ferry!Distance(p, l), "landing") : l \in V}
  OBVIOUS
<1>9. edges' = edges \cup New
  BY <1>5, <1>7, <1>8
<1>10. ASSUME NEW e \in New
       PROVE  \E l \in V : e.a = p /\ e.b = l /\ e.mark = "landing"
                           /\ e = Ferry!Edge(p, l, Ferry!Distance(p, l), "landing")
  BY <1>8 DEF Ferry!Edge
<1>11. Ferry!OneEdgePerPair'
  <2>1. \A e \in New : ~Ferry!Known(e.a, e.b)
    BY <1>7, <1>10
  <2>2. ASSUME NEW e \in New, NEW f \in New, {e.a, e.b} = {f.a, f.b}  PROVE e = f
    <3>1. PICK v \in V : e.a = p /\ e.b = v /\ e = Ferry!Edge(p, v, Ferry!Distance(p, v), "landing")
      BY <1>10
    <3>2. PICK w \in V : f.a = p /\ f.b = w /\ f = Ferry!Edge(p, w, Ferry!Distance(p, w), "landing")
      BY <1>10
    <3>3. v = w
      BY <2>2, <3>1, <3>2
    <3> QED
      BY <3>1, <3>2, <3>3
  <2>3. Ferry!OneEdgePerPair
    BY DEF FerryInv
  <2> QED
    BY <2>1, <2>2, <2>3, <1>9, PairsStay
<1>12. Lands(p)'
  <2>1. PICK near : near = NearOf(p)
    OBVIOUS
  <2>2. /\ S \subseteq near /\ near \subseteq Land
        /\ Ferry!Cardinality(S) = PIER_LAND_K \/ S = near
        /\ \A l \in S, m \in near \ S : ~ (Ferry!Degrees(p, m) < Ferry!Degrees(p, l))
    BY <1>5, <2>1 DEF Ferry!Landings, NearOf
  <2>3. near # {} => S # {}
    <3>1. Ferry!Cardinality({}) = 0
      <4>1. Ferry!Cardinality({}) = Cardinality({})
        BY Zenon DEF Ferry!Cardinality, Cardinality
      <4> QED
        BY <4>1, FS_EmptySet
    <3>2. PIER_LAND_K # 0
      BY DEF Ferry!FerryChainsAssumption
    <3> QED
      BY <3>1, <3>2, <2>2
  <2>4. ASSUME near # {}
        PROVE  \E l \in near : /\ Ferry!Known(p, l)'
                               /\ \A m \in near : Ferry!Degrees(p, l) <= Ferry!Degrees(p, m)
    <3>1. S \in SUBSET Land /\ S # {}
      BY <2>2, <2>3, <2>4
    <3>2. /\ \A l \in Land : Ferry!Degrees(p, l) \in Nat
          /\ \E l \in S : \A m \in S : Ferry!Degrees(p, l) <= Ferry!Degrees(p, m)
      BY <3>1, <1>4, NearestLand
    <3>3. PICK l \in S : \A m \in S : Ferry!Degrees(p, l) <= Ferry!Degrees(p, m)
      BY <3>2
    <3>4. ASSUME NEW m \in near  PROVE Ferry!Degrees(p, l) <= Ferry!Degrees(p, m)
      <4>1. CASE m \in S
        BY <4>1, <3>3
      <4>2. CASE m \notin S
        <5>1. ~ (Ferry!Degrees(p, m) < Ferry!Degrees(p, l))
          BY <4>2, <2>2
        <5>2. Ferry!Degrees(p, m) \in Nat /\ Ferry!Degrees(p, l) \in Nat
          BY <3>1, <3>2, <2>2
        <5> QED
          BY <5>1, <5>2
      <4> QED
        BY <4>1, <4>2
    <3>5. Ferry!Known(p, l)'
      <4>1. CASE Ferry!Known(p, l)
        BY <4>1, <1>1, <1>9, FerriesGrow
      <4>2. CASE ~Ferry!Known(p, l)
        <5>1. PICK e : e = Ferry!Edge(p, l, Ferry!Distance(p, l), "landing")
          OBVIOUS
        <5>2. e \in edges' /\ e.a = p /\ e.b = l
          BY <5>1, <4>2, <1>7, <1>8, <1>9 DEF Ferry!Edge
        <5> QED
          BY <5>2 DEF Ferry!Known
      <4> QED
        BY <4>1, <4>2
    <3> QED
      BY <3>4, <3>5, <2>2
  <2> QED
    BY <2>1, <2>4, Zenon DEF Lands, NearOf, Ferry!Degrees, Ferry!Abs, Ferry!East, Ferry!North
<1>13. CrowInv'
  <2>1. ASSUME NEW a \in anchors, NEW t \in Ferry!Sectors  PROVE ClosestKnown(a, t)'
    BY <1>1, <1>9, FerriesGrow DEF FerryInv, CrowInv
  <2> QED
    BY <2>1, <1>1 DEF CrowInv, Ferry!Sectors
<1>14. CrossInv'
  <2>1. /\ Ferry!SeaPiers' = Ferry!SeaPiers
        /\ \A x : Crossings(x)' = Crossings(x)
        /\ \A x \in Ferry!SeaPiers : Crossed(x) => Crossed(x)'
    BY <1>1, <1>9, FerriesGrow
  <2>2. \A e \in edges' : e.mark = "ferry" => e \in edges
    BY <1>9, <1>10
  <2> QED
    BY <2>1, <2>2, <1>1 DEF CrossInv, FerryInv
<1>15. LandInv'
  <2>1. Ferry!SeaPiers' = Ferry!SeaPiers /\ \A x : Lands(x) => Lands(x)'
    BY <1>1, <1>9, FerriesGrow
  <2>2. \A x \in Ferry!SeaPiers : x \in todo' \/ Lands(x)'
    BY <2>1, <1>2, <1>6, <1>12
  <2> QED
    BY <2>1, <2>2, <1>1, <1>2, <1>6 DEF LandInv
<1> QED
  BY <1>1, <1>11, <1>13, <1>14, <1>15 DEF FerryInv, SweepInv

\* The last step only writes.
LEMMA WriteGraphKeeps ==
  ASSUME Ferry!FerryChainsAssumption, FerryInv, Ferry!WriteGraph
  PROVE  FerryInv'
<1>1. /\ pc = "landings" /\ pc' = "written" /\ todo = {}
      /\ rows' = rows /\ anchors' = anchors /\ edges' = edges
  BY DEF Ferry!WriteGraph
<1>2. CrowInv'
  <2>1. ASSUME NEW a \in anchors, NEW t \in Ferry!Sectors  PROVE ClosestKnown(a, t)'
    BY <1>1, FerriesGrow DEF FerryInv, CrowInv
  <2> QED
    BY <2>1, <1>1 DEF CrowInv, Ferry!Sectors
<1>3. CrossInv' /\ LandInv'
  <2>1. /\ Ferry!SeaPiers' = Ferry!SeaPiers
        /\ \A x : Crossings(x)' = Crossings(x)
        /\ \A p \in Ferry!SeaPiers : Crossed(p) => Crossed(p)'
        /\ \A p \in Ferry!SeaPiers : Lands(p) => Lands(p)'
    BY <1>1, FerriesGrow
  <2>2. \A p \in Ferry!SeaPiers : Crossed(p) /\ Lands(p)
    BY <1>1 DEF FerryInv, CrossInv, LandInv
  <2> QED
    BY <2>1, <2>2, <1>1 DEF CrossInv, LandInv, FerryInv
<1>4. Ferry!OneEdgePerPair'
  BY <1>1 DEF FerryInv, Ferry!OneEdgePerPair
<1> QED
  BY <1>1, <1>2, <1>3, <1>4 DEF FerryInv, SweepInv

\* Nor does anything else disturb it.
LEMMA FerryRests ==
  ASSUME Ferry!FerryChainsAssumption, FerryInv, UNCHANGED Ferry!vars
  PROVE  FerryInv'
<1>1. /\ pc' = pc /\ rows' = rows /\ anchors' = anchors /\ edges' = edges /\ todo' = todo
      /\ start' = start /\ cost_to' = cost_to /\ line' = line
  BY DEF Ferry!vars
<1>2. CrowInv'
  <2>1. \A a, s : ClosestKnown(a, s) => ClosestKnown(a, s)'
    BY <1>1, FerriesGrow
  <2> QED
    BY <2>1, <1>1 DEF CrowInv, FerryInv, Ferry!Sectors
<1>3. CrossInv' /\ LandInv'
  <2>1. /\ Ferry!SeaPiers' = Ferry!SeaPiers
        /\ \A x : Crossings(x)' = Crossings(x)
        /\ \A p : Crossed(p) => Crossed(p)'
        /\ \A p : Lands(p) => Lands(p)'
    BY <1>1, FerriesGrow
  <2>2. CrossInv'
    BY <2>1, <1>1 DEF CrossInv, FerryInv
  <2>3. LandInv'
    BY <2>1, <1>1 DEF LandInv, FerryInv
  <2> QED
    BY <2>2, <2>3
<1>4. SweepInv'
  <2>1. Ferry!SeaPiers' = Ferry!SeaPiers /\ Water' = Water
    BY <1>1, FerriesGrow
  <2> QED
    BY <2>1, <1>1, Zenon DEF SweepInv, FerryInv
<1>5. Ferry!OneEdgePerPair'
  BY <1>1 DEF FerryInv, Ferry!OneEdgePerPair
<1> QED
  BY <1>1, <1>2, <1>3, <1>4, <1>5 DEF FerryInv

(* A pier is reached from every pier it reaches, so each pair is joined from*)
(* its smaller end.                                                         *)
LEMMA FerryJoins ==
  ASSUME Ferry!FerryChainsAssumption, FerryInv
  PROVE  Ferry!CrossingsJoinTheChain
<1> SUFFICES ASSUME pc = "written"
             PROVE  /\ Ferry!EveryDirection /\ Ferry!EveryCrossing
                    /\ Ferry!EveryPierLands /\ Ferry!OneEdgePerPair
  BY DEF Ferry!CrossingsJoinTheChain
<1>1. Ferry!EveryDirection
  <2>1. \A a \in anchors, s \in Ferry!Sectors : ClosestKnown(a, s)
    BY DEF FerryInv, CrowInv
  <2> QED
    BY <2>1 DEF ClosestKnown, Ferry!EveryDirection
<1>2. Ferry!EveryCrossing
  <2>0. /\ rows \in SUBSET FerryWays
        /\ \A p \in Ferry!SeaPiers : Crossed(p)
        /\ \A e \in edges : e.mark = "ferry" => e.cost = Crossings(e.a)[e.b]
        /\ Ferry!SeaPiers \subseteq Nat
    BY PiersAre DEF FerryInv, CrossInv
  <2>1. ASSUME NEW p \in Ferry!SeaPiers, NEW r \in (DOMAIN Crossings(p) \cap Ferry!SeaPiers) \ {p}
        PROVE  Ferry!Known(p, r)
    <3>1. p \in Nat /\ r \in Nat /\ r # p /\ r \in Ferry!SeaPiers
      BY <2>0
    <3>2. r \in Away(p) /\ p \in Away(r)
      BY <2>0, <3>1, AwayIs
    <3>3. CASE r > p
      BY <3>1, <3>2, <3>3, <2>0 DEF Crossed
    <3>4. CASE p > r
      <4>1. Ferry!Known(r, p)
        BY <3>1, <3>2, <3>4, <2>0 DEF Crossed
      <4> QED
        BY <4>1 DEF Ferry!Known
    <3> QED
      BY <3>1, <3>3, <3>4
  <2>2. \A p : Ferry!Costs({p}, Ferry!Hops(Ferry!Usable), Ferry!AllWater) = Crossings(p)
    BY CrossingsAre
  <2> QED
    BY <2>0, <2>1, <2>2 DEF Ferry!EveryCrossing
<1>3. Ferry!EveryPierLands
  <2>1. \A p \in Ferry!SeaPiers : Lands(p)
    BY DEF FerryInv, LandInv
  <2> QED
    BY <2>1 DEF Lands, NearOf, Ferry!EveryPierLands
<1>4. Ferry!OneEdgePerPair
  BY DEF FerryInv
<1> QED
  BY <1>1, <1>2, <1>3, <1>4

(***************************************************************************)
(* A graph that stage 5 has written joins every anchor to one of the       *)
(* closest candidates of each direction, every two piers with a ferry      *)
(* between them, by an edge as long as the shortest way over the water,    *)
(* and every pier with one of the nearest places of the land, and holds no *)
(* pair twice, however often it is run over its own output.                *)
(***************************************************************************)
THEOREM CrossingsJoin ==
  Ferry!FerryChainsAssumption => (Ferry!Spec => []Ferry!CrossingsJoinTheChain)
<1> SUFFICES ASSUME Ferry!FerryChainsAssumption
             PROVE  Ferry!Spec => []Ferry!CrossingsJoinTheChain
  OBVIOUS
<1>1. Ferry!Init => FerryInv
  BY FerriesBegin
<1>2. FerryInv /\ [Ferry!Next]_Ferry!vars => FerryInv'
  BY ClassifyKeeps, JoinSectorKeeps, AugmentKeeps, StartSearchKeeps, ExpandKeeps,
     EmitCrossingsKeeps, CrossingsDoneKeeps, JoinLandKeeps, WriteGraphKeeps, FerryRests,
     Zenon DEF Ferry!Next
<1>3. FerryInv => Ferry!CrossingsJoinTheChain
  BY FerryJoins
<1> QED
  BY <1>1, <1>2, <1>3, PTL DEF Ferry!Spec

---------------------------------------------------------------------------
(***************************************************************************)
(* VoronoiGraph: what its roads join, whatever ways, tags and anchors there *)
(* are, and whatever the components of a tile are taken for.               *)
(***************************************************************************)
CONSTANTS RowSets, Tags, Lies, Anchors, CORE, GAP, REACH, MAX_SNAPS
VARIABLES manifest, tiles, label, found, merged, snapped
Voronoi == INSTANCE VoronoiGraph WITH Place <- Lies

\* The roads as arcs, both ways.
RoadsAs(es) ==
    {[from |-> e.src, to |-> e.dst, cost |-> e.length, of |-> e] : e \in es} \cup
    {[from |-> e.dst, to |-> e.src, cost |-> e.length, of |-> e] : e \in es}
Parallel(es, u, v) == {e \in RoadsAs(es) : e.from = u /\ e.to = v}
RoadArcs(es) ==
    {[from |-> l[1], to |-> l[2], cost |-> CostSum(Parallel(es, l[1], l[2]))] :
        l \in {<<e.from, e.to>> : e \in RoadsAs(es)}}

LEMMA VoronoiIs ==
  /\ \A es : Voronoi!Arcs(es) = RoadArcs(es)
  /\ \A snaps : Voronoi!Searched(snaps) =
        CostsOf(UNION Voronoi!Range(snaps), RoadArcs(edges), CostSum(RoadArcs(edges)))
<1>1. ASSUME NEW es  PROVE Voronoi!Arcs(es) = RoadArcs(es)
  BY Zenon DEF Voronoi!Arcs, Voronoi!Csr, Voronoi!MapThenSumSet, Voronoi!MapThenFoldSet,
               RoadArcs, RoadsAs, Parallel, CostSum
<1>2. ASSUME NEW sources, NEW arcs, NEW limit
      PROVE  Voronoi!Costs(sources, arcs, limit) = CostsOf(sources, arcs, limit)
  BY Zenon DEF Voronoi!Costs, Voronoi!Cheapest, Voronoi!Cardinality,
               CostsOf, Priced, Searched, Ends, Stepped, Lowest, Cardinality
<1>3. ASSUME NEW T  PROVE Voronoi!MapThenSumSet(LAMBDA x : x.cost, T) = CostSum(T)
  BY Zenon DEF Voronoi!MapThenSumSet, Voronoi!MapThenFoldSet, CostSum
<1>4. ASSUME NEW snaps
      PROVE  Voronoi!Searched(snaps) =
                CostsOf(UNION Voronoi!Range(snaps), RoadArcs(edges), CostSum(RoadArcs(edges)))
  <2>1. Voronoi!Searched(snaps) =
            Voronoi!Costs(UNION Voronoi!Range(snaps), Voronoi!Arcs(edges),
                          Voronoi!MapThenSumSet(LAMBDA x : x.cost, Voronoi!Arcs(edges)))
    BY Zenon DEF Voronoi!Searched
  <2> QED
    BY Zenon, <2>1, <1>1, <1>2, <1>3
<1> QED
  BY <1>1, <1>4

\* Roads between vertices that lie somewhere, finitely many.
RoadsOk(es) ==
    /\ IsFiniteSet(es)
    /\ \A e \in es : e.src \in DOMAIN Lies /\ e.dst \in DOMAIN Lies /\ e.length \in Nat

LEMMA RoadArcsAre ==
  ASSUME NEW es, RoadsOk(es)
  PROVE  LET X == UNION {{e.src, e.dst} : e \in es} IN
         /\ IsFiniteSet(X) /\ X \in SUBSET DOMAIN Lies
         /\ RoadArcs(es) \in ArcsOf(X) /\ IsFiniteSet(RoadArcs(es))
         /\ \A a \in RoadArcs(es) : \E e \in es : {a.from, a.to} = {e.src, e.dst} /\ e.length <= a.cost
         /\ \A e \in es : \E a \in RoadArcs(es) : a.from = e.src /\ a.to = e.dst
         /\ \A e \in es : \E a \in RoadArcs(es) : a.from = e.dst /\ a.to = e.src
<1> DEFINE X == UNION {{e.src, e.dst} : e \in es}
           There(e) == [from |-> e.src, to |-> e.dst, cost |-> e.length, of |-> e]
           Back(e) == [from |-> e.dst, to |-> e.src, cost |-> e.length, of |-> e]
           T == {There(e) : e \in es}
           B == {Back(e) : e \in es}
           E == RoadsAs(es)
           arc(e) == [from |-> e.from, to |-> e.to, cost |-> CostSum(Parallel(es, e.from, e.to))]
<1>0. /\ IsFiniteSet(es)
      /\ \A e \in es : e.src \in DOMAIN Lies /\ e.dst \in DOMAIN Lies /\ e.length \in Nat
  BY DEF RoadsOk
<1>1. X \in SUBSET DOMAIN Lies /\ \A e \in es : e.src \in X /\ e.dst \in X
  BY <1>0
<1>2. IsFiniteSet(X)
  <2> DEFINE P == {e.src : e \in es}  Q == {e.dst : e \in es}
  <2>1. [e \in es |-> e.src] \in Surjection(es, P) /\ [e \in es |-> e.dst] \in Surjection(es, Q)
    BY DEF Surjection
  <2>2. X = P \cup Q
    OBVIOUS
  <2> HIDE DEF P, Q, X
  <2>3. IsFiniteSet(P) /\ IsFiniteSet(Q)
    BY <2>1, <1>0, FS_Surjection
  <2> QED
    BY <2>2, <2>3, FS_Union
<1> HIDE DEF X
<1>3. IsFiniteSet(E)
  <2>1. E = T \cup B
    BY DEF RoadsAs
  <2>2. IsFiniteSet(T)
    <3> HIDE DEF There
    <3>1. [e \in es |-> There(e)] \in Surjection(es, T)
      BY DEF Surjection
    <3> QED
      BY <1>0, <3>1, FS_Surjection
  <2>3. IsFiniteSet(B)
    <3> HIDE DEF Back
    <3>1. [e \in es |-> Back(e)] \in Surjection(es, B)
      BY DEF Surjection
    <3> QED
      BY <1>0, <3>1, FS_Surjection
  <2> HIDE DEF T, B, E
  <2> QED
    BY <2>1, <2>2, <2>3, FS_Union
<1>4. ASSUME NEW x \in E
      PROVE  /\ x.cost \in Nat /\ x.from \in X /\ x.to \in X
             /\ \E e \in es : {x.from, x.to} = {e.src, e.dst} /\ e.length = x.cost
  <2>1. PICK e \in es : x = There(e) \/ x = Back(e)
    BY DEF RoadsAs
  <2>2. x.cost = e.length /\ ((x.from = e.src /\ x.to = e.dst) \/ (x.from = e.dst /\ x.to = e.src))
    BY <2>1
  <2> QED
    BY <2>2, <1>0, <1>1
<1>5. \A e \in es : There(e) \in E /\ Back(e) \in E
  BY DEF RoadsAs
<1> HIDE DEF E
<1>6. ASSUME NEW x \in E
      PROVE  CostSum(Parallel(es, x.from, x.to)) \in Nat /\ x.cost <= CostSum(Parallel(es, x.from, x.to))
  <2> DEFINE P == Parallel(es, x.from, x.to)
             w == [y \in P |-> y.cost]
  <2>1. P \subseteq E /\ x \in P
    BY DEF Parallel, E
  <2> HIDE DEF P
  <2>2. IsFiniteSet(P) /\ \A y \in P : y.cost \in Nat
    BY <2>1, <1>3, <1>4, FS_Subset
  <2>3. PICK g : CostSum(P) = g[P] /\ SumsOf(g, P, w)
    BY <2>2, CostsAddUp
  <2>4. w \in [P -> Nat] /\ w[x] = x.cost
    BY <2>1, <2>2
  <2> HIDE DEF w
  <2>5. g[{} \cup {x}] = g[{}] + w[x] /\ g[{x}] <= g[P]
    <3>1. {} \in SUBSET P /\ x \in P \ {} /\ P \in SUBSET P /\ {x} \in SUBSET P
      BY <2>1
    <3>2. /\ \A t \in SUBSET P : \A y \in P \ t : g[t \cup {y}] = g[t] + w[y]
          /\ \A t \in SUBSET P : \A s \in SUBSET t : g[s] <= g[t]
      BY <2>2, <2>3, <2>4, SumsAddUp
    <3> QED
      BY <3>1, <3>2
  <2>6. g[{}] = 0 /\ g[P] \in Nat /\ g[{x}] \in Nat
    BY <2>1, <2>3 DEF SumsOf
  <2>7. {} \cup {x} = {x} /\ x.cost \in Nat
    BY <1>4
  <2>8. g[{x}] = x.cost
    BY <2>4, <2>5, <2>6, <2>7
  <2> QED
    BY <2>3, <2>5, <2>6, <2>7, <2>8 DEF P
<1>7. RoadArcs(es) = {arc(x) : x \in E}
  <2>1. \A x : <<x.from, x.to>>[1] = x.from /\ <<x.from, x.to>>[2] = x.to
    OBVIOUS
  <2>2. RoadArcs(es) = {[from |-> l[1], to |-> l[2], cost |-> CostSum(Parallel(es, l[1], l[2]))] :
                            l \in {<<x.from, x.to>> : x \in E}}
    BY Zenon DEF RoadArcs, E
  <2> DEFINE put(u, v) == [from |-> u, to |-> v, cost |-> CostSum(Parallel(es, u, v))]
             L == {<<x.from, x.to>> : x \in E}
  <2>3. RoadArcs(es) = {put(l[1], l[2]) : l \in L} /\ \A x : arc(x) = put(x.from, x.to)
    BY Zenon, <2>2
  <2> HIDE DEF put, arc
  <2>4. ASSUME NEW a \in {put(l[1], l[2]) : l \in L}  PROVE a \in {put(x.from, x.to) : x \in E}
    <3>1. PICK l \in L : a = put(l[1], l[2])
      OBVIOUS
    <3>2. PICK x \in E : l = <<x.from, x.to>>
      OBVIOUS
    <3>3. a = put(x.from, x.to)
      BY <3>1, <3>2
    <3> QED
      BY <3>3
  <2>5. ASSUME NEW x \in E  PROVE put(x.from, x.to) \in {put(l[1], l[2]) : l \in L}
    <3>1. PICK l \in L : l = <<x.from, x.to>>
      OBVIOUS
    <3>2. put(x.from, x.to) = put(l[1], l[2])
      BY <3>1
    <3> QED
      BY <3>2
  <2> HIDE DEF L
  <2>6. {put(l[1], l[2]) : l \in L} = {put(x.from, x.to) : x \in E}
    BY <2>4, <2>5
  <2>7. {put(x.from, x.to) : x \in E} = {arc(x) : x \in E}
    BY <2>3
  <2> QED
    BY <2>3, <2>6, <2>7
<1>8. IsFiniteSet(RoadArcs(es))
  <2> HIDE DEF arc
  <2>1. [x \in E |-> arc(x)] \in Surjection(E, {arc(x) : x \in E})
    BY DEF Surjection
  <2> QED
    BY <1>3, <1>7, <2>1, FS_Surjection
<1>9. ASSUME NEW a \in RoadArcs(es)
      PROVE  /\ a \in [from : X, to : X, cost : Nat]
             /\ \E e \in es : {a.from, a.to} = {e.src, e.dst} /\ e.length <= a.cost
  <2>1. PICK x \in E : a = arc(x)
    BY <1>7
  <2> QED
    BY <2>1, <1>4, <1>6
<1>10. ASSUME NEW e \in es
       PROVE  /\ \E a \in RoadArcs(es) : a.from = e.src /\ a.to = e.dst
              /\ \E a \in RoadArcs(es) : a.from = e.dst /\ a.to = e.src
  <2>1. arc(There(e)) \in RoadArcs(es) /\ arc(Back(e)) \in RoadArcs(es)
    <3> HIDE DEF arc, There, Back
    <3> QED BY <1>5, <1>7
  <2>2. /\ arc(There(e)).from = e.src /\ arc(There(e)).to = e.dst
        /\ arc(Back(e)).from = e.dst /\ arc(Back(e)).to = e.src
    OBVIOUS
  <2> HIDE DEF arc, There, Back
  <2> QED
    BY <2>1, <2>2
<1> HIDE DEF arc
<1>11. RoadArcs(es) \in ArcsOf(X)
  BY <1>9 DEF ArcsOf
<1> QED
  BY <1>1, <1>2, <1>8, <1>9, <1>10, <1>11 DEF X

ReachOf(S, arcs) ==
    (CHOOSE h : h = [n \in 0..Cardinality(arcs) |->
            IF n = 0 THEN S
            ELSE h[n - 1] \cup {a.to : a \in {x \in arcs : x.from \in h[n - 1]}}])[Cardinality(arcs)]

\* What finitely many arcs lead to is the least set they do not lead out of.
ReachedBy(R, S, arcs) ==
    /\ S \subseteq R
    /\ \A a \in arcs : a.from \in R => a.to \in R
    /\ \A C : S \subseteq C /\ (\A a \in arcs : a.from \in C => a.to \in C) => R \subseteq C

LEMMA ReachIs ==
  ASSUME NEW arcs, IsFiniteSet(arcs), NEW S
  PROVE  ReachedBy(Voronoi!ReachedFrom(S, arcs), S, arcs)
<1> DEFINE N == Cardinality(arcs)
           X == S \cup {a.to : a \in arcs}
           On(R) == {a.to : a \in {x \in arcs : x.from \in R}}
           Go(R) == R \cup On(R)
           H(h) == [n \in 0..N |-> IF n = 0 THEN S ELSE Go(h[n - 1])]
           F == [R \in SUBSET X |-> Go(R)]
<1>1. Voronoi!ReachedFrom(S, arcs) = (CHOOSE h : h = H(h))[N]
  <2>1. Voronoi!ReachedFrom(S, arcs) = ReachOf(S, arcs)
    BY Zenon DEF Voronoi!ReachedFrom, Voronoi!Cardinality, ReachOf, Cardinality
  <2> QED
    BY Zenon, <2>1 DEF ReachOf
<1>2. N \in Nat
  BY FS_CardinalityType
<1>3. F \in [SUBSET X -> SUBSET X] /\ \A R \in SUBSET X : F[R] = Go(R)
  OBVIOUS
<1>4. S \in SUBSET X
  OBVIOUS
<1> HIDE DEF N, X, F, Go
<1>5. PICK g : SequenceOf(g, N, S, SUBSET X, F)
  BY <1>2, <1>3, <1>4, SequenceIs
<1>6. /\ g \in [0..N -> SUBSET X]
      /\ g[0] = S /\ \A n \in 1..N : g[n] = F[g[n - 1]]
      /\ \A u : FollowsOn(u, N, S, SUBSET X, F) => u = g
  BY <1>5 DEF SequenceOf
<1>7. ASSUME NEW n \in 1..N  PROVE n - 1 \in 0..N /\ g[n - 1] \in SUBSET X /\ g[n] = Go(g[n - 1])
  <2>1. n - 1 \in 0..N
    BY <1>2
  <2> QED
    BY <2>1, <1>3, <1>6
<1>8. (CHOOSE h : h = H(h)) = g
  <2>1. g = H(g)
    <3>1. \A n \in 0..N : g[n] = IF n = 0 THEN S ELSE Go(g[n - 1])
      <4>1. \A n \in 0..N : n = 0 \/ n \in 1..N
        OBVIOUS
      <4> QED
        BY <4>1, <1>6, <1>7
    <3>2. g = [n \in 0..N |-> g[n]]
      BY <1>6
    <3> QED
      BY <3>1, <3>2
  <2>2. ASSUME NEW u, u = H(u)  PROVE u = g
    <3>1. /\ \A n \in 0..N : H(u)[n] = IF n = 0 THEN S ELSE Go(u[n - 1])
          /\ H(u) = [n \in 0..N |-> H(u)[n]]
      OBVIOUS
    <3> HIDE DEF H
    <3>2. u = [n \in 0..N |-> u[n]]
      BY <3>1, <2>2
    <3>3. u[0] = S /\ \A n \in 1..N : u[n] = Go(u[n - 1])
      BY <3>1, <2>2, <1>2
    <3>4. \A n \in 1..N : u[n - 1] \in SUBSET X => u[n] = F[u[n - 1]]
      BY <3>3, <1>3
    <3> QED
      BY <3>2, <3>3, <3>4, <1>6 DEF FollowsOn
  <2> HIDE DEF H
  <2> QED
    BY <2>1, <2>2
<1> HIDE DEF H
<1> DEFINE E == [T \in SUBSET arcs |-> T \cup {a \in arcs : a.from \in S \cup {x.to : x \in T}}]
           Met(T) == S \cup {x.to : x \in T}
<1>9. /\ E \in [SUBSET arcs -> SUBSET arcs] /\ {} \in SUBSET arcs
      /\ \A T \in SUBSET arcs : /\ T \subseteq E[T]
                                /\ E[T] = T \cup {a \in arcs : a.from \in Met(T)}
                                /\ Met(E[T]) = Go(Met(T))
  <2>1. E \in [SUBSET arcs -> SUBSET arcs] /\ {} \in SUBSET arcs
    OBVIOUS
  <2>2. ASSUME NEW T \in SUBSET arcs
        PROVE  /\ T \subseteq E[T]
               /\ E[T] = T \cup {a \in arcs : a.from \in Met(T)}
    OBVIOUS
  <2>3. ASSUME NEW T \in SUBSET arcs  PROVE Met(E[T]) = Go(Met(T))
    <3> DEFINE M == {a \in arcs : a.from \in Met(T)}
    <3>1. E[T] = T \cup M
      BY <2>2
    <3> HIDE DEF E
    <3>2. Met(T \cup M) = Met(T) \cup {x.to : x \in M}
      <4> HIDE DEF M
      <4> QED OBVIOUS
    <3>3. Go(Met(T)) = Met(T) \cup {x.to : x \in M}
      <4> HIDE DEF Met
      <4> QED BY DEF Go
    <3> HIDE DEF Met, M
    <3> QED
      BY <3>1, <3>2, <3>3
  <2> QED
    BY <2>1, <2>2, <2>3
<1> HIDE DEF E
<1>10. PICK t : SpreadOf(t, N, {}, arcs, E)
  BY <1>9, SpreadIs DEF N
<1>11. /\ t \in [0..N -> SUBSET arcs] /\ t[0] = {} /\ \A n \in 1..N : t[n] = E[t[n - 1]]
       /\ E[t[N]] = t[N]
  BY <1>10 DEF SpreadOf, SequenceOf
<1> HIDE DEF Met
<1> DEFINE K == {n \in 0..N : g[n] = Met(t[n])}
<1>12. 0 \in K
  BY <1>2, <1>6, <1>11 DEF Met
<1>13. ASSUME NEW n \in 0..N, n # 0, n - 1 \in K  PROVE n \in K
  <2>1. n \in 1..N
    BY <1>13
  <2>2. g[n] = Go(g[n - 1]) /\ t[n] = E[t[n - 1]] /\ t[n - 1] \in SUBSET arcs /\ g[n - 1] = Met(t[n - 1])
    BY <2>1, <1>7, <1>11, <1>13
  <2> QED
    BY <2>2, <1>9
<1>14. g[N] = Met(t[N])
  <2> HIDE DEF K
  <2>1. 0..N \subseteq K
    BY <1>2, <1>12, <1>13, Upward
  <2>2. N \in K
    BY <2>1, <1>2
  <2> QED
    BY <2>2 DEF K
<1>15. S \subseteq g[N] /\ \A a \in arcs : a.from \in g[N] => a.to \in g[N]
  <2>1. t[N] \in SUBSET arcs
    BY <1>2, <1>11
  <2>2. Go(g[N]) = g[N]
    BY <2>1, <1>9, <1>11, <1>14
  <2> QED
    BY <2>2, <1>14 DEF Go, Met
<1>16. ASSUME NEW C, S \subseteq C, \A a \in arcs : a.from \in C => a.to \in C  PROVE g[N] \subseteq C
  <2> DEFINE L == {n \in 0..N : g[n] \subseteq C}
  <2>1. 0 \in L
    BY <1>2, <1>6, <1>16
  <2>2. ASSUME NEW n \in 0..N, n # 0, n - 1 \in L  PROVE n \in L
    <3>1. n \in 1..N
      BY <2>2
    <3>2. g[n] = Go(g[n - 1]) /\ g[n - 1] \subseteq C
      BY <3>1, <2>2, <1>7
    <3> QED
      BY <3>2, <1>16 DEF Go
  <2> HIDE DEF L
  <2>3. 0..N \subseteq L
    BY <1>2, <2>1, <2>2, Upward
  <2> QED
    BY <2>3, <1>2 DEF L
<1> QED
  BY <1>1, <1>8, <1>15, <1>16 DEF ReachedBy

---------------------------------------------------------------------------
\* Labels

LEMMA ParentsSame ==
  \A sources, dist, arcs, none :
      Voronoi!Parents(sources, dist, arcs, none) = Trees!Parents(sources, dist, arcs, none)
BY Zenon DEF Voronoi!Parents, Voronoi!FoldSet, Voronoi!MapThenFoldSet, Voronoi!Rooted, Voronoi!Cardinality,
             Trees!Parents, Trees!FoldSet, Trees!MapThenFoldSet, Trees!Rooted, Trees!Cardinality

\* Predecessors that lead back to S.
LeadsTo(pred, S) ==
    /\ IsFiniteSet(DOMAIN pred) /\ None \notin DOMAIN pred
    /\ \A v \in DOMAIN pred : /\ pred[v] \in DOMAIN pred \cup {None}
                              /\ pred[v] = None => v \in S
    /\ Downwards(pred, None)

WalkTo(v, pred) ==
    (CHOOSE h : h = [x \in DOMAIN pred |->
            IF pred[x] = None THEN <<x>> ELSE <<x>> \o h[pred[x]]])[v]

(* The walk from a vertex ends at a snap, and keeps to what the             *)
(* predecessors do not lead out of.                                         *)
LEMMA SnapIs ==
  ASSUME NEW S, NEW pred, LeadsTo(pred, S), NEW v \in DOMAIN pred
  PROVE  /\ Voronoi!Last(Voronoi!WalkToSnap(v, pred)) \in S
         /\ \A R : v \in R /\ (\A x \in R \cap DOMAIN pred : pred[x] # None => pred[x] \in R)
                    => Voronoi!Range(Voronoi!WalkToSnap(v, pred)) \subseteq R
<1> DEFINE D == DOMAIN pred
           V == {w \in Seq(D) : Len(w) > 0 /\ w[Len(w)] \in S}
           B == {x \in D : pred[x] = None}
           b == [x \in B |-> <<x>>]
           pr == [x \in D \ B |-> pred[x]]
           F == [z \in (D \ B) \X V |-> <<z[1]>> \o z[2]]
           H(h) == [x \in D |-> IF pred[x] = None THEN <<x>> ELSE <<x>> \o h[pred[x]]]
<1>1. Voronoi!WalkToSnap(v, pred) = (CHOOSE h : h = H(h))[v]
  <2>1. Voronoi!WalkToSnap(v, pred) = WalkTo(v, pred)
    BY Zenon DEF Voronoi!WalkToSnap, WalkTo
  <2> QED
    BY Zenon, <2>1 DEF WalkTo
<1>2. /\ IsFiniteSet(D) /\ None \notin D
      /\ \A x \in D : pred[x] \in D \cup {None} /\ (pred[x] = None => x \in S)
  BY DEF LeadsTo
<1>3. PICK rank \in [D -> Nat] : \A x \in D : pred[x] \in D \ {None} => rank[pred[x]] < rank[x]
  BY DEF LeadsTo, Downwards
<1> HIDE DEF D
<1>4. \E K \in Nat : \A x \in D : rank[x] < K
  <2> DEFINE T == {-rank[x] : x \in D}
  <2>1. T \in SUBSET Int /\ T # {}
    BY <1>3 DEF D
  <2>2. IsFiniteSet(T)
    <3>1. [x \in D |-> -rank[x]] \in Surjection(D, T)
      BY DEF Surjection
    <3> QED
      BY <3>1, <1>2, FS_Surjection
  <2>3. \A x \in D : -rank[x] \in T
    OBVIOUS
  <2> HIDE DEF T
  <2>4. PICK m \in T : \A y \in T : m <= y
    BY <2>1, <2>2, LeastInt
  <2>5. \A x \in D : rank[x] \in Nat /\ rank[x] < 1 - m /\ 1 - m \in Int
    BY <2>1, <2>3, <2>4, <1>3
  <2>6. PICK x \in D : TRUE
    BY DEF D
  <2>7. 1 - m \in Nat
    BY <2>5, <2>6
  <2> QED
    BY <2>5, <2>7
<1>5. PICK K \in Nat : \A x \in D : rank[x] < K
  BY <1>4
<1>6. B \in SUBSET D /\ b \in [B -> V] /\ \A x \in B : b[x] = <<x>>
  <2>1. ASSUME NEW x \in B  PROVE <<x>> \in V
    BY <1>2
  <2> HIDE DEF V
  <2> QED
    BY <2>1
<1>7. /\ pr \in [D \ B -> D]
      /\ \A x \in D \ B : rank[pr[x]] < rank[x] /\ pr[x] = pred[x] /\ pred[x] \in D
  BY <1>2, <1>3
<1>8. F \in [(D \ B) \X V -> V] /\ \A x \in D \ B, w \in V : F[<<x, w>>] = <<x>> \o w
  <2>1. ASSUME NEW x \in D, NEW w \in V  PROVE <<x>> \o w \in V
    <3>1. w \in Seq(D) /\ Len(w) \in Nat /\ Len(w) > 0 /\ w[Len(w)] \in S /\ <<x>> \in Seq(D) /\ Len(<<x>>) = 1
      OBVIOUS
    <3> HIDE DEF V
    <3>2. <<x>> \o w \in Seq(D) /\ Len(<<x>> \o w) = 1 + Len(w)
      BY <3>1
    <3>3. (<<x>> \o w)[1 + Len(w)] = w[Len(w)]
      BY <3>1
    <3> DEFINE y == <<x>> \o w
    <3>4. y \in Seq(D) /\ Len(y) = 1 + Len(w) /\ y[1 + Len(w)] = w[Len(w)]
      BY <3>2, <3>3
    <3> HIDE DEF y
    <3>5. y \in Seq(D) /\ Len(y) > 0 /\ y[Len(y)] \in S
      BY <3>1, <3>4
    <3>6. y \in V
      BY <3>5 DEF V
    <3> QED
      BY <3>6 DEF y
  <2> HIDE DEF V
  <2> QED
    BY <2>1
<1>9. \A x \in D : x \in B <=> pred[x] = None
  OBVIOUS
<1> HIDE DEF V, B, b, pr, F
<1>10. Recursive(D, V, rank, K, B, b, pr, F)
  BY <1>3, <1>5, <1>6, <1>7, <1>8 DEF Recursive
<1>11. PICK g \in [D -> V] :
            /\ \A x \in D : g[x] = IF x \in B THEN b[x] ELSE F[<<x, g[pr[x]]>>]
            /\ \A u : SolvedBy(u, D, V, B, b, pr, F) => u = g
  BY <1>10, RecursionIs
<1>12. (CHOOSE h : h = H(h)) = g
  <2>1. g = H(g)
    <3>1. ASSUME NEW x \in D  PROVE g[x] = IF pred[x] = None THEN <<x>> ELSE <<x>> \o g[pred[x]]
      <4>1. CASE pred[x] = None
        BY <4>1, <1>6, <1>9, <1>11
      <4>2. CASE pred[x] # None
        <5>1. x \in D \ B /\ x \notin B
          BY <4>2, <1>9
        <5>2. pr[x] = pred[x] /\ pred[x] \in D /\ g[pred[x]] \in V
          BY <5>1, <1>7, <1>11
        <5>3. g[x] = F[<<x, g[pr[x]]>>]
          BY <5>1, <1>11
        <5>4. F[<<x, g[pred[x]]>>] = <<x>> \o g[pred[x]]
          BY <5>1, <5>2, <1>8
        <5> QED
          BY <4>2, <5>2, <5>3, <5>4
      <4> QED
        BY <4>1, <4>2
    <3>2. g = [x \in D |-> g[x]]
      BY <1>11
    <3> QED
      BY <3>1, <3>2
  <2>2. ASSUME NEW u, u = H(u)  PROVE u = g
    <3>1. /\ \A x \in D : H(u)[x] = IF pred[x] = None THEN <<x>> ELSE <<x>> \o u[pred[x]]
          /\ H(u) = [x \in D |-> H(u)[x]]
      OBVIOUS
    <3> HIDE DEF H
    <3>2. u = [x \in D |-> u[x]]
      BY <3>1, <2>2
    <3>3. \A x \in B : u[x] = b[x]
      BY <3>1, <2>2, <1>6, <1>9
    <3>4. ASSUME NEW x \in D \ B, u[pr[x]] \in V  PROVE u[x] = F[<<x, u[pr[x]]>>]
      <4>1. pred[x] # None /\ pr[x] = pred[x]
        BY <1>7, <1>9
      <4>2. u[x] = <<x>> \o u[pr[x]]
        BY <3>1, <4>1, <2>2
      <4> QED
        BY <4>2, <3>4, <1>8
    <3> QED
      BY <3>2, <3>3, <3>4, <1>11 DEF SolvedBy
  <2> HIDE DEF H
  <2> QED
    BY <2>1, <2>2
<1> HIDE DEF H
<1>13. g[v] \in V
  BY <1>11 DEF D
<1>14. Voronoi!Last(g[v]) = g[v][Len(g[v])]
  BY DEF Voronoi!Last
<1>15. ASSUME NEW R, v \in R, \A x \in R \cap D : pred[x] # None => pred[x] \in R
       PROVE  Voronoi!Range(g[v]) \subseteq R
  <2> DEFINE Good == {x \in D : x \in R => g[x] \in Seq(R)}
  <2>1. ASSUME NEW x \in D, \A u \in D : rank[u] < rank[x] => u \in Good, x \in R
        PROVE  g[x] \in Seq(R)
    <3>1. CASE pred[x] = None
      <4>1. g[x] = <<x>>
        BY <3>1, <1>6, <1>9, <1>11
      <4> QED
        BY <4>1, <2>1
    <3>2. CASE pred[x] # None
      <4>1. x \in D \ B /\ pr[x] = pred[x] /\ pred[x] \in D /\ rank[pred[x]] < rank[x]
        BY <3>2, <1>7, <1>9
      <4>2. g[pred[x]] \in Seq(R)
        BY <4>1, <3>2, <2>1, <1>15
      <4>3. g[x] = <<x>> \o g[pred[x]]
        <5>1. g[x] = F[<<x, g[pr[x]]>>] /\ g[pred[x]] \in V
          BY <4>1, <1>11
        <5> QED
          BY <5>1, <4>1, <1>8
      <4>4. <<x>> \in Seq(R)
        BY <2>1
      <4> QED
        BY <4>2, <4>3, <4>4, ConcatProperties
    <3> QED
      BY <3>1, <3>2
  <2>2. D \subseteq Good
    <3>1. \A x \in D : (\A u \in D : rank[u] < rank[x] => u \in Good) => x \in Good
      BY <2>1
    <3> HIDE DEF Good
    <3> QED
      BY <3>1, <1>3, ByCost
  <2>3. g[v] \in Seq(R)
    BY <2>2, <1>15 DEF D
  <2> QED
    BY <2>3 DEF Voronoi!Range
<1> QED
  BY <1>1, <1>12, <1>13, <1>14, <1>15 DEF V, D

LEMMA WhereAt ==
  ASSUME Voronoi!VoronoiAssumption, NEW v \in DOMAIN Lies, NEW a \in Anchors
  PROVE  Voronoi!Off(v, a) \in Nat
<1>1. At[a] \in Int /\ Lies[v] \in Int
  BY DEF Voronoi!VoronoiAssumption
<1> QED
  BY <1>1 DEF Voronoi!Off, Voronoi!Distance

\* What snapped to a vertex has an anchor that owns it.
LEMMA OwnerIs ==
  ASSUME Voronoi!VoronoiAssumption, NEW snaps, DOMAIN snaps \in SUBSET Anchors,
         NEW v \in DOMAIN Lies, v \in UNION Voronoi!Range(snaps)
  PROVE  Voronoi!OwnerOf(v, snaps) \in Anchors
<1> DEFINE of == {a \in DOMAIN snaps : v \in snaps[a]}
           far(a) == Voronoi!Off(v, a)
           Far == {far(a) : a \in of}
<1>1. of # {} /\ of \in SUBSET Anchors
  BY DEF Voronoi!Range
<1>2. \A a \in Anchors : a \in Int /\ far(a) \in Nat
  <2>1. \A a \in Anchors : a \in Int
    BY DEF Voronoi!VoronoiAssumption
  <2> QED
    BY <2>1, WhereAt
<1>3. IsFiniteSet(Anchors)
  <2>1. Voronoi!IsFiniteSet(Anchors)
    BY DEF Voronoi!VoronoiAssumption
  <2> QED
    BY Zenon, <2>1 DEF Voronoi!IsFiniteSet, IsFiniteSet
<1>4. Voronoi!OwnerOf(v, snaps) =
        CHOOSE a \in of : \A b \in of \ {a} : far(a) < far(b) \/ (far(a) = far(b) /\ a < b)
  BY Zenon DEF Voronoi!OwnerOf
<1> HIDE DEF of, far
<1>5. PICK n \in Far : \A m \in Far : n <= m
  <2>1. Far \in SUBSET Nat /\ Far # {}
    BY <1>1, <1>2
  <2> HIDE DEF Far
  <2> QED
    BY <2>1, LeastNat
<1> DEFINE Near == {a \in of : far(a) = n}
<1>6. PICK a \in Near : \A b \in Near : a <= b
  <2>1. Near \in SUBSET Int /\ Near # {} /\ Near \in SUBSET Anchors
    BY <1>1, <1>2
  <2> HIDE DEF Near
  <2>2. IsFiniteSet(Near)
    BY <2>1, <1>3, FS_Subset
  <2> QED
    BY <2>1, <2>2, LeastInt
<1>7. \A b \in of \ {a} : far(a) < far(b) \/ (far(a) = far(b) /\ a < b)
  <2> TAKE b \in of \ {a}
  <2>1. far(a) = n /\ n <= far(b) /\ far(b) \in Nat /\ far(a) \in Nat /\ a \in Int /\ b \in Int
    BY <1>1, <1>2, <1>5
  <2>2. far(b) = n => a <= b
    BY <1>6
  <2> QED
    BY <2>1, <2>2
<1>8. a \in of
  OBVIOUS
<1> QED
  BY <1>1, <1>4, <1>7, <1>8

---------------------------------------------------------------------------
\* Chain edges, and the tiles put together

LEMMA TwoOf ==
  ASSUME NEW x \in Int, NEW y \in Int, x # y
  PROVE  {Voronoi!Least({x, y}), Voronoi!Greatest({x, y})} = {x, y}
<1>1. /\ \E m \in {x, y} : \A n \in {x, y} : m <= n
      /\ \E m \in {x, y} : \A n \in {x, y} : m >= n
  OBVIOUS
<1> DEFINE l == Voronoi!Least({x, y})
           g == Voronoi!Greatest({x, y})
<1>2. l \in {x, y} /\ \A n \in {x, y} : l <= n
  BY <1>1 DEF Voronoi!Least
<1>3. g \in {x, y} /\ \A n \in {x, y} : g >= n
  BY <1>1 DEF Voronoi!Greatest
<1> HIDE DEF l, g
<1>4. {l, g} = {x, y}
  BY <1>2, <1>3
<1> QED
  BY <1>4 DEF l, g

\* Chain edges, and those for two anchors.
ChainOk(C) == IsFiniteSet(C) /\ \A c \in C : c.cost \in Nat
OnePerPair(C) == \A c, d \in C : Voronoi!SamePair(c, d) => c = d
Linked(x, y, C) == \E c \in C : {c.a, c.b} = {x, y}

\* One for every border there is.
LEMMA ChainIs ==
  ASSUME RoadsOk(edges), NEW dist, NEW pred, NEW labels, DOMAIN labels \subseteq DOMAIN dist,
         \A v \in DOMAIN labels : dist[v] \in Nat /\ labels[v] \in Int
  PROVE  LET C == Voronoi!ChainEdges(dist, pred, labels) IN
         /\ ChainOk(C) /\ OnePerPair(C)
         /\ \A e \in Voronoi!Border(labels) : Linked(labels[e.src], labels[e.dst], C)
<1> DEFINE Bd == Voronoi!Border(labels)
           cost(e) == dist[e.src] + e.length + dist[e.dst]
           sides(e) == {labels[e.src], labels[e.dst]}
           best(s) == CHOOSE e \in Bd :
               sides(e) = s /\ \A f \in Bd : sides(f) = s => cost(e) <= cost(f)
           start_of(s, e) == IF labels[e.src] = Voronoi!Least(s) THEN e.src ELSE e.dst
           end_of(s, e) == IF start_of(s, e) = e.src THEN e.dst ELSE e.src
           edge(s, e) == [a |-> Voronoi!Least(s), b |-> Voronoi!Greatest(s), cost |-> cost(e),
                          geom |-> Voronoi!Coords(
                                        Voronoi!Reverse(Voronoi!WalkToSnap(start_of(s, e), pred))
                                        \o Voronoi!WalkToSnap(end_of(s, e), pred))]
           Sides == {sides(e) : e \in Bd}
           C == {edge(s, best(s)) : s \in Sides}
<1>1. Voronoi!ChainEdges(dist, pred, labels) = C
  BY Zenon DEF Voronoi!ChainEdges
<1>2. ASSUME NEW e \in Bd
      PROVE  /\ e \in edges /\ cost(e) \in Nat
             /\ labels[e.src] \in Int /\ labels[e.dst] \in Int /\ labels[e.src] # labels[e.dst]
  <2>1. e \in edges /\ {e.src, e.dst} \subseteq DOMAIN labels /\ labels[e.src] # labels[e.dst]
    BY DEF Voronoi!Border, Voronoi!Ends
  <2>2. dist[e.src] \in Nat /\ dist[e.dst] \in Nat /\ e.length \in Nat
    BY <2>1 DEF RoadsOk
  <2> QED
    BY <2>1, <2>2
<1> HIDE DEF Bd
<1>3. IsFiniteSet(Sides)
  <2>1. IsFiniteSet(Bd)
    <3>1. Bd \subseteq edges
      BY <1>2
    <3> QED
      BY <3>1, FS_Subset DEF RoadsOk
  <2> HIDE DEF sides
  <2>2. [e \in Bd |-> sides(e)] \in Surjection(Bd, Sides)
    BY DEF Surjection
  <2> QED
    BY <2>1, <2>2, FS_Surjection
<1>4. ASSUME NEW s \in Sides
      PROVE  best(s) \in Bd /\ sides(best(s)) = s
  <2> DEFINE of == {e \in Bd : sides(e) = s}
             Prices == {cost(e) : e \in of}
  <2> HIDE DEF cost, sides
  <2>1. Prices \in SUBSET Nat /\ Prices # {}
    BY <1>2
  <2>2. PICK n \in Prices : \A m \in Prices : n <= m
    <3> HIDE DEF Prices
    <3> QED BY <2>1, LeastNat
  <2>3. PICK e \in of : n = cost(e)
    OBVIOUS
  <2>4. e \in Bd /\ sides(e) = s /\ \A f \in Bd : sides(f) = s => cost(e) <= cost(f)
    BY <2>2, <2>3
  <2> HIDE DEF of, Prices
  <2> QED
    BY <2>4
<1>5. ASSUME NEW s \in Sides
      PROVE  {Voronoi!Least(s), Voronoi!Greatest(s)} = s
  <2>1. PICK e \in Bd : s = sides(e)
    OBVIOUS
  <2> QED
    BY <2>1, <1>2, TwoOf
<1>6. ASSUME NEW s \in Sides
      PROVE  LET c == edge(s, best(s)) IN {c.a, c.b} = s /\ c.cost \in Nat
  <2>1. cost(best(s)) \in Nat
    <3> HIDE DEF cost, best
    <3> QED BY <1>2, <1>4
  <2> HIDE DEF cost, best, start_of, end_of, Sides
  <2> QED
    BY <2>1, <1>5
<1>7. ChainOk(C)
  <2> HIDE DEF edge, best, Sides
  <2>1. [s \in Sides |-> edge(s, best(s))] \in Surjection(Sides, C)
    BY DEF Surjection
  <2>2. IsFiniteSet(C)
    BY <1>3, <2>1, FS_Surjection
  <2> QED
    BY <2>2, <1>6 DEF ChainOk
<1>8. OnePerPair(C)
  <2> HIDE DEF edge, best, Sides
  <2> SUFFICES ASSUME NEW c \in C, NEW d \in C, Voronoi!SamePair(c, d) PROVE c = d
    BY DEF OnePerPair
  <2>1. PICK s \in Sides : c = edge(s, best(s))
    OBVIOUS
  <2>2. PICK t \in Sides : d = edge(t, best(t))
    OBVIOUS
  <2>3. {c.a, c.b} = s /\ {d.a, d.b} = t
    BY <1>6, <2>1, <2>2
  <2>4. s = t
    BY <2>3 DEF Voronoi!SamePair
  <2> QED
    BY <2>1, <2>2, <2>4
<1>9. ASSUME NEW e \in Bd  PROVE Linked(labels[e.src], labels[e.dst], C)
  <2>1. sides(e) \in Sides
    OBVIOUS
  <2> DEFINE c == edge(sides(e), best(sides(e)))
  <2>2. c \in C
    BY <2>1
  <2>3. {c.a, c.b} = sides(e)
    <3> HIDE DEF edge, best, sides, Sides
    <3> QED BY <2>1, <1>6
  <2> HIDE DEF c, C
  <2> QED
    BY <2>2, <2>3 DEF Linked
<1> HIDE DEF C
<1> QED
  BY <1>1, <1>7, <1>8, <1>9 DEF Bd

\* Borders between neighbours are linked in C.
SideBySide(C) ==
    \A e \in edges :
        {e.src, e.dst} \subseteq DOMAIN label /\ label[e.src] # label[e.dst] =>
            Linked(label[e.src], label[e.dst], C)

\* All that is joined is labelled, or a bridge of no length is in it.
Spanned ==
    \A u \in DOMAIN label :
        (\A e \in edges : e.src \in Voronoi!Component(u, edges) => e.length > 0) =>
            Voronoi!Component(u, edges) \subseteq DOMAIN label

VoronoiInv ==
    /\ table \in RowSets
    /\ RoadsOk(edges)
    /\ ChainOk(merged)
    /\ pc = "merge" => ChainOk(found) /\ OnePerPair(found) /\ SideBySide(found) /\ Spanned
    /\ pc = "tiles" => SideBySide(merged) /\ Spanned

LEMMA VoronoiBegins == Voronoi!Init => VoronoiInv
BY FS_EmptySet DEF Voronoi!Init, VoronoiInv, RoadsOk, ChainOk, SideBySide, Spanned

LEMMA SpannedStays ==
  ASSUME Spanned, edges' = edges, label' = label
  PROVE  Spanned'
<1>1. \A u : Voronoi!Component(u, edges)' = Voronoi!Component(u, edges)
  BY Zenon, VoronoiIs DEF Voronoi!Component
<1> QED
  BY <1>1 DEF Spanned

LEMMA LoadCellsKeeps ==
  ASSUME VoronoiInv, Voronoi!LoadCells
  PROVE  VoronoiInv'
BY Zenon, SpannedStays DEF VoronoiInv, Voronoi!LoadCells, RoadsOk, ChainOk, SideBySide, Linked

LEMMA WriteOutputsKeeps ==
  ASSUME VoronoiInv, Voronoi!WriteOutputs
  PROVE  VoronoiInv'
BY Zenon, SpannedStays DEF VoronoiInv, Voronoi!WriteOutputs, RoadsOk, ChainOk, SideBySide, Linked

LEMMA VoronoiRests ==
  ASSUME VoronoiInv, UNCHANGED Voronoi!vars
  PROVE  VoronoiInv'
BY Zenon, SpannedStays DEF VoronoiInv, Voronoi!vars, RoadsOk, ChainOk, SideBySide, Linked, OnePerPair

LEMMA LoadSubgraphKeeps ==
  ASSUME Voronoi!VoronoiAssumption, VoronoiInv, Voronoi!LoadSubgraph
  PROVE  VoronoiInv'
<1>1. /\ pc' \in {"tiles", "bridge"} /\ table' = table /\ merged' = merged /\ label' = <<>>
      /\ \E west, east : edges' = Voronoi!FloodFill(Voronoi!Candidates(west, east))
      /\ pc' = "tiles" => edges' = {}
  BY DEF Voronoi!LoadSubgraph
<1>2. PICK es : edges' = es /\ \A e \in es : e \in table
  <2>1. PICK west, east : edges' = Voronoi!FloodFill(Voronoi!Candidates(west, east))
    BY <1>1
  <2>2. \A R : Voronoi!FloodFill(R) \subseteq R
    BY DEF Voronoi!FloodFill
  <2>3. \A e \in Voronoi!Candidates(west, east) : e \in table
    BY DEF Voronoi!Candidates
  <2> QED
    BY <2>1, <2>2, <2>3
<1>3. RoadsOk(es)
  <2>1. Voronoi!IsFiniteSet(table) /\ \A r \in table : r.src \in DOMAIN Lies /\ r.dst \in DOMAIN Lies /\ r.length \in Nat
    BY DEF VoronoiInv, Voronoi!VoronoiAssumption
  <2>2. IsFiniteSet(table)
    BY Zenon, <2>1 DEF Voronoi!IsFiniteSet, IsFiniteSet
  <2>3. IsFiniteSet(es)
    <3>1. es \subseteq table
      BY <1>2
    <3> QED
      BY <3>1, <2>2, FS_Subset
  <2> QED
    BY <1>2, <2>1, <2>3 DEF RoadsOk
<1>4. RoadsOk(edges)'
  BY <1>2, <1>3 DEF RoadsOk
<1>5. ChainOk(merged)' /\ (table \in RowSets)'
  BY <1>1 DEF VoronoiInv, ChainOk
<1>6. pc' = "tiles" => SideBySide(merged)' /\ Spanned'
  BY <1>1 DEF SideBySide, Spanned
<1> QED
  BY <1>1, <1>4, <1>5, <1>6 DEF VoronoiInv

LEMMA BridgeGapKeeps ==
  ASSUME Voronoi!VoronoiAssumption, VoronoiInv, Voronoi!BridgeGap
  PROVE  VoronoiInv'
<1>1. /\ pc = "bridge" /\ pc' = pc /\ table' = table /\ merged' = merged
      /\ \E p \in Voronoi!Bridgeable :
            edges' = edges \cup {[src |-> p[1], dst |-> p[2], length |-> Voronoi!Gap(p), way |-> None]}
  BY DEF Voronoi!BridgeGap
<1>2. PICK p \in Voronoi!Bridgeable :
            edges' = edges \cup {[src |-> p[1], dst |-> p[2], length |-> Voronoi!Gap(p), way |-> None]}
  BY <1>1
<1>3. RoadsOk(edges)
  BY DEF VoronoiInv
<1>4. p[1] \in DOMAIN Lies /\ p[2] \in DOMAIN Lies /\ Voronoi!Gap(p) \in Nat
  <2>1. Voronoi!VertsOf(edges) \subseteq DOMAIN Lies
    BY <1>3 DEF Voronoi!VertsOf, Voronoi!Ends, RoadsOk
  <2>2. p[1] \in DOMAIN Lies /\ p[2] \in DOMAIN Lies
    BY <2>1 DEF Voronoi!Bridgeable
  <2>3. Lies[p[1]] \in Int /\ Lies[p[2]] \in Int
    BY <2>2 DEF Voronoi!VoronoiAssumption
  <2> QED
    BY <2>2, <2>3 DEF Voronoi!Gap, Voronoi!Distance
<1>5. PICK b : b = [src |-> p[1], dst |-> p[2], length |-> Voronoi!Gap(p), way |-> None]
  OBVIOUS
<1>6. b.src \in DOMAIN Lies /\ b.dst \in DOMAIN Lies /\ b.length \in Nat
  BY <1>4, <1>5
<1>7. edges' = edges \cup {b}
  BY <1>2, <1>5
<1>8. IsFiniteSet(edges \cup {b})
  BY <1>3, FS_AddElement DEF RoadsOk
<1>9. RoadsOk(edges)'
  BY <1>3, <1>6, <1>7, <1>8 DEF RoadsOk
<1> QED
  BY <1>1, <1>9 DEF VoronoiInv, ChainOk

LEMMA ComputeChainKeeps ==
  ASSUME Voronoi!VoronoiAssumption, VoronoiInv, Voronoi!ComputeChain
  PROVE  VoronoiInv'
<1> DEFINE west == Voronoi!Least(tiles) - BUFFER
           east == Voronoi!Least(tiles) + CORE + BUFFER
           of == Voronoi!Components(edges)
           X == UNION {{e.src, e.dst} : e \in edges}
           A == RoadArcs(edges)
<1>1. PICK snaps : snaps = [a \in Voronoi!AnchorsIn(west, east) |-> Voronoi!SnapsOf(a, of)]
  OBVIOUS
<1>2. PICK dist : dist = Voronoi!Searched(snaps)
  OBVIOUS
<1>3. PICK S : S = UNION Voronoi!Range(snaps)
  OBVIOUS
<1>4. /\ pc' = "merge" /\ table' = table /\ edges' = edges /\ merged' = merged
      /\ \E pred \in Voronoi!Parents(S, dist, Voronoi!Arcs(edges), None) :
            /\ label' = Voronoi!Labels(dist, pred, snaps)
            /\ found' = Voronoi!ChainEdges(dist, pred, Voronoi!Labels(dist, pred, snaps))
  BY <1>1, <1>2, <1>3, Zenon DEF Voronoi!ComputeChain
<1>5. PICK pred \in Voronoi!Parents(S, dist, Voronoi!Arcs(edges), None) :
            /\ label' = Voronoi!Labels(dist, pred, snaps)
            /\ found' = Voronoi!ChainEdges(dist, pred, Voronoi!Labels(dist, pred, snaps))
  BY <1>4
<1>6. RoadsOk(edges)
  BY DEF VoronoiInv
<1>7. /\ IsFiniteSet(X) /\ X \in SUBSET DOMAIN Lies
      /\ A \in ArcsOf(X) /\ IsFiniteSet(A)
      /\ \A a \in A : \E e \in edges : {a.from, a.to} = {e.src, e.dst} /\ e.length <= a.cost
      /\ \A e \in edges : \E a \in A : a.from = e.src /\ a.to = e.dst
      /\ \A e \in edges : \E a \in A : a.from = e.dst /\ a.to = e.src
  BY <1>6, RoadArcsAre
<1>8. S \in SUBSET X /\ DOMAIN snaps \in SUBSET Anchors
  <2>1. Voronoi!VertsOf(edges) = X
    BY DEF Voronoi!VertsOf, Voronoi!Ends
  <2>2. DOMAIN of = X
    BY <2>1 DEF Voronoi!Components
  <2>3. \A a, o : Voronoi!SnapsOf(a, o) \subseteq DOMAIN o
    BY DEF Voronoi!SnapsOf
  <2>4. Voronoi!AnchorsIn(west, east) \in SUBSET Anchors
    BY DEF Voronoi!AnchorsIn
  <2> HIDE DEF west, east, of, X
  <2> QED
    BY <2>2, <2>3, <2>4, <1>1, <1>3 DEF Voronoi!Range
<1> HIDE DEF west, east, of, X, A
<1>9. dist = CostsOf(S, A, CostSum(A))
  BY <1>2, <1>3, VoronoiIs DEF A
<1>10. /\ S \subseteq DOMAIN dist /\ DOMAIN dist \in SUBSET X
       /\ \A v \in DOMAIN dist : dist[v] \in Nat
       /\ \A a \in A : a.from \in DOMAIN dist => a.to \in DOMAIN dist
  <2>1. Spreads(CostsOf(S, A, CostSum(A)), S, A, X)
    BY <1>7, <1>8, SearchSpreads
  <2> QED
    BY <2>1, <1>9 DEF Spreads
<1>11. /\ DOMAIN pred = DOMAIN dist /\ LeadsTo(pred, S)
       /\ \A v \in DOMAIN dist : pred[v] # None =>
            \E a \in A : a.from = pred[v] /\ a.to = v /\ dist[pred[v]] + a.cost = dist[v]
  <2>1. pred \in Trees!Parents(S, dist, Voronoi!Arcs(edges), None)
    BY ParentsSame
  <2>2. IsFiniteSet(DOMAIN dist)
    BY <1>7, <1>10, FS_Subset
  <2>3. None \notin DOMAIN dist
    <3>1. None \notin Int /\ DOMAIN Lies \subseteq Int
      BY DEF Voronoi!VoronoiAssumption
    <3> QED
      BY <3>1, <1>7, <1>10
  <2>4. /\ DOMAIN pred = DOMAIN dist
        /\ \A v \in DOMAIN dist : /\ pred[v] \in DOMAIN dist \cup {None}
                                  /\ pred[v] = None => v \in S
                                  /\ pred[v] # None => \E a \in Voronoi!Arcs(edges) :
                                        a.from = pred[v] /\ a.to = v /\ dist[pred[v]] + a.cost = dist[v]
        /\ Downwards(pred, None)
    BY <2>1, <2>2, <2>3, ParentsAre
  <2>5. Voronoi!Arcs(edges) = A
    BY VoronoiIs DEF A
  <2> QED
    BY <2>2, <2>3, <2>4, <2>5 DEF LeadsTo
<1>12. PICK labels : labels = Voronoi!Labels(dist, pred, snaps)
  OBVIOUS
<1> DEFINE Kept == {x \in DOMAIN pred : \A y \in Voronoi!Range(Voronoi!WalkToSnap(x, pred)) :
                                            Voronoi!InTurn(y, dist, pred)}
<1>13. /\ DOMAIN labels = Kept /\ DOMAIN labels \subseteq DOMAIN dist
       /\ \A v \in DOMAIN labels : labels[v] \in Int
  <2>1. /\ DOMAIN labels = Kept
        /\ \A v \in Kept :
             labels[v] = Voronoi!OwnerOf(Voronoi!Last(Voronoi!WalkToSnap(v, pred)), snaps)
    BY <1>12 DEF Voronoi!Labels
  <2>2. ASSUME NEW v \in DOMAIN pred
        PROVE  Voronoi!OwnerOf(Voronoi!Last(Voronoi!WalkToSnap(v, pred)), snaps) \in Anchors
    <3>1. PICK s : s = Voronoi!Last(Voronoi!WalkToSnap(v, pred))
      OBVIOUS
    <3>2. s \in S
      BY <3>1, <1>11, SnapIs
    <3>3. s \in DOMAIN Lies /\ s \in UNION Voronoi!Range(snaps)
      BY <3>2, <1>3, <1>7, <1>8
    <3>4. Voronoi!OwnerOf(s, snaps) \in Anchors
      BY <3>3, <1>8, OwnerIs
    <3> QED
      BY <3>1, <3>4
  <2>3. Anchors \subseteq Int
    BY DEF Voronoi!VoronoiAssumption
  <2> QED
    BY <2>1, <2>2, <2>3, <1>11
<1> HIDE DEF Kept
<1>14. PICK C : C = Voronoi!ChainEdges(dist, pred, labels)
  OBVIOUS
<1>15. /\ ChainOk(C) /\ OnePerPair(C)
       /\ \A e \in Voronoi!Border(labels) : Linked(labels[e.src], labels[e.dst], C)
  BY <1>6, <1>10, <1>13, <1>14, ChainIs
<1>16. label' = labels /\ found' = C
  BY <1>5, <1>12, <1>14
<1>17. ASSUME NEW e \in edges
       PROVE  {e.src, e.dst} \subseteq DOMAIN labels /\ labels[e.src] # labels[e.dst] =>
                    Linked(labels[e.src], labels[e.dst], C)
  BY <1>15 DEF Voronoi!Border, Voronoi!Ends
<1>18. SideBySide(found)'
  BY <1>4, <1>16, <1>17 DEF SideBySide, Linked
<1>19. Spanned'
  <2> DEFINE K(u) == Voronoi!Component(u, edges)
  <2> SUFFICES ASSUME NEW u \in DOMAIN labels, \A e \in edges : e.src \in K(u) => e.length > 0
               PROVE  K(u) \subseteq DOMAIN labels
    <3>1. \A x : Voronoi!Component(x, edges)' = K(x)
      BY Zenon, <1>4, VoronoiIs DEF Voronoi!Component
    <3> QED
      BY <3>1, <1>4, <1>16 DEF Spanned
  <2>1. ReachedBy(K(u), {u}, A)
    <3>1. K(u) = Voronoi!ReachedFrom({u}, A)
      BY Zenon, VoronoiIs DEF Voronoi!Component, A
    <3> QED
      BY <3>1, <1>7, ReachIs
  <2> HIDE DEF K
  <2>2. /\ \A a \in A : a.from \in K(u) => a.to \in K(u)
        /\ K(u) \subseteq DOMAIN dist
    BY <2>1, <1>10, <1>13 DEF ReachedBy
  <2>3. ASSUME NEW a \in A, a.to \in K(u)  PROVE a.from \in K(u) /\ a.cost > 0
    <3>1. PICK e \in edges : {a.from, a.to} = {e.src, e.dst} /\ e.length <= a.cost
      BY <1>7
    <3>2. PICK b \in A : b.from = a.to /\ b.to = a.from
      <4>1. (a.from = e.src /\ a.to = e.dst) \/ (a.from = e.dst /\ a.to = e.src)
        BY <3>1
      <4> QED
        BY <4>1, <1>7
    <3>3. a.from \in K(u)
      BY <3>2, <2>2, <2>3
    <3>4. e.src \in K(u) /\ e.length \in Nat /\ a.cost \in Nat
      BY <3>1, <3>3, <2>3, <1>6, <1>7 DEF RoadsOk, ArcsOf
    <3> QED
      BY <3>1, <3>3, <3>4
  <2>4. ASSUME NEW x \in K(u)
        PROVE  (pred[x] # None => pred[x] \in K(u)) /\ Voronoi!InTurn(x, dist, pred)
    <3>1. CASE pred[x] = None
      BY <3>1 DEF Voronoi!InTurn
    <3>2. CASE pred[x] # None
      <4>1. PICK a \in A : a.from = pred[x] /\ a.to = x /\ dist[pred[x]] + a.cost = dist[x]
        BY <3>2, <2>2, <1>11
      <4>2. pred[x] \in K(u) /\ a.cost > 0 /\ a.cost \in Nat
        BY <4>1, <2>3, <1>7 DEF ArcsOf
      <4>3. dist[pred[x]] \in Nat /\ dist[x] \in Nat
        BY <4>2, <2>2, <1>10
      <4> QED
        BY <4>1, <4>2, <4>3 DEF Voronoi!InTurn
    <3> QED
      BY <3>1, <3>2
  <2>5. ASSUME NEW v \in K(u)  PROVE v \in Kept
    <3>1. v \in DOMAIN pred
      BY <2>2, <1>11
    <3>2. Voronoi!Range(Voronoi!WalkToSnap(v, pred)) \subseteq K(u)
      BY <3>1, <2>4, <1>11, SnapIs
    <3> QED
      BY <3>1, <3>2, <2>4 DEF Kept
  <2> QED
    BY <2>5, <1>13
<1>20. ChainOk(found)' /\ OnePerPair(found)'
  BY <1>15, <1>16 DEF ChainOk, OnePerPair
<1>21. ChainOk(merged)' /\ RoadsOk(edges)' /\ (table \in RowSets)'
  BY <1>4 DEF VoronoiInv, ChainOk, RoadsOk
<1> QED
  BY <1>4, <1>18, <1>20, <1>21, <1>19 DEF VoronoiInv

LEMMA MergeTileKeeps ==
  ASSUME VoronoiInv, Voronoi!MergeTile
  PROVE  VoronoiInv'
<1>1. /\ pc = "merge" /\ pc' = "tiles" /\ table' = table /\ edges' = edges /\ label' = label
      /\ merged' = {e \in merged : ~\E f \in found : Voronoi!SamePair(e, f) /\ f.cost < e.cost} \cup
                   {f \in found : ~\E e \in merged : Voronoi!SamePair(e, f) /\ e.cost <= f.cost}
  BY DEF Voronoi!MergeTile
<1>2. PICK M : M = {e \in merged : ~\E f \in found : Voronoi!SamePair(e, f) /\ f.cost < e.cost} \cup
                   {f \in found : ~\E e \in merged : Voronoi!SamePair(e, f) /\ e.cost <= f.cost}
  OBVIOUS
<1>3. /\ ChainOk(merged) /\ ChainOk(found) /\ OnePerPair(found) /\ SideBySide(found)
      /\ RoadsOk(edges) /\ table \in RowSets /\ Spanned
  BY <1>1 DEF VoronoiInv
<1>4. ChainOk(M)
  <2>1. M \subseteq merged \cup found
    BY <1>2
  <2>2. IsFiniteSet(merged \cup found)
    BY <1>3, FS_Union DEF ChainOk
  <2>3. IsFiniteSet(M)
    BY <2>1, <2>2, FS_Subset
  <2> QED
    BY <2>1, <2>3, <1>3 DEF ChainOk
<1>5. ASSUME NEW f \in found  PROVE \E e \in M : Voronoi!SamePair(e, f)
  <2>1. CASE \E e \in merged : Voronoi!SamePair(e, f) /\ e.cost <= f.cost
    <3>1. PICK e \in merged : Voronoi!SamePair(e, f) /\ e.cost <= f.cost
      BY <2>1
    <3>2. \A g \in found : Voronoi!SamePair(e, g) => g = f
      BY <3>1, <1>3 DEF OnePerPair, Voronoi!SamePair
    <3>3. e.cost \in Nat /\ f.cost \in Nat
      BY <1>3 DEF ChainOk
    <3>4. e \in M
      BY <3>1, <3>2, <3>3, <1>2
    <3> QED
      BY <3>1, <3>4
  <2>2. CASE ~\E e \in merged : Voronoi!SamePair(e, f) /\ e.cost <= f.cost
    BY <2>2, <1>2 DEF Voronoi!SamePair
  <2> QED
    BY <2>1, <2>2
<1>6. \A x, y : Linked(x, y, found) => Linked(x, y, M)
  BY <1>5 DEF Linked, Voronoi!SamePair
<1>7. SideBySide(M)
  BY <1>3, <1>6 DEF SideBySide
<1>8. merged' = M
  BY <1>1, <1>2
<1>9. SideBySide(merged)' /\ ChainOk(merged)' /\ RoadsOk(edges)' /\ (table \in RowSets)'
  BY <1>1, <1>3, <1>4, <1>7, <1>8 DEF SideBySide, Linked, ChainOk, RoadsOk
<1>10. Spanned'
  BY <1>1, <1>3, SpannedStays
<1> QED
  BY <1>1, <1>9, <1>10 DEF VoronoiInv

\* Whatever neighbours are, what a road joins is joined.
LEMMA RoadsJoin == VoronoiInv => Voronoi!RoadsStayJoined
<1> DEFINE there(e) == [from |-> e.a, to |-> e.b, cost |-> 0]
           back(e) == [from |-> e.b, to |-> e.a, cost |-> 0]
           P == {there(e) : e \in merged}
           Q == {back(e) : e \in merged}
           hops == P \cup Q
           marked == {e \in edges : {e.src, e.dst} \subseteq DOMAIN label}
           fine(u) == \A e \in {x \in edges : x.src \in Voronoi!Component(u, edges)} : e.length > 0
<1>0. ASSUME VoronoiInv, pc = "tiles", NEW u \in DOMAIN label, fine(u)
      PROVE  Voronoi!Component(u, edges) \subseteq DOMAIN label
  BY <1>0 DEF VoronoiInv, Spanned
<1> SUFFICES ASSUME VoronoiInv, pc = "tiles",
                    NEW u \in DOMAIN label, NEW v \in DOMAIN label, v \in Voronoi!Component(u, marked)
             PROVE  label[v] \in Voronoi!ReachedFrom({label[u]}, hops)
  <2>1. Voronoi!RoadsStayJoined <=>
          (pc = "tiles" => \A u \in DOMAIN label :
                /\ \A v \in DOMAIN label \cap Voronoi!Component(u, marked) :
                        label[v] \in Voronoi!ReachedFrom({label[u]}, hops)
                /\ fine(u) => Voronoi!Component(u, edges) \subseteq DOMAIN label)
    BY Zenon DEF Voronoi!RoadsStayJoined, Voronoi!Apart, Voronoi!Ends
  <2> HIDE DEF hops, marked, fine
  <2> QED
    BY <2>1, <1>0
<1>1. ChainOk(merged) /\ SideBySide(merged) /\ RoadsOk(edges)
  BY DEF VoronoiInv
<1>2. IsFiniteSet(hops)
  <2>1. IsFiniteSet(merged)
    BY <1>1 DEF ChainOk
  <2> HIDE DEF there, back
  <2>2. [e \in merged |-> there(e)] \in Surjection(merged, P) /\ [e \in merged |-> back(e)] \in Surjection(merged, Q)
    BY DEF Surjection
  <2> HIDE DEF P, Q
  <2>3. IsFiniteSet(P) /\ IsFiniteSet(Q)
    BY <2>1, <2>2, FS_Surjection
  <2> QED
    BY <2>3, FS_Union
<1>3. \A c \in merged : /\ \E a \in hops : a.from = c.a /\ a.to = c.b
                        /\ \E a \in hops : a.from = c.b /\ a.to = c.a
  <2> TAKE c \in merged
  <2>1. there(c) \in hops /\ back(c) \in hops
    OBVIOUS
  <2> HIDE DEF hops
  <2> QED
    BY <2>1
<1> HIDE DEF hops
<1>4. PICK R : R = Voronoi!ReachedFrom({label[u]}, hops)
  OBVIOUS
<1>5. label[u] \in R /\ \A a \in hops : a.from \in R => a.to \in R
  BY <1>2, <1>4, ReachIs DEF ReachedBy
<1> DEFINE W == {w \in DOMAIN label : label[w] \in R}
<1>6. /\ IsFiniteSet(RoadArcs(marked))
      /\ \A a \in RoadArcs(marked) : \E e \in marked : {a.from, a.to} = {e.src, e.dst}
  <2>1. RoadsOk(marked)
    <3>1. marked \subseteq edges
      OBVIOUS
    <3> QED
      BY <3>1, <1>1, FS_Subset DEF RoadsOk
  <2> HIDE DEF marked
  <2> QED
    BY <2>1, RoadArcsAre
<1>7. ASSUME NEW a \in RoadArcs(marked), a.from \in W  PROVE a.to \in W
  <2>1. PICK e \in marked : {a.from, a.to} = {e.src, e.dst}
    BY <1>6
  <2>2. /\ e.src \in DOMAIN label /\ e.dst \in DOMAIN label
        /\ label[e.src] # label[e.dst] =>
                \E c \in merged : {c.a, c.b} = {label[e.src], label[e.dst]}
    BY <1>1 DEF SideBySide, Linked
  <2>3. a.from \in DOMAIN label /\ a.to \in DOMAIN label /\ label[a.from] \in R
    BY <2>1, <2>2, <1>7
  <2>4. CASE label[a.from] = label[a.to]
    BY <2>3, <2>4
  <2>5. CASE label[a.from] # label[a.to]
    <3>1. (a.from = e.src /\ a.to = e.dst) \/ (a.from = e.dst /\ a.to = e.src)
      BY <2>1, <2>5
    <3>2. PICK c \in merged : {c.a, c.b} = {label[a.from], label[a.to]}
      BY <2>2, <2>3, <2>5, <3>1
    <3>3. (c.a = label[a.from] /\ c.b = label[a.to]) \/ (c.b = label[a.from] /\ c.a = label[a.to])
      BY <3>2, <2>5
    <3>4. label[a.to] \in R
      BY <3>3, <1>3, <1>5, <2>3
    <3> QED
      BY <2>3, <3>4
  <2> QED
    BY <2>4, <2>5
<1> HIDE DEF marked
<1>8. Voronoi!Component(u, marked) \subseteq W
  <2>1. Voronoi!Component(u, marked) = Voronoi!ReachedFrom({u}, RoadArcs(marked))
    BY Zenon, VoronoiIs DEF Voronoi!Component
  <2>2. u \in W
    BY <1>5
  <2> HIDE DEF W
  <2>3. {u} \subseteq W /\ \A a \in RoadArcs(marked) : a.from \in W => a.to \in W
    BY <1>7, <2>2
  <2>4. Voronoi!ReachedFrom({u}, RoadArcs(marked)) \subseteq W
    BY <1>6, <2>3, ReachIs DEF ReachedBy
  <2> QED
    BY <2>1, <2>4
<1> QED
  BY <1>4, <1>8

(* RoadsStayJoined: whenever a tile has been merged, two anchors whose      *)
(* vertices the roads of that tile connect, over vertices that have a       *)
(* label, are joined in the chain graph, through others if need be,         *)
(* whatever tiles were merged before it.  All that is connected has a       *)
(* label, where no bridge among the roads joins two vertices in one place;  *)
(* with one, a vertex may be labelled before the one it gets its label from *)
(* (build_way_graph.py: compute_chain_graph, and the merge in main).        *)
THEOREM RoadsKeepTogether ==
  Voronoi!VoronoiAssumption => (Voronoi!Spec => []Voronoi!RoadsStayJoined)
<1> SUFFICES ASSUME Voronoi!VoronoiAssumption
             PROVE  Voronoi!Spec => []Voronoi!RoadsStayJoined
  OBVIOUS
<1>1. Voronoi!Init => VoronoiInv
  BY VoronoiBegins
<1>2. VoronoiInv /\ [Voronoi!Next]_(Voronoi!vars) => VoronoiInv'
  BY LoadCellsKeeps, LoadSubgraphKeeps, BridgeGapKeeps, ComputeChainKeeps, MergeTileKeeps,
     WriteOutputsKeeps, VoronoiRests DEF Voronoi!Next
<1>3. VoronoiInv => Voronoi!RoadsStayJoined
  BY RoadsJoin
<1> QED
  BY <1>1, <1>2, <1>3, PTL DEF Voronoi!Spec
---------------------------------------------------------------------------
(* Searches where all arcs cost something: ways with both their ends, what  *)
(* is traced back through a search, and the sums of a matrix.               *)

\* Triples of where a way begins, where it ends and what it costs.
TriplesOf(X) == SUBSET (X \X X \X Nat)
Extends(C, A) == \A t \in C, a \in A : t[2] = a.from => <<t[1], a.to, t[3] + a.cost>> \in C
RoutesOf(A, X) ==
    {t \in X \X X \X Nat : \A C \in TriplesOf(X) :
        (\A x \in X : <<x, x, 0>> \in C) /\ Extends(C, A) => t \in C}

LEMMA TripleIs ==
  ASSUME NEW X, NEW t \in X \X X \X Nat
  PROVE  t[1] \in X /\ t[2] \in X /\ t[3] \in Nat /\ t = <<t[1], t[2], t[3]>>
OBVIOUS

LEMMA RoutesAre ==
  ASSUME NEW X, NEW A \in ArcsOf(X)
  PROVE  /\ RoutesOf(A, X) \in TriplesOf(X)
         /\ \A x \in X : <<x, x, 0>> \in RoutesOf(A, X)
         /\ Extends(RoutesOf(A, X), A)
<1> DEFINE R == RoutesOf(A, X)
<1>1. R \in TriplesOf(X)
  BY DEF RoutesOf, TriplesOf
<1>2. ASSUME NEW x \in X  PROVE <<x, x, 0>> \in R
  BY DEF RoutesOf
<1>3. ASSUME NEW t \in R, NEW a \in A, t[2] = a.from
      PROVE  <<t[1], a.to, t[3] + a.cost>> \in R
  <2>1. t \in X \X X \X Nat
    BY <1>1 DEF TriplesOf
  <2>2. a.to \in X /\ a.cost \in Nat
    BY DEF ArcsOf
  <2>3. t[1] \in X /\ t[3] \in Nat
    BY <2>1, TripleIs
  <2>4. <<t[1], a.to, t[3] + a.cost>> \in X \X X \X Nat
    BY <2>2, <2>3
  <2>5. ASSUME NEW C \in TriplesOf(X), \A x \in X : <<x, x, 0>> \in C, Extends(C, A)
        PROVE  <<t[1], a.to, t[3] + a.cost>> \in C
    <3>1. t \in C
      BY <2>5 DEF RoutesOf
    <3> QED
      BY <3>1, <2>5, <1>3 DEF Extends
  <2> QED
    BY <2>4, <2>5 DEF RoutesOf
<1> HIDE DEF R
<1>4. Extends(R, A)
  BY <1>3 DEF Extends
<1> QED
  BY <1>1, <1>2, <1>4 DEF R

\* Ways also grow at their beginning.
LEMMA RoutesGrow ==
  ASSUME NEW X, NEW A \in ArcsOf(X), NEW t \in RoutesOf(A, X), NEW a \in A, a.to = t[1]
  PROVE  <<a.from, t[2], t[3] + a.cost>> \in RoutesOf(A, X)
<1> DEFINE R == RoutesOf(A, X)
           C == {r \in X \X X \X Nat :
                    \A b \in A : b.to = r[1] => <<b.from, r[2], r[3] + b.cost>> \in R}
<1>1. /\ R \in TriplesOf(X)
      /\ \A x \in X : <<x, x, 0>> \in R
      /\ \A r \in R, b \in A : r[2] = b.from => <<r[1], b.to, r[3] + b.cost>> \in R
  BY RoutesAre DEF Extends
<1>2. \A b \in A : b.from \in X /\ b.to \in X /\ b.cost \in Nat
  BY DEF ArcsOf
<1> HIDE DEF R
<1>3. C \in TriplesOf(X)
  BY DEF TriplesOf
<1>4. ASSUME NEW x \in X  PROVE <<x, x, 0>> \in C
  <2>1. <<x, x, 0>> \in X \X X \X Nat
    OBVIOUS
  <2>2. ASSUME NEW b \in A, b.to = x  PROVE <<b.from, x, 0 + b.cost>> \in R
    <3>1. <<b.from, b.from, 0>> \in R
      BY <1>1, <1>2
    <3>2. <<b.from, b.to, 0 + b.cost>> \in R
      BY <3>1, <1>1
    <3> QED
      BY <3>2, <2>2
  <2> QED
    BY <2>1, <2>2
<1>5. ASSUME NEW r \in C, NEW b \in A, r[2] = b.from
      PROVE  <<r[1], b.to, r[3] + b.cost>> \in C
  <2>1. r[1] \in X /\ r[3] \in Nat /\ b.to \in X /\ b.cost \in Nat
    BY <1>2, TripleIs
  <2>2. <<r[1], b.to, r[3] + b.cost>> \in X \X X \X Nat
    BY <2>1
  <2>3. ASSUME NEW e \in A, e.to = r[1]  PROVE <<e.from, b.to, (r[3] + b.cost) + e.cost>> \in R
    <3>1. <<e.from, r[2], r[3] + e.cost>> \in R
      BY <2>3
    <3>2. <<e.from, b.to, (r[3] + e.cost) + b.cost>> \in R
      BY <3>1, <1>1, <1>5
    <3>3. (r[3] + e.cost) + b.cost = (r[3] + b.cost) + e.cost
      BY <2>1, <1>2
    <3> QED
      BY <3>2, <3>3
  <2> QED
    BY <2>2, <2>3
<1>6. t \in C
  <2>1. Extends(C, A)
    <3> HIDE DEF C
    <3> QED BY <1>5 DEF Extends
  <2> HIDE DEF C
  <2> QED
    BY <2>1, <1>3, <1>4 DEF RoutesOf
<1> QED
  BY <1>6 DEF R

\* Each arc has one that leads back at the same cost.
BothWays(A) == \A a \in A : \E b \in A : b.from = a.to /\ b.to = a.from /\ b.cost = a.cost

\* Then each way has one that leads back.
LEMMA RoutesBack ==
  ASSUME NEW X, NEW A \in ArcsOf(X), BothWays(A), NEW t \in RoutesOf(A, X)
  PROVE  <<t[2], t[1], t[3]>> \in RoutesOf(A, X)
<1> DEFINE R == RoutesOf(A, X)
           C == {r \in X \X X \X Nat : <<r[2], r[1], r[3]>> \in R}
<1>1. C \in TriplesOf(X)
  BY DEF TriplesOf
<1>2. ASSUME NEW x \in X  PROVE <<x, x, 0>> \in C
  <2>1. <<x, x, 0>> \in R
    BY RoutesAre
  <2> HIDE DEF R
  <2> QED
    BY <2>1
<1>3. ASSUME NEW r \in C, NEW a \in A, r[2] = a.from
      PROVE  <<r[1], a.to, r[3] + a.cost>> \in C
  <2>1. PICK b \in A : b.from = a.to /\ b.to = a.from /\ b.cost = a.cost
    BY DEF BothWays
  <2>2. <<r[2], r[1], r[3]>> \in R /\ b.to = r[2]
    BY <2>1, <1>3
  <2>3. <<b.from, r[1], r[3] + b.cost>> \in R
    BY <2>2, RoutesGrow
  <2>4. r[1] \in X /\ r[3] \in Nat /\ a.to \in X /\ a.cost \in Nat
    BY TripleIs DEF ArcsOf
  <2>5. <<r[1], a.to, r[3] + a.cost>> \in X \X X \X Nat
    BY <2>4
  <2> HIDE DEF R
  <2> QED
    BY <2>1, <2>3, <2>5
<1>4. t \in C
  <2>1. Extends(C, A)
    <3> HIDE DEF C
    <3> QED BY <1>3 DEF Extends
  <2> HIDE DEF C
  <2> QED
    BY <2>1, <1>1, <1>2 DEF RoutesOf
<1> QED
  BY <1>4

\* The least costs from some vertices are those of the cheapest such ways.
LEMMA RoutesCost ==
  ASSUME NEW X, NEW A \in ArcsOf(X), \A a \in A : a.cost > 0, NEW S \in SUBSET X,
         NEW D, NEW c, LeastIn(c, D, S, A)
  PROVE  /\ \A v \in D : \E s \in S : <<s, v, c[v]>> \in RoutesOf(A, X)
         /\ \A t \in RoutesOf(A, X) : t[1] \in S => t[2] \in D /\ c[t[2]] <= t[3]
<1> DEFINE R == RoutesOf(A, X)
<1>0. /\ S \subseteq D /\ c \in [D -> Nat] /\ \A s \in S : c[s] = 0
      /\ \A a \in A : a.from \in D => a.to \in D /\ c[a.to] <= c[a.from] + a.cost
      /\ \A v \in D \ S : \E a \in A : a.to = v /\ a.from \in D /\ c[v] = c[a.from] + a.cost
  BY DEF LeastIn
<1>1. /\ R \in TriplesOf(X)
      /\ \A x \in X : <<x, x, 0>> \in R
      /\ \A r \in R, b \in A : r[2] = b.from => <<r[1], b.to, r[3] + b.cost>> \in R
  BY RoutesAre DEF Extends
<1>2. \A a \in A : a.cost \in Nat /\ a.cost > 0
  BY DEF ArcsOf
<1> HIDE DEF R
<1> DEFINE Good == {v \in D : \E s \in S : <<s, v, c[v]>> \in R}
<1>3. ASSUME NEW v \in D, \A u \in D : c[u] < c[v] => u \in Good  PROVE v \in Good
  <2>1. CASE v \in S
    <3>1. <<v, v, 0>> \in R /\ c[v] = 0
      BY <2>1, <1>0, <1>1
    <3> QED
      BY <2>1, <3>1
  <2>2. CASE v \notin S
    <3>1. PICK a \in A : a.to = v /\ a.from \in D /\ c[v] = c[a.from] + a.cost
      BY <2>2, <1>0
    <3>2. c[a.from] \in Nat /\ c[v] \in Nat /\ c[a.from] < c[v]
      BY <3>1, <1>0, <1>2
    <3>3. PICK s \in S : <<s, a.from, c[a.from]>> \in R
      BY <3>1, <3>2, <1>3
    <3>4. <<s, a.to, c[a.from] + a.cost>> \in R
      BY <3>3, <1>1
    <3> QED
      BY <3>1, <3>4
  <2> QED
    BY <2>1, <2>2
<1>4. D \subseteq Good
  <2> HIDE DEF Good
  <2> QED BY <1>0, <1>3, ByCost
<1> DEFINE C == {r \in X \X X \X Nat : r[1] \in S => r[2] \in D /\ c[r[2]] <= r[3]}
<1>5. C \in TriplesOf(X)
  BY DEF TriplesOf
<1>6. ASSUME NEW x \in X  PROVE <<x, x, 0>> \in C
  <2>1. <<x, x, 0>> \in X \X X \X Nat
    OBVIOUS
  <2> QED
    BY <2>1, <1>0
<1>7. ASSUME NEW r \in C, NEW a \in A, r[2] = a.from
      PROVE  <<r[1], a.to, r[3] + a.cost>> \in C
  <2>1. r[1] \in X /\ r[3] \in Nat /\ a.to \in X /\ a.cost \in Nat
    BY TripleIs DEF ArcsOf
  <2>2. <<r[1], a.to, r[3] + a.cost>> \in X \X X \X Nat
    BY <2>1
  <2>3. ASSUME r[1] \in S  PROVE a.to \in D /\ c[a.to] <= r[3] + a.cost
    <3>1. a.from \in D /\ c[a.from] <= r[3]
      BY <2>3, <1>7
    <3>2. a.to \in D /\ c[a.to] <= c[a.from] + a.cost /\ c[a.from] \in Nat /\ c[a.to] \in Nat
      BY <3>1, <1>0
    <3> QED
      BY <3>1, <3>2, <2>1
  <2> QED
    BY <2>2, <2>3
<1>8. R \subseteq C
  <2>1. Extends(C, A)
    <3> HIDE DEF C
    <3> QED BY <1>7 DEF Extends
  <2> HIDE DEF C
  <2> QED
    BY <2>1, <1>5, <1>6 DEF RoutesOf, R
<1> QED
  BY <1>4, <1>8 DEF R

\* What a search with a limit answers: the least costs that do not exceed it.
LeastUpTo(d, c, D, limit) ==
    /\ DOMAIN d = {v \in D : c[v] <= limit}
    /\ \A v \in DOMAIN d : d[v] = c[v]

\* A limit takes away what costs more, and nothing else.
LEMMA LimitCuts ==
  ASSUME NEW X, NEW S \in SUBSET X, NEW A \in ArcsOf(X), IsFiniteSet(A), \A a \in A : a.cost > 0,
         NEW D, NEW c, LeastIn(c, D, S, A), NEW limit \in Nat
  PROVE  LeastUpTo(CostsOf(S, A, limit), c, D, limit)
<1> DEFINE d == CostsOf(S, A, limit)
           A2 == {a \in A : a.from \in D /\ c[a.from] + a.cost <= limit}
           D2 == {v \in D : c[v] <= limit}
           c2 == [v \in D2 |-> c[v]]
<1>0. /\ S \subseteq D /\ c \in [D -> Nat] /\ \A s \in S : c[s] = 0
      /\ \A a \in A : a.from \in D => a.to \in D /\ c[a.to] <= c[a.from] + a.cost
      /\ \A v \in D \ S : \E a \in A : a.to = v /\ a.from \in D /\ c[v] = c[a.from] + a.cost
  BY DEF LeastIn
<1>1. \A a \in A : a.cost \in Nat /\ a.cost > 0
  BY DEF ArcsOf
<1>2. A2 \subseteq A /\ A2 \in ArcsOf(X) /\ IsFiniteSet(A2)
  <2>1. A2 \subseteq A
    OBVIOUS
  <2>2. A2 \in ArcsOf(X)
    BY DEF ArcsOf
  <2> HIDE DEF A2
  <2> QED
    BY <2>1, <2>2, FS_Subset
<1>3. Exact(c2, D2, S, A2, limit)
  <2>1. S \subseteq D2 /\ c2 \in [D2 -> Nat] /\ \A s \in S : c2[s] = 0
    BY <1>0
  <2>2. ASSUME NEW a \in A2, a.from \in D2
        PROVE  a.to \in D2 /\ c2[a.to] <= c2[a.from] + a.cost
    <3>1. a.to \in D /\ c[a.to] <= c[a.from] + a.cost /\ c[a.from] + a.cost <= limit
      BY <1>0
    <3>2. c[a.to] \in Nat /\ c[a.from] \in Nat /\ a.cost \in Nat
      BY <3>1, <2>2, <1>0, <1>1
    <3> QED
      BY <3>1, <3>2, <2>2
  <2>3. ASSUME NEW v \in D2 \ S
        PROVE  \E a \in A2 : a.to = v /\ a.from \in D2 /\ c2[v] = c2[a.from] + a.cost
    <3>1. PICK a \in A : a.to = v /\ a.from \in D /\ c[v] = c[a.from] + a.cost
      BY <1>0
    <3>2. c[v] \in Nat /\ c[a.from] \in Nat /\ a.cost \in Nat /\ a.cost > 0 /\ c[v] <= limit
      BY <3>1, <1>0, <1>1
    <3>3. a \in A2 /\ a.from \in D2
      BY <3>1, <3>2
    <3> QED
      BY <3>1, <3>3
  <2>4. \A v \in D2 : c2[v] <= limit
    OBVIOUS
  <2>5. \A a \in A2 : a.cost > 0
    BY <1>1
  <2> HIDE DEF A2, D2, c2
  <2> QED
    BY <2>1, <2>2, <2>3, <2>4, <2>5 DEF Exact
<1>4. Agree(CostsOf(S, A2, limit), c2, D2)
  <2> HIDE DEF A2, D2, c2
  <2> QED BY <1>2, <1>3, SearchIsExact
<1>5. LET e == CostsOf(S, A2, limit) IN
      DOMAIN e \subseteq DOMAIN d /\ \A v \in DOMAIN e : e[v] \in Nat /\ d[v] \in Nat /\ d[v] <= e[v]
  <2> HIDE DEF A2
  <2> QED BY <1>2, SearchesCompare
<1>6. NoCheaper(d, c, D) /\ \A v \in DOMAIN d : d[v] <= limit
  <2>1. Unimproved(c, D, S, A)
    BY <1>0 DEF Unimproved
  <2> QED
    BY <2>1, SearchStays
<1> HIDE DEF d
<1>7. \A v \in DOMAIN d : v \in D /\ d[v] \in Nat /\ c[v] \in Nat /\ c[v] <= d[v] /\ d[v] <= limit
  BY <1>0, <1>6 DEF NoCheaper
<1>8. \A v \in D2 : v \in DOMAIN d /\ d[v] <= c[v] /\ d[v] \in Nat
  <2> HIDE DEF A2
  <2>1. \A v \in D2 : v \in DOMAIN CostsOf(S, A2, limit) /\ CostsOf(S, A2, limit)[v] = c[v]
    BY <1>4 DEF Agree
  <2> QED
    BY <2>1, <1>5
<1>9. DOMAIN d = D2
  <2>1. \A v \in DOMAIN d : v \in D2
    BY <1>7
  <2> QED
    BY <2>1, <1>8
<1>10. \A v \in DOMAIN d : d[v] = c[v]
  <2> TAKE v \in DOMAIN d
  <2>1. v \in D2
    BY <1>9
  <2> QED
    BY <2>1, <1>7, <1>8
<1> QED
  BY <1>9, <1>10 DEF LeastUpTo, d

---------------------------------------------------------------------------
\* Ways traced back from where they end

BeforeIn(x, dist, arcs) ==
    {u \in DOMAIN dist : \E a \in arcs : a.from = u /\ a.to = x /\ dist[u] + a.cost = dist[x]}
TracesBack(back, dist, arcs) ==
    back = [x \in DOMAIN dist |->
            IF dist[x] = 0 THEN {{x}}
            ELSE {W \cup {x} : W \in UNION {back[u] : u \in BeforeIn(x, dist, arcs)}}]
TracedTo(v, dist, arcs) == (CHOOSE back : TracesBack(back, dist, arcs))[v]

\* If all arcs cost something, tracing back comes to an end.
LEMMA TracesAre ==
  ASSUME NEW dist, NEW limit \in Nat, NEW arcs,
         \A v \in DOMAIN dist : dist[v] \in Nat /\ dist[v] <= limit,
         \A a \in arcs : a.cost \in Nat /\ a.cost > 0
  PROVE  \E back : TracesBack(back, dist, arcs)
<1> DEFINE D == DOMAIN dist
           Rhs(g, x) == IF dist[x] = 0 THEN {{x}}
                        ELSE {W \cup {x} : W \in UNION {g[u] : u \in BeforeIn(x, dist, arcs)}}
           Row(g, k) == \A x \in D : dist[x] < k => g[x] = Rhs(g, x)
           Good == {k \in Nat : \E g : Row(g, k)}
<1>1. \A x \in D : \A u \in BeforeIn(x, dist, arcs) : u \in D /\ dist[u] < dist[x]
  <2> TAKE x \in D
  <2> TAKE u \in BeforeIn(x, dist, arcs)
  <2>1. PICK a \in arcs : a.from = u /\ a.to = x /\ dist[u] + a.cost = dist[x]
    BY DEF BeforeIn
  <2>2. u \in D
    BY DEF BeforeIn
  <2>3. a.cost \in Nat /\ a.cost > 0 /\ dist[u] \in Nat /\ dist[x] \in Nat
    BY <2>2
  <2> QED
    BY <2>1, <2>2, <2>3
<1>2. ASSUME NEW g, NEW h, NEW x \in D, \A u \in BeforeIn(x, dist, arcs) : g[u] = h[u]
      PROVE  Rhs(g, x) = Rhs(h, x)
  <2>1. {g[u] : u \in BeforeIn(x, dist, arcs)} = {h[u] : u \in BeforeIn(x, dist, arcs)}
    BY <1>2
  <2> QED
    BY <2>1
<1>3. 0 \in Good
  <2>1. \A x \in D : ~(dist[x] < 0)
    OBVIOUS
  <2> QED
    BY <2>1
<1> HIDE DEF Rhs
<1>4. ASSUME NEW k \in 0..(limit + 1), k # 0, k - 1 \in Good  PROVE k \in Good
  <2>1. PICK g : Row(g, k - 1)
    BY <1>4
  <2> DEFINE h == [x \in D |-> Rhs(g, x)]
  <2>2. ASSUME NEW x \in D, dist[x] < k  PROVE h[x] = Rhs(h, x)
    <3>1. ASSUME NEW u \in BeforeIn(x, dist, arcs)  PROVE g[u] = h[u]
      <4>1. u \in D /\ dist[u] < dist[x]
        BY <1>1
      <4>2. dist[u] \in Nat /\ dist[x] \in Nat /\ k \in Nat
        BY <4>1
      <4>3. dist[u] < k - 1
        BY <4>1, <4>2, <2>2
      <4> QED
        BY <4>1, <4>3, <2>1
    <3> HIDE DEF h
    <3>2. Rhs(g, x) = Rhs(h, x)
      BY <3>1, <1>2
    <3> QED
      BY <3>2 DEF h
  <2>3. Row(h, k)
    <3> HIDE DEF h
    <3> QED BY <2>2
  <2> HIDE DEF Row, h
  <2> QED
    BY <2>3
<1>5. limit + 1 \in Good
  <2> HIDE DEF Good
  <2>1. 0..(limit + 1) \subseteq Good
    BY <1>3, <1>4, Upward
  <2> QED
    BY <2>1
<1>6. PICK f : Row(f, limit + 1)
  BY <1>5
<1> DEFINE back == [x \in D |-> f[x]]
<1>7. ASSUME NEW x \in D  PROVE f[x] = Rhs(back, x)
  <2>1. dist[x] < limit + 1
    OBVIOUS
  <2>2. f[x] = Rhs(f, x)
    BY <2>1, <1>6
  <2>3. \A u \in BeforeIn(x, dist, arcs) : f[u] = back[u]
    BY <1>1
  <2> HIDE DEF back
  <2>4. Rhs(f, x) = Rhs(back, x)
    BY <2>3, <1>2
  <2> QED
    BY <2>2, <2>4
<1>8. back = [x \in D |-> Rhs(back, x)]
  <2>1. [x \in D |-> f[x]] = [x \in D |-> Rhs(back, x)]
    <3> HIDE DEF back
    <3> QED BY <1>7
  <2> QED
    BY <2>1 DEF back
<1>9. TracesBack(back, dist, arcs)
  <2> HIDE DEF back
  <2> QED BY <1>8, Zenon DEF TracesBack, Rhs
<1> QED
  BY <1>9

\* A cheapest way to v: from each of its vertices one leads on to v at what is
\* left of the cost.
OnTheWay(way, v, dist, R) ==
    /\ v \in way
    /\ \A w \in way : /\ w \in DOMAIN dist /\ dist[w] <= dist[v]
                      /\ dist[w] = dist[v] => w = v
                      /\ <<w, v, dist[v] - dist[w]>> \in R

LEMMA TracedAre ==
  ASSUME NEW X, NEW A \in ArcsOf(X), \A a \in A : a.cost > 0, NEW limit \in Nat,
         NEW dist, DOMAIN dist \subseteq X,
         \A v \in DOMAIN dist : dist[v] \in Nat /\ dist[v] <= limit,
         NEW v \in DOMAIN dist, NEW way \in TracedTo(v, dist, A)
  PROVE  OnTheWay(way, v, dist, RoutesOf(A, X))
<1> DEFINE D == DOMAIN dist
           R == RoutesOf(A, X)
<1>1. \A a \in A : a.cost \in Nat /\ a.cost > 0
  BY DEF ArcsOf
<1>2. PICK back : TracesBack(back, dist, A) /\ \A x : TracedTo(x, dist, A) = back[x]
  <2>1. \E b : TracesBack(b, dist, A)
    BY <1>1, TracesAre
  <2> DEFINE b == CHOOSE b : TracesBack(b, dist, A)
  <2>2. TracesBack(b, dist, A)
    BY <2>1
  <2>3. \A x : TracedTo(x, dist, A) = b[x]
    BY DEF TracedTo
  <2> HIDE DEF b
  <2> QED
    BY <2>2, <2>3
<1>3. /\ \A x \in X : <<x, x, 0>> \in R
      /\ \A r \in R, b \in A : r[2] = b.from => <<r[1], b.to, r[3] + b.cost>> \in R
  BY RoutesAre DEF Extends
<1> HIDE DEF R
<1> DEFINE Fine(x) == \A W \in back[x] : OnTheWay(W, x, dist, R)
           Good == {x \in D : Fine(x)}
<1>4. ASSUME NEW x \in D, \A u \in D : dist[u] < dist[x] => u \in Good  PROVE x \in Good
  <2>1. back[x] = IF dist[x] = 0 THEN {{x}}
                  ELSE {W \cup {x} : W \in UNION {back[u] : u \in BeforeIn(x, dist, A)}}
    BY <1>2 DEF TracesBack
  <2>2. <<x, x, dist[x] - dist[x]>> \in R
    <3>1. dist[x] - dist[x] = 0
      OBVIOUS
    <3> QED
      BY <3>1, <1>3
  <2>3. ASSUME NEW W \in back[x]  PROVE OnTheWay(W, x, dist, R)
    <3>1. CASE dist[x] = 0
      BY <3>1, <2>1, <2>2, <2>3 DEF OnTheWay
    <3>2. CASE dist[x] # 0
      <4>1. PICK u \in BeforeIn(x, dist, A) : \E V \in back[u] : W = V \cup {x}
        BY <3>2, <2>1, <2>3
      <4>9. PICK V \in back[u] : W = V \cup {x}
        BY <4>1
      <4>2. PICK a \in A : a.from = u /\ a.to = x /\ dist[u] + a.cost = dist[x]
        BY DEF BeforeIn
      <4>3. u \in D /\ dist[u] \in Nat /\ dist[x] \in Nat /\ a.cost \in Nat /\ dist[u] < dist[x]
        BY <4>2, <1>1 DEF BeforeIn
      <4>4. OnTheWay(V, u, dist, R)
        BY <4>9, <4>3, <1>4
      <4>5. ASSUME NEW w \in V
            PROVE  w \in D /\ dist[w] < dist[x] /\ <<w, x, dist[x] - dist[w]>> \in R
        <5>1. w \in D /\ dist[w] <= dist[u] /\ <<w, u, dist[u] - dist[w]>> \in R /\ dist[w] \in Nat
          BY <4>4 DEF OnTheWay
        <5>2. <<w, a.to, (dist[u] - dist[w]) + a.cost>> \in R
          BY <5>1, <4>2, <1>3
        <5>3. (dist[u] - dist[w]) + a.cost = dist[x] - dist[w]
          BY <5>1, <4>2, <4>3
        <5> QED
          BY <5>1, <5>2, <5>3, <4>2, <4>3
      <4>6. \A w \in W : w \in V \/ w = x
        BY <4>9
      <4>7. x \in W
        BY <4>9
      <4>8. ASSUME NEW w \in V  PROVE dist[w] # dist[x] /\ dist[w] <= dist[x]
        <5>1. dist[w] < dist[x] /\ dist[w] \in Nat
          BY <4>5
        <5> QED
          BY <5>1, <4>3
      <4> QED
        BY <4>5, <4>6, <4>7, <4>8, <2>2 DEF OnTheWay
    <3> QED
      BY <3>1, <3>2
  <2> QED
    BY <2>3
<1>5. v \in Good
  <2> DEFINE c == [x \in D |-> dist[x]]
  <2>1. c \in [D -> Nat] /\ \A x \in D : c[x] = dist[x]
    OBVIOUS
  <2> HIDE DEF c, Good
  <2>2. \A x \in D : (\A u \in D : c[u] < c[x] => u \in Good) => x \in Good
    BY <2>1, <1>4
  <2>3. D \subseteq Good
    BY <2>1, <2>2, ByCost
  <2> QED
    BY <2>3
<1> QED
  BY <1>2, <1>5 DEF R

---------------------------------------------------------------------------
\* The matrix of some entries, each place the sum of those for it.
EntriesAt(E, u, v) == {e \in E : e.from = u /\ e.to = v}
SumAt(E, u, v) == CostSum(EntriesAt(E, u, v))
SummedUp(E) ==
    {[from |-> l[1], to |-> l[2], cost |-> SumAt(E, l[1], l[2])] : l \in {<<e.from, e.to>> : e \in E}}

LEMMA SummedUpIs ==
  ASSUME NEW X, NEW E, IsFiniteSet(E),
         \A e \in E : e.from \in X /\ e.to \in X /\ e.cost \in Nat /\ e.cost > 0
  PROVE  /\ SummedUp(E) \in ArcsOf(X) /\ IsFiniteSet(SummedUp(E))
         /\ \A a \in SummedUp(E) : a.cost > 0
         /\ \A a \in SummedUp(E) : \E e \in E :
                a = [from |-> e.from, to |-> e.to, cost |-> SumAt(E, e.from, e.to)]
         /\ \A e \in E : [from |-> e.from, to |-> e.to, cost |-> SumAt(E, e.from, e.to)] \in SummedUp(E)
<1> DEFINE arc(x) == [from |-> x.from, to |-> x.to, cost |-> SumAt(E, x.from, x.to)]
<1>1. ASSUME NEW x \in E
      PROVE  SumAt(E, x.from, x.to) \in Nat /\ SumAt(E, x.from, x.to) > 0
  <2> DEFINE P == EntriesAt(E, x.from, x.to)
             w == [y \in P |-> y.cost]
  <2>1. P \subseteq E /\ x \in P
    BY DEF EntriesAt
  <2> HIDE DEF P
  <2>2. IsFiniteSet(P) /\ \A y \in P : y.cost \in Nat
    BY <2>1, FS_Subset
  <2>3. PICK g : CostSum(P) = g[P] /\ SumsOf(g, P, w)
    BY <2>2, CostsAddUp
  <2>4. w \in [P -> Nat] /\ w[x] = x.cost
    BY <2>1, <2>2
  <2> HIDE DEF w
  <2>5. g[{} \cup {x}] = g[{}] + w[x] /\ g[{x}] <= g[P]
    <3>1. {} \in SUBSET P /\ x \in P \ {} /\ P \in SUBSET P /\ {x} \in SUBSET P
      BY <2>1
    <3>2. /\ \A t \in SUBSET P : \A y \in P \ t : g[t \cup {y}] = g[t] + w[y]
          /\ \A t \in SUBSET P : \A s \in SUBSET t : g[s] <= g[t]
      BY <2>2, <2>3, <2>4, SumsAddUp
    <3> QED
      BY <3>1, <3>2
  <2>6. g[{}] = 0 /\ g[P] \in Nat /\ g[{x}] \in Nat
    BY <2>1, <2>3 DEF SumsOf
  <2>7. {} \cup {x} = {x} /\ x.cost \in Nat /\ x.cost > 0
    OBVIOUS
  <2>8. g[{x}] = x.cost
    BY <2>4, <2>5, <2>6, <2>7
  <2> QED
    BY <2>3, <2>5, <2>6, <2>7, <2>8 DEF P, SumAt
<1>2. SummedUp(E) = {arc(x) : x \in E}
  <2>1. \A x : <<x.from, x.to>>[1] = x.from /\ <<x.from, x.to>>[2] = x.to
    OBVIOUS
  <2> DEFINE put(u, v) == [from |-> u, to |-> v, cost |-> SumAt(E, u, v)]
             L == {<<x.from, x.to>> : x \in E}
  <2>2. SummedUp(E) = {put(l[1], l[2]) : l \in L} /\ \A x : arc(x) = put(x.from, x.to)
    BY Zenon DEF SummedUp
  <2> HIDE DEF put, arc
  <2>3. ASSUME NEW a \in {put(l[1], l[2]) : l \in L}  PROVE a \in {put(x.from, x.to) : x \in E}
    <3>1. PICK l \in L : a = put(l[1], l[2])
      OBVIOUS
    <3>2. PICK x \in E : l = <<x.from, x.to>>
      OBVIOUS
    <3>3. a = put(x.from, x.to)
      BY <3>1, <3>2
    <3> QED
      BY <3>3
  <2>4. ASSUME NEW x \in E  PROVE put(x.from, x.to) \in {put(l[1], l[2]) : l \in L}
    <3>1. PICK l \in L : l = <<x.from, x.to>>
      OBVIOUS
    <3>2. put(x.from, x.to) = put(l[1], l[2])
      BY <3>1
    <3> QED
      BY <3>2
  <2> HIDE DEF L
  <2>5. {put(l[1], l[2]) : l \in L} = {put(x.from, x.to) : x \in E}
    BY <2>3, <2>4
  <2>6. {put(x.from, x.to) : x \in E} = {arc(x) : x \in E}
    BY <2>2
  <2> QED
    BY <2>2, <2>5, <2>6
<1>3. IsFiniteSet(SummedUp(E))
  <2> HIDE DEF arc
  <2>1. [x \in E |-> arc(x)] \in Surjection(E, {arc(x) : x \in E})
    BY DEF Surjection
  <2> QED
    BY <1>2, <2>1, FS_Surjection
<1>4. ASSUME NEW a \in SummedUp(E)
      PROVE  a \in [from : X, to : X, cost : Nat] /\ a.cost > 0 /\ \E x \in E : a = arc(x)
  <2>1. PICK x \in E : a = arc(x)
    BY <1>2
  <2>2. a \in [from : X, to : X, cost : Nat] /\ a.cost > 0
    BY <2>1, <1>1
  <2> HIDE DEF arc
  <2> QED
    BY <2>1, <2>2
<1>5. \A x \in E : arc(x) \in SummedUp(E)
  <2> HIDE DEF arc
  <2> QED BY <1>2
<1>6. SummedUp(E) \in ArcsOf(X)
  BY <1>4 DEF ArcsOf
<1> QED
  BY <1>3, <1>4, <1>5, <1>6

\* Entries that correspond one to one, at the same costs, have one sum.
LEMMA SumsMatch ==
  ASSUME NEW P, IsFiniteSet(P), \A e \in P : e.cost \in Nat,
         NEW Q, NEW f \in [P -> Q], \A y \in Q : \E x \in P : f[x] = y,
         \A x, y \in P : f[x] = f[y] => x = y,
         \A x \in P : f[x].cost = x.cost
  PROVE  CostSum(Q) = CostSum(P)
<1> DEFINE w == [x \in P |-> x.cost]
           v == [y \in Q |-> y.cost]
           Im(s) == {f[x] : x \in s}
<1>1. IsFiniteSet(Q) /\ \A y \in Q : y.cost \in Nat
  <2>1. f \in Surjection(P, Q)
    BY DEF Surjection
  <2>2. \A y \in Q : y.cost \in Nat
    <3> TAKE y \in Q
    <3>1. PICK x \in P : f[x] = y
      OBVIOUS
    <3> QED
      BY <3>1
  <2> QED
    BY <2>1, <2>2, FS_Surjection
<1>2. PICK g : CostSum(P) = g[P] /\ SumsOf(g, P, w)
  BY CostsAddUp
<1>3. PICK h : CostSum(Q) = h[Q] /\ SumsOf(h, Q, v)
  BY <1>1, CostsAddUp
<1>4. /\ w \in [P -> Nat] /\ v \in [Q -> Nat]
      /\ \A x \in P : v[f[x]] = w[x]
  BY <1>1
<1> HIDE DEF w, v
<1>5. /\ \A s \in SUBSET P : \A x \in P \ s : g[s \cup {x}] = g[s] + w[x]
      /\ \A s \in SUBSET Q : \A y \in Q \ s : h[s \cup {y}] = h[s] + v[y]
  <2>1. \A s \in SUBSET P : \A x \in P \ s : g[s \cup {x}] = g[s] + w[x]
    <3>1. IsFiniteSet(P) /\ w \in [P -> Nat] /\ SumsOf(g, P, w)
      BY <1>2, <1>4
    <3>2. /\ \A s \in SUBSET P : \A x \in P \ s : g[s \cup {x}] = g[s] + w[x]
          /\ \A t \in SUBSET P : \A s \in SUBSET t : g[s] <= g[t]
      BY <3>1, SumsAddUp
    <3> QED
      BY <3>2
  <2>2. \A s \in SUBSET Q : \A y \in Q \ s : h[s \cup {y}] = h[s] + v[y]
    <3>1. IsFiniteSet(Q) /\ v \in [Q -> Nat] /\ SumsOf(h, Q, v)
      BY <1>1, <1>3, <1>4
    <3>2. /\ \A s \in SUBSET Q : \A y \in Q \ s : h[s \cup {y}] = h[s] + v[y]
          /\ \A t \in SUBSET Q : \A s \in SUBSET t : h[s] <= h[t]
      BY <3>1, SumsAddUp
    <3> QED
      BY <3>2
  <2> QED
    BY <2>1, <2>2
<1> DEFINE c == [s \in SUBSET P |-> Cardinality(s)]
           Good == {s \in SUBSET P : h[Im(s)] = g[s]}
<1>6. c \in [SUBSET P -> Nat]
  BY FS_Subset, FS_CardinalityType
<1>7. ASSUME NEW s \in SUBSET P, \A t \in SUBSET P : c[t] < c[s] => t \in Good  PROVE s \in Good
  <2>1. CASE s = {}
    <3>1. Im(s) = {}
      BY <2>1
    <3> QED
      BY <2>1, <3>1, <1>2, <1>3 DEF SumsOf
  <2>2. CASE s # {}
    <3>1. PICK x \in s : TRUE
      BY <2>2
    <3> DEFINE t == s \ {x}
    <3>2. t \in SUBSET P /\ x \in P \ t /\ s = t \cup {x}
      OBVIOUS
    <3>3. c[t] < c[s]
      <4>1. IsFiniteSet(s)
        BY FS_Subset
      <4>2. Cardinality(t) = Cardinality(s) - 1 /\ Cardinality(s) \in Nat
        BY <4>1, FS_RemoveElement, FS_CardinalityType
      <4>3. c[t] = Cardinality(t) /\ c[s] = Cardinality(s)
        BY <3>2
      <4> HIDE DEF c, t
      <4> QED
        BY <4>2, <4>3
    <3>4. h[Im(t)] = g[t]
      BY <3>2, <3>3, <1>7
    <3>5. /\ Im(t) \in SUBSET Q /\ f[x] \in Q \ Im(t)
          /\ Im(s) = Im(t) \cup {f[x]}
      <4>1. Im(t) \in SUBSET Q /\ f[x] \in Q
        OBVIOUS
      <4>2. f[x] \notin Im(t)
        BY <3>2
      <4>3. Im(s) = Im(t) \cup {f[x]}
        BY <3>2
      <4> QED
        BY <4>1, <4>2, <4>3
    <3> HIDE DEF Im
    <3>6. h[Im(t) \cup {f[x]}] = h[Im(t)] + v[f[x]] /\ g[t \cup {x}] = g[t] + w[x] /\ v[f[x]] = w[x]
      BY <3>2, <3>5, <1>4, <1>5
    <3> HIDE DEF t
    <3>7. h[Im(s)] = g[s]
      BY <3>2, <3>4, <3>5, <3>6
    <3> QED
      BY <3>7
  <2> QED
    BY <2>1, <2>2
<1>8. P \in Good
  <2> HIDE DEF c, Good
  <2>1. SUBSET P \subseteq Good
    BY <1>6, <1>7, ByCost
  <2> QED
    BY <2>1
<1>9. Im(P) = Q
  OBVIOUS
<1> QED
  BY <1>2, <1>3, <1>8, <1>9

---------------------------------------------------------------------------
(***************************************************************************)
(* ProximityGraph: what replacing pairs leaves joined, whatever the roads, *)
(* anchors, discs and pairs to begin with, and however the rounds go.      *)
(***************************************************************************)
CONSTANTS Lanes, Disc, Air, CandidateSets, COST_CAP_MULT, DETOUR_RATIO_CUTOFF, MAX_ROUNDS
VARIABLES roads, seen, round, batches, batch, kept, dropped
Proximity == INSTANCE ProximityGraph WITH Roads <- Lanes

\* The roads as entries of a matrix, and the matrix.
Rides ==
    {[from |-> e.src, to |-> e.dst, cost |-> e.cost, of |-> e] :
        e \in {x \in roads : ~x.ferry /\ x.cost # -1}} \cup
    {[from |-> e.dst, to |-> e.src, cost |-> e.reverse_cost, of |-> e] :
        e \in {x \in roads : ~x.ferry /\ x.reverse_cost # -1}}
RideArcs == SummedUp(Rides)
RideEnds == UNION {{e.src, e.dst} : e \in roads}

LEMMA ProximityIs ==
  /\ Proximity!Arcs = RideArcs
  /\ \A sources, arcs, limit : Proximity!Costs(sources, arcs, limit) = CostsOf(sources, arcs, limit)
  /\ \A v, dist, arcs : Proximity!WaysTo(v, dist, arcs) = TracedTo(v, dist, arcs)
  /\ \A S, arcs : Proximity!ReachedFrom(S, arcs) = Voronoi!ReachedFrom(S, arcs)
<1>1. Proximity!Arcs = RideArcs
  BY Zenon DEF Proximity!Arcs, Proximity!Csr, Proximity!MapThenSumSet, Proximity!MapThenFoldSet,
               Proximity!Impassable, RideArcs, Rides, SummedUp, SumAt, EntriesAt, CostSum
<1>2. ASSUME NEW sources, NEW arcs, NEW limit
      PROVE  Proximity!Costs(sources, arcs, limit) = CostsOf(sources, arcs, limit)
  BY Zenon DEF Proximity!Costs, Proximity!Cheapest, Proximity!Cardinality,
               CostsOf, Priced, Searched, Ends, Stepped, Lowest, Cardinality
<1>3. ASSUME NEW v, NEW dist, NEW arcs
      PROVE  Proximity!WaysTo(v, dist, arcs) = TracedTo(v, dist, arcs)
  BY Zenon DEF Proximity!WaysTo, TracedTo, TracesBack, BeforeIn
<1>4. ASSUME NEW S, NEW arcs
      PROVE  Proximity!ReachedFrom(S, arcs) = Voronoi!ReachedFrom(S, arcs)
  BY Zenon DEF Proximity!ReachedFrom, Proximity!Cardinality, Voronoi!ReachedFrom, Voronoi!Cardinality
<1> QED
  BY <1>1, <1>2, <1>3, <1>4

LEMMA LanesAre ==
  ASSUME Proximity!ProximityAssumption
  PROVE  /\ IsFiniteSet(Lanes) /\ IsFiniteSet(Anchors) /\ \A C \in CandidateSets : IsFiniteSet(C)
         /\ \A e \in Lanes : /\ e.src \in Vertices /\ e.dst \in Vertices
                             /\ e.cost # -1 => e.cost \in Nat /\ e.cost > 0
                             /\ e.reverse_cost # -1 => e.reverse_cost \in Nat /\ e.reverse_cost > 0
         /\ Piers \subseteq Anchors /\ Anchors \subseteq Nat /\ 0 \notin Anchors
         /\ \A a \in Anchors : Disc[a] \subseteq Vertices
         /\ \A a, b \in Anchors \ Piers : a # b => Disc[a] \cap Disc[b] = {}
         /\ \A a, b \in Anchors : Air[<<a, b>>] \in Nat
         /\ COST_CAP_MULT \in Nat
<1>1. /\ Proximity!IsFiniteSet(Lanes) /\ Proximity!IsFiniteSet(Anchors)
      /\ \A C \in CandidateSets : Proximity!IsFiniteSet(C)
  BY DEF Proximity!ProximityAssumption
<1>2. IsFiniteSet(Lanes) /\ IsFiniteSet(Anchors) /\ \A C \in CandidateSets : IsFiniteSet(C)
  BY Zenon, <1>1 DEF Proximity!IsFiniteSet, IsFiniteSet
<1>3. /\ \A e \in Lanes : /\ {e.src, e.dst} \subseteq Vertices
                          /\ {e.cost, e.reverse_cost} \subseteq (Nat \ {0}) \cup {-1}
      /\ Piers \subseteq Anchors /\ Anchors \subseteq Nat \ {0}
      /\ \A a \in Anchors : Disc[a] \subseteq Vertices
      /\ \A a, b \in Anchors \ Piers : a # b => Disc[a] \cap Disc[b] = {}
      /\ \A p \in Anchors \X Anchors : Air[p] \in Nat
      /\ COST_CAP_MULT \in Nat
  BY DEF Proximity!ProximityAssumption, Proximity!Impassable
<1>4. ASSUME NEW e \in Lanes
      PROVE  /\ e.src \in Vertices /\ e.dst \in Vertices
             /\ e.cost # -1 => e.cost \in Nat /\ e.cost > 0
             /\ e.reverse_cost # -1 => e.reverse_cost \in Nat /\ e.reverse_cost > 0
  BY <1>3
<1>5. \A a, b \in Anchors : Air[<<a, b>>] \in Nat
  BY <1>3
<1> QED
  BY <1>2, <1>3, <1>4, <1>5

LEMMA RidesAre ==
  ASSUME Proximity!ProximityAssumption, roads \in SUBSET Lanes
  PROVE  /\ RideArcs \in ArcsOf(Vertices) /\ IsFiniteSet(RideArcs)
         /\ \A a \in RideArcs : a.cost > 0 /\ a.from \in RideEnds /\ a.to \in RideEnds
         /\ (\A e \in roads : Proximity!Even(e)) => BothWays(RideArcs)
<1> DEFINE There(e) == [from |-> e.src, to |-> e.dst, cost |-> e.cost, of |-> e]
           Back(e) == [from |-> e.dst, to |-> e.src, cost |-> e.reverse_cost, of |-> e]
           P == {x \in roads : ~x.ferry /\ x.cost # -1}
           Q == {x \in roads : ~x.ferry /\ x.reverse_cost # -1}
           T == {There(e) : e \in P}
           B == {Back(e) : e \in Q}
<1>0. \A e \in roads : /\ e.src \in Vertices /\ e.dst \in Vertices
                       /\ e.cost # -1 => e.cost \in Nat /\ e.cost > 0
                       /\ e.reverse_cost # -1 => e.reverse_cost \in Nat /\ e.reverse_cost > 0
  BY LanesAre
<1>1. Rides = T \cup B
  BY DEF Rides
<1>2. IsFiniteSet(Rides)
  <2>1. IsFiniteSet(P) /\ IsFiniteSet(Q)
    <3>1. IsFiniteSet(roads)
      BY LanesAre, FS_Subset
    <3> QED
      BY <3>1, FS_Subset
  <2> HIDE DEF There, Back, P, Q
  <2>2. [e \in P |-> There(e)] \in Surjection(P, T) /\ [e \in Q |-> Back(e)] \in Surjection(Q, B)
    BY DEF Surjection
  <2> HIDE DEF T, B
  <2>3. IsFiniteSet(T) /\ IsFiniteSet(B)
    BY <2>1, <2>2, FS_Surjection
  <2> QED
    BY <2>3, <1>1, FS_Union
<1>3. ASSUME NEW x \in Rides
      PROVE  /\ x.from \in Vertices /\ x.to \in Vertices /\ x.cost \in Nat /\ x.cost > 0
             /\ x.from \in RideEnds /\ x.to \in RideEnds
  <2>1. (\E e \in P : x = There(e)) \/ (\E e \in Q : x = Back(e))
    BY <1>1
  <2>2. CASE \E e \in P : x = There(e)
    <3>1. PICK e \in P : x = There(e)
      BY <2>2
    <3>2. e \in roads /\ x.from = e.src /\ x.to = e.dst /\ x.cost = e.cost /\ e.cost # -1
      BY <3>1
    <3> QED
      BY <3>2, <1>0 DEF RideEnds
  <2>3. CASE \E e \in Q : x = Back(e)
    <3>1. PICK e \in Q : x = Back(e)
      BY <2>3
    <3>2. e \in roads /\ x.from = e.dst /\ x.to = e.src /\ x.cost = e.reverse_cost /\ e.reverse_cost # -1
      BY <3>1
    <3> QED
      BY <3>2, <1>0 DEF RideEnds
  <2> QED
    BY <2>1, <2>2, <2>3
<1> DEFINE arc(x) == [from |-> x.from, to |-> x.to, cost |-> SumAt(Rides, x.from, x.to)]
<1>4. /\ RideArcs \in ArcsOf(Vertices) /\ IsFiniteSet(RideArcs)
      /\ \A a \in RideArcs : a.cost > 0
      /\ \A a \in RideArcs : \E x \in Rides : a = arc(x)
      /\ \A x \in Rides : arc(x) \in RideArcs
  <2>1. \A x \in Rides : x.from \in Vertices /\ x.to \in Vertices /\ x.cost \in Nat /\ x.cost > 0
    BY <1>3
  <2> QED
    BY <2>1, <1>2, SummedUpIs DEF RideArcs
<1>5. ASSUME NEW a \in RideArcs  PROVE a.from \in RideEnds /\ a.to \in RideEnds
  <2>1. PICK x \in Rides : a = arc(x)
    BY <1>4
  <2> QED
    BY <2>1, <1>3
<1> DEFINE Turned(x) == [from |-> x.to, to |-> x.from, cost |-> x.cost, of |-> x.of]
<1>6. ASSUME \A e \in roads : Proximity!Even(e)  PROVE BothWays(RideArcs)
  <2>1. \A e \in roads : e.cost = e.reverse_cost
    BY <1>6 DEF Proximity!Even
  <2>2. ASSUME NEW x \in Rides  PROVE Turned(x) \in Rides /\ Turned(Turned(x)) = x
    <3>1. (\E e \in P : x = There(e)) \/ (\E e \in Q : x = Back(e))
      BY <1>1
    <3>2. CASE \E e \in P : x = There(e)
      <4>1. PICK e \in P : x = There(e)
        BY <3>2
      <4>2. e \in Q /\ Turned(x) = Back(e) /\ Turned(Back(e)) = There(e)
        BY <4>1, <2>1
      <4>3. Back(e) \in B
        BY <4>2
      <4> HIDE DEF B, T, P, Q, Turned, There, Back
      <4> QED
        BY <4>1, <4>2, <4>3, <1>1
    <3>3. CASE \E e \in Q : x = Back(e)
      <4>1. PICK e \in Q : x = Back(e)
        BY <3>3
      <4>2. e \in P /\ Turned(x) = There(e) /\ Turned(There(e)) = Back(e)
        BY <4>1, <2>1
      <4>3. There(e) \in T
        BY <4>2
      <4> HIDE DEF B, T, P, Q, Turned, There, Back
      <4> QED
        BY <4>1, <4>2, <4>3, <1>1
    <3> QED
      BY <3>1, <3>2, <3>3
  <2> HIDE DEF T, B
  <2>3. ASSUME NEW a \in RideArcs
        PROVE  \E b \in RideArcs : b.from = a.to /\ b.to = a.from /\ b.cost = a.cost
    <3>1. PICK x \in Rides : a = arc(x)
      BY <1>4
    <3> DEFINE y == Turned(x)
               M == EntriesAt(Rides, x.from, x.to)
               N == EntriesAt(Rides, x.to, x.from)
               f == [z \in M |-> Turned(z)]
    <3>2. y \in Rides /\ y.from = x.to /\ y.to = x.from
      BY <2>2
    <3>3. M \subseteq Rides /\ IsFiniteSet(M) /\ \A z \in M : z.cost \in Nat
      <4>1. M \subseteq Rides
        BY DEF EntriesAt
      <4> HIDE DEF M
      <4> QED
        BY <4>1, <1>2, <1>3, FS_Subset
    <3>4. \A z \in M : Turned(z) \in N /\ Turned(Turned(z)) = z /\ Turned(z).cost = z.cost
      <4> TAKE z \in M
      <4>1. z \in Rides /\ z.from = x.from /\ z.to = x.to
        BY DEF EntriesAt
      <4>2. Turned(z) \in Rides /\ Turned(Turned(z)) = z
        BY <2>2, <4>1
      <4>3. Turned(z).from = x.to /\ Turned(z).to = x.from /\ Turned(z).cost = z.cost
        BY <4>1
      <4> HIDE DEF Turned
      <4> QED
        BY <4>2, <4>3 DEF EntriesAt
    <3>5. \A z \in N : Turned(z) \in M /\ Turned(Turned(z)) = z
      <4> TAKE z \in N
      <4>1. z \in Rides /\ z.from = x.to /\ z.to = x.from
        BY DEF EntriesAt
      <4>2. Turned(z) \in Rides /\ Turned(Turned(z)) = z
        BY <2>2, <4>1
      <4>3. Turned(z).from = x.from /\ Turned(z).to = x.to
        BY <4>1
      <4> HIDE DEF Turned
      <4> QED
        BY <4>2, <4>3 DEF EntriesAt
    <3> HIDE DEF M, N, Turned
    <3>6. /\ f \in [M -> N] /\ \A z \in N : \E x2 \in M : f[x2] = z
          /\ \A x2, z \in M : f[x2] = f[z] => x2 = z
          /\ \A z \in M : f[z].cost = z.cost
      <4>1. \A z \in M : f[z] = Turned(z)
        OBVIOUS
      <4>2. f \in [M -> N]
        BY <3>4
      <4> HIDE DEF f
      <4>3. \A z \in N : \E x2 \in M : f[x2] = z
        BY <4>1, <3>5
      <4>4. \A x2, z \in M : f[x2] = f[z] => x2 = z
        <5> TAKE x2, z \in M
        <5>1. Turned(Turned(x2)) = x2 /\ Turned(Turned(z)) = z /\ f[x2] = Turned(x2) /\ f[z] = Turned(z)
          BY <3>4, <4>1
        <5> QED
          BY <5>1
      <4> QED
        BY <4>1, <4>2, <4>3, <4>4, <3>4
    <3> HIDE DEF f
    <3>7. CostSum(N) = CostSum(M)
      BY <3>3, <3>6, SumsMatch
    <3>8. SumAt(Rides, x.to, x.from) = SumAt(Rides, x.from, x.to)
      BY <3>7 DEF SumAt, M, N
    <3> HIDE DEF y
    <3>9. arc(y) \in RideArcs
      <4> HIDE DEF arc
      <4> QED BY <1>4, <3>2
    <3>10. arc(y).from = a.to /\ arc(y).to = a.from /\ arc(y).cost = a.cost
      BY <3>1, <3>2, <3>8
    <3> HIDE DEF arc
    <3> QED
      BY <3>9, <3>10
  <2> QED
    BY <2>3 DEF BothWays
<1> QED
  BY <1>4, <1>5, <1>6

\* Ways by road between two anchors: from a vertex near one to one near the other.
Apart(x, y, k) ==
    \E u \in Proximity!Near(x), v \in Proximity!Near(y) : <<u, v, k>> \in RoutesOf(RideArcs, Vertices)

\* c cuts the shortest way from a to b in two, of which the piece at a
\* settlement is none without length.
Split(a, b, c) ==
    \E i, j \in Nat :
        /\ Apart(a, c, i) /\ Apart(c, b, j) /\ Apart(a, b, i + j)
        /\ \A k \in Nat : Apart(a, b, k) => i + j <= k
        /\ a \notin Piers => i > 0
        /\ b \notin Piers => j > 0

\* The anchor that a search finds on its way cuts it.
LEMMA WaySplits ==
  ASSUME Proximity!ProximityAssumption, roads \in SUBSET Lanes,
         NEW a \in Anchors, NEW b \in Anchors, NEW c \in Anchors, c # a, c # b, c \notin Piers,
         NEW cap \in Nat, NEW dist, dist = CostsOf(Proximity!Near(a), RideArcs, cap),
         NEW v \in Proximity!Near(b), v \in DOMAIN dist,
         \A w \in Proximity!Near(b) : w \in DOMAIN dist => dist[v] <= dist[w],
         NEW way \in TracedTo(v, dist, RideArcs), Disc[c] \cap way # {}
  PROVE  Split(a, b, c)
<1> DEFINE A == RideArcs
           X == Vertices
           R == RoutesOf(A, X)
           S == Proximity!Near(a)
<1>1. /\ A \in ArcsOf(X) /\ IsFiniteSet(A)
      /\ \A e \in A : e.cost > 0 /\ e.from \in RideEnds /\ e.to \in RideEnds
  BY RidesAre
<1>2. /\ \A x \in Anchors : Proximity!Near(x) = Disc[x] \cap RideEnds
      /\ \A x \in Anchors : Disc[x] \subseteq X
      /\ \A x, y \in Anchors \ Piers : x # y => Disc[x] \cap Disc[y] = {}
  BY LanesAre DEF Proximity!Near, RideEnds
<1>3. S \in SUBSET X /\ S \subseteq RideEnds
  BY <1>2
<1> HIDE DEF A, X, S
<1>4. PICK D \in SUBSET X : \E f : LeastIn(f, D, S, A)
  BY <1>1, <1>3, LeastCosts
<1>5. PICK f : LeastIn(f, D, S, A)
  BY <1>4
<1>6. LeastUpTo(dist, f, D, cap)
  <2>1. \A e \in A : e.cost > 0
    BY <1>1
  <2>2. LeastUpTo(CostsOf(S, A, cap), f, D, cap)
    BY <2>1, <1>1, <1>3, <1>5, LimitCuts
  <2> QED
    BY <2>2 DEF A, S
<1>7. /\ S \subseteq D /\ f \in [D -> Nat] /\ \A s \in S : f[s] = 0
      /\ \A w \in D \ S : \E e \in A : e.to = w /\ e.from \in D /\ f[w] = f[e.from] + e.cost
  BY <1>5 DEF LeastIn
<1>8. \A w \in DOMAIN dist : /\ w \in D /\ dist[w] = f[w] /\ dist[w] \in Nat /\ dist[w] <= cap
                             /\ w \in X
  BY <1>6, <1>7 DEF LeastUpTo
<1>9. /\ \A w \in D : \E s \in S : <<s, w, f[w]>> \in R
      /\ \A t \in R : t[1] \in S => t[2] \in D /\ f[t[2]] <= t[3]
  <2>1. \A e \in A : e.cost > 0
    BY <1>1
  <2> QED
    BY <2>1, <1>1, <1>3, <1>5, RoutesCost
<1>10. OnTheWay(way, v, dist, R)
  <2>1. \A e \in A : e.cost > 0
    BY <1>1
  <2>2. DOMAIN dist \subseteq X
    BY <1>8
  <2>3. way \in TracedTo(v, dist, A)
    BY DEF A
  <2> QED
    BY <2>1, <2>2, <2>3, <1>1, <1>8, TracedAre
<1> HIDE DEF R
<1>11. PICK w \in way : w \in Disc[c]
  OBVIOUS
<1>12. /\ w \in DOMAIN dist /\ dist[w] <= dist[v] /\ (dist[w] = dist[v] => w = v)
       /\ <<w, v, dist[v] - dist[w]>> \in R
  BY <1>10, <1>11 DEF OnTheWay
<1> DEFINE i == dist[w]
           j == dist[v] - dist[w]
<1>13. i \in Nat /\ j \in Nat /\ dist[v] \in Nat /\ i + j = dist[v]
  BY <1>8, <1>12
<1>14. w \in Proximity!Near(c)
  <2>1. w \in RideEnds
    <3>1. w \in D
      BY <1>8, <1>12
    <3> QED
      BY <3>1, <1>1, <1>3, <1>7
  <2> QED
    BY <2>1, <1>2, <1>11
<1>15. Apart(a, c, i)
  <2>1. PICK s \in S : <<s, w, f[w]>> \in R
    BY <1>8, <1>9, <1>12
  <2>2. f[w] = i
    BY <1>8, <1>12
  <2> HIDE DEF i
  <2> QED
    BY <2>1, <2>2, <1>14 DEF Apart, R, A, X, S
<1>16. Apart(c, b, j)
  <2> HIDE DEF i
  <2>1. <<w, v, j>> \in R
    BY <1>12
  <2> HIDE DEF j
  <2> QED
    BY <2>1, <1>14 DEF Apart, R, A, X
<1>17. Apart(a, b, i + j)
  <2>1. PICK s \in S : <<s, v, f[v]>> \in R
    BY <1>8, <1>9
  <2>2. f[v] = i + j
    BY <1>8, <1>13
  <2> HIDE DEF i, j
  <2> QED
    BY <2>1, <2>2 DEF Apart, R, A, X, S
<1>18. ASSUME NEW k \in Nat, Apart(a, b, k)  PROVE i + j <= k
  <2>1. PICK s \in S, t \in Proximity!Near(b) : <<s, t, k>> \in R
    BY <1>18 DEF Apart, R, A, X, S
  <2>2. t \in D /\ f[t] <= k
    BY <2>1, <1>9
  <2>3. f[t] \in Nat
    BY <2>2, <1>7
  <2>4. CASE f[t] <= cap
    <3>1. t \in DOMAIN dist
      BY <2>2, <2>4, <1>6 DEF LeastUpTo
    <3>2. dist[v] <= dist[t] /\ dist[t] = f[t]
      BY <3>1, <2>1, <1>8
    <3> QED
      BY <3>2, <2>2, <2>3, <1>13
  <2>5. CASE ~(f[t] <= cap)
    <3>1. dist[v] <= cap
      BY <1>8
    <3> QED
      BY <3>1, <2>2, <2>3, <2>5, <1>13
  <2> QED
    BY <2>4, <2>5
<1>19. ASSUME a \notin Piers  PROVE i > 0
  <2>1. w \notin S
    <3>1. Disc[a] \cap Disc[c] = {}
      BY <1>2, <1>19
    <3> QED
      BY <3>1, <1>2, <1>11 DEF S
  <2>2. w \in D \ S /\ dist[w] = f[w]
    BY <2>1, <1>8, <1>12
  <2>3. PICK e \in A : e.to = w /\ e.from \in D /\ f[w] = f[e.from] + e.cost
    BY <2>2, <1>7
  <2>4. f[e.from] \in Nat /\ e.cost \in Nat /\ e.cost > 0
    BY <2>3, <1>1, <1>7 DEF ArcsOf
  <2> QED
    BY <2>2, <2>3, <2>4
<1>20. ASSUME b \notin Piers  PROVE j > 0
  <2>1. w # v
    <3>1. Disc[b] \cap Disc[c] = {}
      BY <1>2, <1>20
    <3> QED
      BY <3>1, <1>2, <1>11
  <2>2. dist[w] # dist[v] /\ dist[w] <= dist[v] /\ dist[w] \in Nat /\ dist[v] \in Nat
    BY <2>1, <1>8, <1>12
  <2> QED
    BY <2>2
<1> HIDE DEF i, j
<1> QED
  BY <1>13, <1>15, <1>16, <1>17, <1>18, <1>19, <1>20 DEF Split

\* Where roads cost the same either way, ways lead both ways.
LEMMA ApartBack ==
  ASSUME Proximity!ProximityAssumption, roads \in SUBSET Lanes,
         \A e \in roads : Proximity!Even(e),
         NEW x, NEW y, NEW k, Apart(x, y, k)
  PROVE  Apart(y, x, k)
<1>1. PICK u \in Proximity!Near(x), v \in Proximity!Near(y) : <<u, v, k>> \in RoutesOf(RideArcs, Vertices)
  BY DEF Apart
<1>2. RideArcs \in ArcsOf(Vertices) /\ BothWays(RideArcs)
  BY RidesAre
<1> DEFINE t == <<u, v, k>>
<1>3. <<t[2], t[1], t[3]>> \in RoutesOf(RideArcs, Vertices)
  <2> HIDE DEF t
  <2> QED BY <1>1, <1>2, RoutesBack DEF t
<1>4. <<v, u, k>> \in RoutesOf(RideArcs, Vertices)
  BY <1>3
<1> QED
  BY <1>1, <1>4 DEF Apart

LookedAt(K) == \/ \E r \in kept : K = {r.a, r.b}
               \/ \E d \in dropped : K = {d.a, d.b}
Waiting(K) == \/ \E p \in batches : K = {p[1], p[2]}
              \/ \E t \in batch.targets : K = {batch.source, t}
Awaited(K) == \/ K \in seen
              \/ \E p \in todo : K = {p[1], p[2]}

ProximityFinite ==
    /\ IsFiniteSet(todo) /\ IsFiniteSet(batches) /\ IsFiniteSet(kept) /\ IsFiniteSet(dropped)

\* Outside a round nothing is left of it, and no pair at the end.
RoundInv ==
    /\ pc \notin {"batches", "batch"} => batches = {}
    /\ pc # "batch" => batch.targets = {}
    /\ pc = "converged" => \A p \in todo : {p[1], p[2]} \in seen

\* A batch tests anchors.
BatchInv ==
    batch.targets # {} =>
        batch.source \in Anchors /\ batch.targets \subseteq Anchors /\ batch.cap \in Nat

\* Each pair that was looked at is kept, dropped, or has yet to be tested.
SeenInv == \A K \in seen : LookedAt(K) \/ Waiting(K)

\* A pair that was dropped for an anchor is cut in two by it, and the two pieces
\* are looked at as well.
PiecesInv ==
    \A d \in dropped : d.via # 0 =>
        /\ {d.a, d.b, d.via} \subseteq Anchors /\ d.via \notin Piers
        /\ Split(d.a, d.b, d.via)
        /\ Awaited({d.a, d.via}) /\ Awaited({d.via, d.b})

ProximityInv ==
    /\ roads \in SUBSET Lanes
    /\ ProximityFinite /\ RoundInv /\ BatchInv /\ SeenInv /\ PiecesInv

LEMMA ProximityBegins == Proximity!ProximityAssumption /\ Proximity!Init => ProximityInv
BY FS_EmptySet, LanesAre
   DEF Proximity!Init, Proximity!NoBatch, ProximityInv, ProximityFinite, RoundInv, BatchInv, SeenInv, PiecesInv

\* What depends on the roads alone.
LEMMA SplitStays ==
  ASSUME roads' = roads
  PROVE  \A a, b, c : Split(a, b, c)' <=> Split(a, b, c)
BY DEF Split, Apart, RideArcs, Rides, SummedUp, SumAt, EntriesAt, Proximity!Near, RoutesOf, TriplesOf, Extends

\* Steps that look at no pair.
LEMMA IdleKeeps ==
  ASSUME ProximityInv,
         \/ Proximity!Converged \/ Proximity!OutOfRounds \/ Proximity!EndBatch
         \/ Proximity!EndRound \/ UNCHANGED Proximity!vars
  PROVE  ProximityInv'
<1>1. /\ roads' = roads /\ todo' = todo /\ seen' = seen /\ batches' = batches
      /\ kept' = kept /\ dropped' = dropped
      /\ batch' = batch \/ (batch.targets = {} /\ batch'.targets = {})
  BY DEF Proximity!Converged, Proximity!OutOfRounds, Proximity!EndBatch, Proximity!EndRound,
         Proximity!vars, Proximity!NoBatch
<1>2. ProximityFinite'
  BY <1>1 DEF ProximityInv, ProximityFinite
<1>3. RoundInv'
  BY <1>1 DEF ProximityInv, RoundInv, Proximity!Converged, Proximity!OutOfRounds, Proximity!EndBatch,
         Proximity!EndRound, Proximity!vars, Proximity!NoBatch, Proximity!New, Proximity!CanonicalKey
<1>4. BatchInv'
  BY <1>1 DEF ProximityInv, BatchInv
<1>5. SeenInv'
  BY <1>1 DEF ProximityInv, SeenInv, LookedAt, Waiting
<1>6. PiecesInv'
  BY <1>1, SplitStays DEF ProximityInv, PiecesInv, Awaited
<1> QED
  BY <1>1, <1>2, <1>3, <1>4, <1>5, <1>6 DEF ProximityInv

LEMMA StartRoundKeeps ==
  ASSUME ProximityInv, Proximity!StartRound
  PROVE  ProximityInv'
<1>1. /\ pc = "round" /\ pc' = "batches" /\ todo' = {}
      /\ seen' = seen \cup {Proximity!CanonicalKey(p[1], p[2]) : p \in Proximity!New}
      /\ roads' = roads /\ batch' = batch /\ kept' = kept /\ dropped' = dropped
  BY DEF Proximity!StartRound
<1>2. PICK fresh \in SUBSET Proximity!New :
        /\ \A p \in Proximity!New : Proximity!Cardinality(fresh \cap {p, <<p[2], p[1]>>}) = 1
        /\ batches' = {Proximity!FromAnAnchor(p) : p \in fresh}
  BY DEF Proximity!StartRound
<1>3. Proximity!New \subseteq todo
  BY DEF Proximity!New
<1>4. IsFiniteSet(batches')
  <2>1. IsFiniteSet(fresh)
    BY <1>3, FS_Subset DEF ProximityInv, ProximityFinite
  <2>2. [p \in fresh |-> Proximity!FromAnAnchor(p)] \in
            Surjection(fresh, {Proximity!FromAnAnchor(p) : p \in fresh})
    BY DEF Surjection
  <2> QED
    BY <2>1, <2>2, <1>2, FS_Surjection
<1>5. ASSUME NEW p \in Proximity!New
      PROVE  \E q \in batches' : {p[1], p[2]} = {q[1], q[2]}
  <2>1. fresh \cap {p, <<p[2], p[1]>>} # {}
    <3>1. Proximity!Cardinality({}) = Cardinality({})
      BY Zenon DEF Proximity!Cardinality, Cardinality
    <3> QED
      BY <3>1, <1>2, FS_EmptySet
  <2>2. PICK q \in fresh : q = p \/ q = <<p[2], p[1]>>
    BY <2>1
  <2>3. {q[1], q[2]} = {p[1], p[2]}
    BY <2>2
  <2> DEFINE r == Proximity!FromAnAnchor(q)
  <2>4. r \in batches'
    BY <1>2
  <2>5. {r[1], r[2]} = {q[1], q[2]}
    BY DEF Proximity!FromAnAnchor
  <2> HIDE DEF r
  <2> QED
    BY <2>3, <2>4, <2>5
<1>6. \A p \in todo : {p[1], p[2]} \in seen'
  BY <1>1 DEF Proximity!New, Proximity!CanonicalKey
<1>7. ProximityFinite'
  BY <1>1, <1>4, FS_EmptySet DEF ProximityInv, ProximityFinite
<1>8. RoundInv' /\ BatchInv'
  BY <1>1 DEF ProximityInv, RoundInv, BatchInv
<1>9. SeenInv'
  <2> SUFFICES ASSUME NEW K \in seen'  PROVE LookedAt(K)' \/ Waiting(K)'
    BY DEF SeenInv
  <2>1. CASE K \in seen
    <3>1. batches = {} /\ batch.targets = {}
      BY <1>1 DEF ProximityInv, RoundInv
    <3>2. LookedAt(K)
      BY <2>1, <3>1 DEF ProximityInv, SeenInv, Waiting
    <3> QED
      BY <3>2, <1>1 DEF LookedAt
  <2>2. CASE K \notin seen
    <3>1. PICK p \in Proximity!New : K = {p[1], p[2]}
      BY <2>2, <1>1 DEF Proximity!CanonicalKey
    <3> QED
      BY <3>1, <1>5 DEF Waiting
  <2> QED
    BY <2>1, <2>2
<1>10. \A K : Awaited(K) => Awaited(K)'
  BY <1>1, <1>6 DEF Awaited
<1>11. PiecesInv'
  BY <1>1, <1>10, SplitStays DEF ProximityInv, PiecesInv
<1> QED
  BY <1>1, <1>7, <1>8, <1>9, <1>11 DEF ProximityInv

\* The limit of a batch is one.
LEMMA FarthestIs ==
  ASSUME Proximity!ProximityAssumption, NEW a \in Anchors, NEW T \in SUBSET Anchors, T # {}
  PROVE  LET farthest == {t \in T : \A u \in T : Air[<<a, u>>] <= Air[<<a, t>>]} IN
         Air[<<a, Proximity!Least(farthest)>>] \in Nat
<1> DEFINE Far == {t \in T : \A u \in T : Air[<<a, u>>] <= Air[<<a, t>>]}
           Neg == {-Air[<<a, t>>] : t \in T}
<1>1. /\ IsFiniteSet(T) /\ \A t \in T : Air[<<a, t>>] \in Nat
      /\ Anchors \subseteq Nat
  BY LanesAre, FS_Subset
<1>2. IsFiniteSet(Neg) /\ Neg \in SUBSET Int /\ Neg # {}
  <2>1. [t \in T |-> -Air[<<a, t>>]] \in Surjection(T, Neg)
    BY DEF Surjection
  <2>2. Neg \in SUBSET Int /\ Neg # {}
    <3>1. \A t \in T : -Air[<<a, t>>] \in Int
      BY <1>1
    <3> QED
      BY <3>1
  <2> HIDE DEF Neg
  <2> QED
    BY <2>1, <2>2, <1>1, FS_Surjection
<1>3. PICK x \in Neg : \A y \in Neg : x <= y
  <2> HIDE DEF Neg
  <2> QED BY <1>2, LeastInt
<1>4. PICK t \in T : x = -Air[<<a, t>>]
  OBVIOUS
<1>5. t \in Far
  <2>1. \A u \in T : -Air[<<a, t>>] <= -Air[<<a, u>>]
    BY <1>3, <1>4
  <2>2. \A u \in T : Air[<<a, u>>] <= Air[<<a, t>>]
    BY <2>1, <1>1
  <2> QED
    BY <2>2
<1>6. Far \in SUBSET Nat /\ Far # {} /\ Far \subseteq T
  BY <1>1, <1>5
<1> HIDE DEF Far
<1>7. Proximity!Least(Far) \in Far
  <2>1. \E z \in Far : \A y \in Far : z <= y
    BY <1>6, LeastNat
  <2> QED
    BY <2>1 DEF Proximity!Least
<1>8. Air[<<a, Proximity!Least(Far)>>] \in Nat
  BY <1>1, <1>6, <1>7
<1> QED
  BY <1>8 DEF Far

LEMMA StartBatchKeeps ==
  ASSUME Proximity!ProximityAssumption, ProximityInv, Proximity!StartBatch
  PROVE  ProximityInv'
<1> DEFINE a == Proximity!Least({p[1] : p \in batches})
           aims == {p[2] : p \in {x \in batches : x[1] = a}}
           missing == IF a \in Anchors THEN aims \ Anchors ELSE aims
           ferries == IF a \in Piers THEN aims \cap Piers ELSE {}
           testable == aims \ (missing \cup ferries)
           farthest == {t \in testable : \A u \in testable : Air[<<a, u>>] <= Air[<<a, t>>]}
           limit == IF testable = {} THEN 0 ELSE Air[<<a, Proximity!Least(farthest)>>]
           Passed(t) == [a |-> a, b |-> t, cost |-> Air[<<a, t>>]]
           Given(t) == [a |-> a, b |-> t, via |-> 0]
<1>1. /\ pc = "batches" /\ pc' = "batch" /\ roads' = roads /\ todo' = todo /\ seen' = seen
      /\ batch' = [source |-> a, targets |-> testable, cap |-> COST_CAP_MULT * limit]
      /\ kept' = kept \cup {Passed(t) : t \in ferries}
      /\ dropped' = dropped \cup {Given(t) : t \in missing}
      /\ batches' = {p \in batches : p[1] # a}
  BY Zenon DEF Proximity!StartBatch, Proximity!DroppedPair
<1>2. batch.targets = {} /\ ProximityFinite /\ SeenInv /\ PiecesInv /\ roads \in SUBSET Lanes
  BY <1>1 DEF ProximityInv, RoundInv
<1>3. /\ batch'.source = a /\ batch'.targets = testable
      /\ batch'.cap = COST_CAP_MULT * limit
  BY <1>1
<1>4. IsFiniteSet(aims)
  <2> DEFINE from == {x \in batches : x[1] = a}
  <2>1. IsFiniteSet(from)
    BY <1>2, FS_Subset DEF ProximityFinite
  <2>2. [p \in from |-> p[2]] \in Surjection(from, aims)
    BY DEF Surjection
  <2> HIDE DEF from, aims
  <2> QED
    BY <2>1, <2>2, FS_Surjection
<1> HIDE DEF a
<1>5. /\ testable # {} => a \in Anchors
      /\ testable \subseteq Anchors
  OBVIOUS
<1>6. ASSUME testable # {}  PROVE COST_CAP_MULT * limit \in Nat
  <2>1. Air[<<a, Proximity!Least(farthest)>>] \in Nat
    <3>1. a \in Anchors /\ testable \in SUBSET Anchors
      BY <1>5, <1>6
    <3> HIDE DEF testable
    <3> QED
      BY <3>1, <1>6, FarthestIs
  <2>2. COST_CAP_MULT \in Nat /\ limit \in Nat
    BY <2>1, <1>6, LanesAre
  <2> HIDE DEF limit
  <2> QED
    BY <2>2
<1> HIDE DEF limit
<1>7. ProximityFinite'
  <2>1. ferries \subseteq aims /\ missing \subseteq aims
    OBVIOUS
  <2> HIDE DEF aims, missing, ferries, testable, Passed, Given
  <2>2. IsFiniteSet(ferries) /\ IsFiniteSet(missing)
    BY <2>1, <1>4, FS_Subset
  <2>3. IsFiniteSet({Passed(t) : t \in ferries}) /\ IsFiniteSet({Given(t) : t \in missing})
    <3>1. /\ [t \in ferries |-> Passed(t)] \in Surjection(ferries, {Passed(t) : t \in ferries})
          /\ [t \in missing |-> Given(t)] \in Surjection(missing, {Given(t) : t \in missing})
      BY DEF Surjection
    <3> QED
      BY <3>1, <2>2, FS_Surjection
  <2>4. IsFiniteSet(batches')
    BY <1>1, <1>2, FS_Subset DEF ProximityFinite
  <2>5. IsFiniteSet(kept') /\ IsFiniteSet(dropped')
    BY <1>1, <1>2, <2>3, FS_Union DEF ProximityFinite
  <2>6. IsFiniteSet(todo')
    BY <1>1, <1>2 DEF ProximityFinite
  <2> QED
    BY <2>4, <2>5, <2>6 DEF ProximityFinite
<1>8. RoundInv'
  BY <1>1 DEF RoundInv
<1>9. BatchInv'
  <2> HIDE DEF testable
  <2> QED
    BY <1>3, <1>5, <1>6 DEF BatchInv
<1>10. SeenInv'
  <2> SUFFICES ASSUME NEW K \in seen'  PROVE LookedAt(K)' \/ Waiting(K)'
    BY DEF SeenInv
  <2>1. LookedAt(K) \/ Waiting(K)
    BY <1>1, <1>2 DEF SeenInv
  <2>2. CASE LookedAt(K)
    BY <2>2, <1>1 DEF LookedAt
  <2>3. CASE \E p \in batches : K = {p[1], p[2]}
    <3>1. PICK p \in batches : K = {p[1], p[2]}
      BY <2>3
    <3>2. CASE p[1] # a
      <4>1. p \in batches'
        BY <3>2, <1>1
      <4> QED
        BY <4>1, <3>1 DEF Waiting
    <3>3. CASE p[1] = a
      <4>1. p[2] \in aims /\ K = {a, p[2]}
        BY <3>1, <3>3
      <4>2. CASE p[2] \in missing
        <5>1. Given(p[2]) \in dropped' /\ Given(p[2]).a = a /\ Given(p[2]).b = p[2]
          <6>1. Given(p[2]) \in {Given(t) : t \in missing}
            BY <4>2
          <6> QED
            BY <6>1, <1>1
        <5> HIDE DEF Given
        <5> QED
          BY <5>1, <4>1 DEF LookedAt
      <4>3. CASE p[2] \in ferries
        <5>1. Passed(p[2]) \in kept' /\ Passed(p[2]).a = a /\ Passed(p[2]).b = p[2]
          <6>1. Passed(p[2]) \in {Passed(t) : t \in ferries}
            BY <4>3
          <6> QED
            BY <6>1, <1>1
        <5> HIDE DEF Passed
        <5> QED
          BY <5>1, <4>1 DEF LookedAt
      <4>4. CASE p[2] \in testable
        BY <4>1, <4>4, <1>3 DEF Waiting
      <4> QED
        BY <4>1, <4>2, <4>3, <4>4
    <3> QED
      BY <3>2, <3>3
  <2> QED
    BY <2>1, <2>2, <2>3, <1>2 DEF Waiting
<1>11. PiecesInv'
  <2> SUFFICES ASSUME NEW d \in dropped', d.via # 0
               PROVE  /\ {d.a, d.b, d.via} \subseteq Anchors /\ d.via \notin Piers
                      /\ Split(d.a, d.b, d.via)'
                      /\ Awaited({d.a, d.via})' /\ Awaited({d.via, d.b})'
    BY DEF PiecesInv
  <2>1. d \in dropped
    <3>1. \A t : Given(t).via = 0
      OBVIOUS
    <3> HIDE DEF Given, missing
    <3> QED
      BY <3>1, <1>1
  <2>2. \A K : Awaited(K)' <=> Awaited(K)
    BY <1>1 DEF Awaited
  <2> QED
    BY <2>1, <2>2, <1>1, <1>2, SplitStays DEF PiecesInv
<1> QED
  BY <1>1, <1>2, <1>7, <1>8, <1>9, <1>10, <1>11 DEF ProximityInv

\* What testing a pair does to the three sets.
TestStep(a, b) ==
    LET dist == CostsOf(Proximity!Near(a), RideArcs, batch.cap)
        reached == Proximity!Near(b) \cap DOMAIN dist
        best == {v \in reached : \A w \in reached : dist[v] <= dist[w]}
        Given(c) == [a |-> a, b |-> b, via |-> c]
    IN  IF reached = {}
        THEN dropped' = dropped \cup {Given(0)} /\ kept' = kept /\ todo' = todo
        ELSE \E v \in best : \E way \in TracedTo(v, dist, RideArcs) :
           LET between == Proximity!Intermediates(way, a, b)
               cost == IF dist[v] > Air[<<a, b>>] THEN dist[v] ELSE Air[<<a, b>>] IN
           IF between # {}
           THEN \E c \in between :
                /\ dropped' = dropped \cup {Given(c)}
                /\ todo' = todo \cup {<<a, c>>, <<c, b>>}
                /\ kept' = kept
           ELSE /\ IF Proximity!IsDetour(cost, a, b)
                   THEN dropped' = dropped \cup {Given(0)} /\ kept' = kept
                   ELSE /\ kept' = kept \cup {[a |-> a, b |-> b, cost |-> cost]}
                        /\ dropped' = dropped
                /\ todo' = todo

LEMMA TestIs ==
  ASSUME Proximity!ProcessTarget
  PROVE  TestStep(batch.source, Proximity!Least(batch.targets))
<1> DEFINE dist == CostsOf(Proximity!Near(batch.source), RideArcs, batch.cap)
<1>1. /\ Proximity!Costs(Proximity!Near(batch.source), Proximity!Arcs, batch.cap) = dist
      /\ \A v : Proximity!WaysTo(v, dist, Proximity!Arcs) = TracedTo(v, dist, RideArcs)
  BY Zenon, ProximityIs
<1> HIDE DEF dist
<1> QED
  BY Zenon, <1>1 DEF Proximity!ProcessTarget, Proximity!Drop, Proximity!DroppedPair, TestStep, dist

LEMMA ProcessTargetKeeps ==
  ASSUME Proximity!ProximityAssumption, ProximityInv, Proximity!ProcessTarget
  PROVE  ProximityInv'
<1>0. PICK a, b : a = batch.source /\ b = Proximity!Least(batch.targets) /\ TestStep(a, b)
  <2>1. TestStep(batch.source, Proximity!Least(batch.targets))
    BY TestIs
  <2> QED
    BY <2>1
<1> DEFINE dist == CostsOf(Proximity!Near(a), RideArcs, batch.cap)
           reached == Proximity!Near(b) \cap DOMAIN dist
           best == {v \in reached : \A w \in reached : dist[v] <= dist[w]}
           Given(c) == [a |-> a, b |-> b, via |-> c]
           Kept(r) == /\ r.a = a /\ r.b = b
                      /\ kept' = kept \cup {r} /\ dropped' = dropped /\ todo' = todo
           Cut(c) == /\ dropped' = dropped \cup {Given(c)} /\ kept' = kept
                     /\ todo' = todo \cup {<<a, c>>, <<c, b>>}
                     /\ c \in Anchors /\ c # a /\ c # b /\ c \notin Piers
                     /\ Split(a, b, c)
           Gone == dropped' = dropped \cup {Given(0)} /\ kept' = kept /\ todo' = todo
<1>1. /\ pc = "batch" /\ batch.targets # {} /\ pc' = "batch" /\ roads' = roads /\ seen' = seen
      /\ batches' = batches
      /\ batch' = [batch EXCEPT !.targets = batch.targets \ {b}]
  BY <1>0 DEF Proximity!ProcessTarget
<1>2. /\ ProximityFinite /\ SeenInv /\ PiecesInv /\ BatchInv /\ roads \in SUBSET Lanes
  BY DEF ProximityInv
<1>3. /\ a \in Anchors /\ batch.targets \subseteq Anchors /\ batch.cap \in Nat
  BY <1>0, <1>1, <1>2 DEF BatchInv
<1>4. b \in batch.targets
  <2>1. batch.targets \in SUBSET Nat
    BY <1>3, LanesAre
  <2>2. \E z \in batch.targets : \A y \in batch.targets : z <= y
    BY <2>1, <1>1, LeastNat
  <2> QED
    BY <2>2, <1>0 DEF Proximity!Least
<1>5. IF reached = {} THEN Gone
      ELSE \E v \in best : \E way \in TracedTo(v, dist, RideArcs) :
           LET between == Proximity!Intermediates(way, a, b)
               cost == IF dist[v] > Air[<<a, b>>] THEN dist[v] ELSE Air[<<a, b>>] IN
           IF between # {}
           THEN \E c \in between :
                /\ dropped' = dropped \cup {Given(c)}
                /\ todo' = todo \cup {<<a, c>>, <<c, b>>}
                /\ kept' = kept
           ELSE /\ IF Proximity!IsDetour(cost, a, b)
                   THEN dropped' = dropped \cup {Given(0)} /\ kept' = kept
                   ELSE /\ kept' = kept \cup {[a |-> a, b |-> b, cost |-> cost]}
                        /\ dropped' = dropped
                /\ todo' = todo
  BY <1>0 DEF TestStep
<1> HIDE DEF dist
<1>6. Gone \/ (\E c : Cut(c)) \/ (\E r : Kept(r))
  <2>1. CASE reached = {}
    BY <2>1, <1>5
  <2>2. CASE reached # {}
    <3>1. PICK v \in best : \E way \in TracedTo(v, dist, RideArcs) :
           LET between == Proximity!Intermediates(way, a, b)
               cost == IF dist[v] > Air[<<a, b>>] THEN dist[v] ELSE Air[<<a, b>>] IN
           IF between # {}
           THEN \E c \in between :
                /\ dropped' = dropped \cup {Given(c)}
                /\ todo' = todo \cup {<<a, c>>, <<c, b>>}
                /\ kept' = kept
           ELSE /\ IF Proximity!IsDetour(cost, a, b)
                   THEN dropped' = dropped \cup {Given(0)} /\ kept' = kept
                   ELSE /\ kept' = kept \cup {[a |-> a, b |-> b, cost |-> cost]}
                        /\ dropped' = dropped
                /\ todo' = todo
      BY <2>2, <1>5
    <3> DEFINE cost == IF dist[v] > Air[<<a, b>>] THEN dist[v] ELSE Air[<<a, b>>]
    <3>2. PICK way \in TracedTo(v, dist, RideArcs) :
           IF Proximity!Intermediates(way, a, b) # {}
           THEN \E c \in Proximity!Intermediates(way, a, b) :
                /\ dropped' = dropped \cup {Given(c)}
                /\ todo' = todo \cup {<<a, c>>, <<c, b>>}
                /\ kept' = kept
           ELSE /\ IF Proximity!IsDetour(cost, a, b)
                   THEN dropped' = dropped \cup {Given(0)} /\ kept' = kept
                   ELSE /\ kept' = kept \cup {[a |-> a, b |-> b, cost |-> cost]}
                        /\ dropped' = dropped
                /\ todo' = todo
      BY <3>1
    <3> HIDE DEF cost, Given
    <3>3. CASE Proximity!Intermediates(way, a, b) # {}
      <4>1. PICK c \in Proximity!Intermediates(way, a, b) :
                /\ dropped' = dropped \cup {Given(c)}
                /\ todo' = todo \cup {<<a, c>>, <<c, b>>}
                /\ kept' = kept
        BY <3>2, <3>3
      <4>2. c \in Anchors /\ c # a /\ c # b /\ c \notin Piers /\ Disc[c] \cap way # {}
        BY DEF Proximity!Intermediates
      <4>3. v \in Proximity!Near(b) /\ v \in DOMAIN dist
        BY <3>1
      <4>4. \A w \in Proximity!Near(b) : w \in DOMAIN dist => dist[v] <= dist[w]
        BY <3>1
      <4>5. b \in Anchors
        BY <1>3, <1>4
      <4>6. Split(a, b, c)
        BY <1>2, <1>3, <4>2, <4>3, <4>4, <4>5, WaySplits DEF dist
      <4> QED
        BY <4>1, <4>2, <4>6
    <3>4. CASE Proximity!Intermediates(way, a, b) = {} /\ Proximity!IsDetour(cost, a, b)
      BY <3>2, <3>4
    <3>5. CASE Proximity!Intermediates(way, a, b) = {} /\ ~Proximity!IsDetour(cost, a, b)
      <4> DEFINE r == [a |-> a, b |-> b, cost |-> cost]
      <4>1. r.a = a /\ r.b = b
        OBVIOUS
      <4> HIDE DEF r
      <4>2. kept' = kept \cup {r} /\ dropped' = dropped /\ todo' = todo
        BY <3>2, <3>5 DEF r
      <4> QED
        BY <4>1, <4>2
    <3> QED
      BY <3>3, <3>4, <3>5
  <2> QED
    BY <2>1, <2>2
<1>7. \A c : Given(c).a = a /\ Given(c).b = b /\ Given(c).via = c
  OBVIOUS
<1> HIDE DEF Given
<1>8. /\ batch'.targets \subseteq batch.targets
      /\ \A t \in batch.targets : t = b \/ t \in batch'.targets
      /\ batch'.targets # {} => batch'.source = a /\ batch'.cap = batch.cap
  <2>1. batch'.targets = batch.targets \ {b} \/ batch'.targets = batch.targets
    BY <1>1
  <2> QED
    BY <1>0, <1>1
<1>9. ProximityFinite'
  <2>1. /\ IsFiniteSet(todo) /\ IsFiniteSet(batches) /\ IsFiniteSet(kept) /\ IsFiniteSet(dropped)
    BY <1>2 DEF ProximityFinite
  <2>2. \A T, x : IsFiniteSet(T) => IsFiniteSet(T \cup {x})
    BY FS_AddElement
  <2>3. CASE Gone
    BY <2>1, <2>2, <2>3, <1>1 DEF ProximityFinite
  <2>4. ASSUME NEW r, Kept(r)  PROVE ProximityFinite'
    BY <2>1, <2>2, <2>4, <1>1 DEF ProximityFinite
  <2>5. ASSUME NEW c, Cut(c)  PROVE ProximityFinite'
    <3>1. IsFiniteSet(todo')
      <4>1. todo' = (todo \cup {<<a, c>>}) \cup {<<c, b>>}
        BY <2>5
      <4> QED
        BY <4>1, <2>1, <2>2
    <3>2. IsFiniteSet(dropped')
      BY <2>1, <2>2, <2>5
    <3> QED
      BY <3>1, <3>2, <2>1, <2>5, <1>1 DEF ProximityFinite
  <2> QED
    BY <2>3, <2>4, <2>5, <1>6
<1>10. RoundInv'
  BY <1>1 DEF RoundInv
<1>11. BatchInv'
  BY <1>3, <1>8 DEF BatchInv
<1>12. LookedAt({a, b})' /\ (\A K : LookedAt(K) => LookedAt(K)')
  BY <1>6, <1>7 DEF LookedAt
<1>13. SeenInv'
  <2> SUFFICES ASSUME NEW K \in seen'  PROVE LookedAt(K)' \/ Waiting(K)'
    BY DEF SeenInv
  <2>1. LookedAt(K) \/ Waiting(K)
    BY <1>1, <1>2 DEF SeenInv
  <2>2. ASSUME Waiting(K)  PROVE LookedAt(K)' \/ Waiting(K)'
    <3>1. CASE \E p \in batches : K = {p[1], p[2]}
      BY <3>1, <1>1 DEF Waiting
    <3>2. CASE \E t \in batch.targets : K = {a, t}
      <4>1. PICK t \in batch.targets : K = {a, t}
        BY <3>2
      <4>2. CASE t = b
        BY <4>1, <4>2, <1>12
      <4>3. CASE t # b
        <5>1. t \in batch'.targets /\ batch'.source = a
          BY <4>3, <1>8
        <5> QED
          BY <4>1, <5>1 DEF Waiting
      <4> QED
        BY <4>2, <4>3
    <3> QED
      BY <1>0, <2>2, <3>1, <3>2 DEF Waiting
  <2> QED
    BY <2>1, <2>2, <1>12
<1>14. PiecesInv'
  <2> SUFFICES ASSUME NEW d \in dropped', d.via # 0
               PROVE  /\ {d.a, d.b, d.via} \subseteq Anchors /\ d.via \notin Piers
                      /\ Split(d.a, d.b, d.via)'
                      /\ Awaited({d.a, d.via})' /\ Awaited({d.via, d.b})'
    BY DEF PiecesInv
  <2>1. \A K : Awaited(K) => Awaited(K)'
    BY <1>1, <1>6 DEF Awaited
  <2>2. CASE d \in dropped
    BY <2>1, <2>2, <1>1, <1>2, SplitStays DEF PiecesInv
  <2>3. CASE d \notin dropped
    <3>1. PICK c : Cut(c) /\ d = Given(c)
      BY <2>3, <1>6, <1>7
    <3>2. /\ d.a = a /\ d.b = b /\ d.via = c /\ Split(a, b, c)
          /\ c \in Anchors /\ c \notin Piers /\ a \in Anchors /\ b \in Anchors
      BY <3>1, <1>3, <1>4, <1>7
    <3>3. <<a, c>> \in todo' /\ <<c, b>> \in todo'
      BY <3>1
    <3>4. Awaited({a, c})' /\ Awaited({c, b})'
      <4> DEFINE p == <<a, c>>  q == <<c, b>>
      <4>1. p \in todo' /\ q \in todo' /\ {a, c} = {p[1], p[2]} /\ {c, b} = {q[1], q[2]}
        BY <3>3
      <4> HIDE DEF p, q
      <4> QED
        BY <4>1 DEF Awaited
    <3> QED
      BY <3>2, <3>4, <1>1, SplitStays
  <2> QED
    BY <2>2, <2>3
<1> QED
  BY <1>1, <1>2, <1>9, <1>10, <1>11, <1>13, <1>14 DEF ProximityInv

\* What the ends of a pair count for: the piers among them.
PiersOf(a, b) == (IF a \in Piers THEN 1 ELSE 0) + (IF b \in Piers THEN 1 ELSE 0)

(* Once the rounds have converged, a set that no kept pair and no pair given up *)
(* leads out of holds both ends of a pair that was dropped for an anchor, or    *)
(* none of them: its pieces are shorter, or end at fewer piers.                 *)
LEMMA PiecesAgree ==
  ASSUME Proximity!ProximityAssumption, ProximityInv, pc = "converged",
         \A e \in roads : Proximity!Even(e),
         NEW R,
         \A e \in kept \cup {x \in dropped : x.via = 0} : e.a \in R <=> e.b \in R,
         NEW d0 \in dropped
  PROVE  d0.a \in R <=> d0.b \in R
<1> DEFINE Good == {n \in Nat : \A d \in dropped : \A k \in Nat :
                        Apart(d.a, d.b, k) /\ 2 * k + PiersOf(d.a, d.b) < n
                        => (d.a \in R <=> d.b \in R)}
<1>1. /\ roads \in SUBSET Lanes
      /\ \A K \in seen : LookedAt(K)
      /\ \A d \in dropped : d.via # 0 =>
            d.via \notin Piers /\ Split(d.a, d.b, d.via)
            /\ LookedAt({d.a, d.via}) /\ LookedAt({d.via, d.b})
  <2>1. batches = {} /\ batch.targets = {} /\ \A p \in todo : {p[1], p[2]} \in seen
    BY DEF ProximityInv, RoundInv
  <2>2. \A K \in seen : LookedAt(K)
    BY <2>1 DEF ProximityInv, SeenInv, Waiting
  <2>3. \A K : Awaited(K) => LookedAt(K)
    BY <2>1, <2>2 DEF Awaited
  <2> QED
    BY <2>2, <2>3 DEF ProximityInv, PiecesInv
<1>2. \A a, b : PiersOf(a, b) \in Nat /\ PiersOf(a, b) = PiersOf(b, a)
  BY DEF PiersOf
<1>3. 0 \in Good
  <2>1. \A d \in dropped : \A k \in Nat : ~(2 * k + PiersOf(d.a, d.b) < 0)
    BY <1>2
  <2> QED
    BY <2>1
\* A piece that is short enough.
<1>4. ASSUME NEW n \in Good, NEW x, NEW y, LookedAt({x, y}),
             NEW k \in Nat, Apart(x, y, k), 2 * k + PiersOf(x, y) < n
      PROVE  x \in R <=> y \in R
  <2>1. CASE \E r \in kept : {x, y} = {r.a, r.b}
    <3>1. PICK r \in kept : {x, y} = {r.a, r.b}
      BY <2>1
    <3>2. (x = r.a /\ y = r.b) \/ (x = r.b /\ y = r.a)
      BY <3>1
    <3>3. r.a \in R <=> r.b \in R
      OBVIOUS
    <3> QED
      BY <3>2, <3>3
  <2>2. CASE \E d \in dropped : {x, y} = {d.a, d.b}
    <3>1. PICK d \in dropped : {x, y} = {d.a, d.b}
      BY <2>2
    <3>2. (x = d.a /\ y = d.b) \/ (x = d.b /\ y = d.a)
      BY <3>1
    <3>3. Apart(y, x, k)
      BY <1>1, <1>4, ApartBack
    <3>4. Apart(d.a, d.b, k) /\ 2 * k + PiersOf(d.a, d.b) < n
      BY <3>2, <3>3, <1>2, <1>4
    <3>5. d.a \in R <=> d.b \in R
      BY <3>4, <1>4
    <3> QED
      BY <3>2, <3>5
  <2> QED
    BY <2>1, <2>2, <1>4 DEF LookedAt
<1>5. ASSUME NEW n \in Good  PROVE n + 1 \in Good
  <2> SUFFICES ASSUME NEW d \in dropped, NEW k \in Nat, Apart(d.a, d.b, k),
                      2 * k + PiersOf(d.a, d.b) < n + 1
               PROVE  d.a \in R <=> d.b \in R
    OBVIOUS
  <2> HIDE DEF Good
  <2>1. CASE d.via = 0
    <3>1. d \in {x \in dropped : x.via = 0}
      BY <2>1
    <3> QED
      BY <3>1
  <2>2. CASE d.via # 0
    <3>1. PICK c : c = d.via
      OBVIOUS
    <3>2. c \notin Piers /\ Split(d.a, d.b, c) /\ LookedAt({d.a, c}) /\ LookedAt({c, d.b})
      BY <2>2, <3>1, <1>1
    <3>3. PICK i \in Nat, j \in Nat :
            /\ Apart(d.a, c, i) /\ Apart(c, d.b, j)
            /\ \A m \in Nat : Apart(d.a, d.b, m) => i + j <= m
            /\ d.a \notin Piers => i > 0
            /\ d.b \notin Piers => j > 0
      BY <3>2 DEF Split
    <3>4. i + j <= k
      BY <3>3
    <3>5. n \in Nat
      BY DEF Good
    <3>6. 2 * i + PiersOf(d.a, c) < n /\ 2 * j + PiersOf(c, d.b) < n
      BY <3>2, <3>3, <3>4, <3>5 DEF PiersOf
    <3>7. d.a \in R <=> c \in R
      BY <3>2, <3>3, <3>6, <1>4
    <3>8. c \in R <=> d.b \in R
      BY <3>2, <3>3, <3>6, <1>4
    <3> QED
      BY <3>7, <3>8
  <2> QED
    BY <2>1, <2>2
<1>6. ASSUME NEW n \in Nat  PROVE n \in Good
  <2>1. \A k \in 0..n : k # 0 /\ k - 1 \in Good => k \in Good
    <3> TAKE k \in 0..n
    <3> HAVE k # 0 /\ k - 1 \in Good
    <3> HIDE DEF Good
    <3>1. (k - 1) + 1 \in Good
      BY <1>5
    <3> QED
      BY <3>1
  <2> HIDE DEF Good
  <2>2. 0..n \subseteq Good
    BY <1>3, <2>1, Upward
  <2> QED
    BY <2>2
<1>7. CASE d0.via = 0
  <2>1. d0 \in {x \in dropped : x.via = 0}
    BY <1>7
  <2> QED
    BY <2>1
<1>8. CASE d0.via # 0
  <2>1. PICK k \in Nat : Apart(d0.a, d0.b, k)
    <3>1. Split(d0.a, d0.b, d0.via)
      BY <1>1, <1>8
    <3>2. PICK i \in Nat, j \in Nat : Apart(d0.a, d0.b, i + j)
      BY <3>1 DEF Split
    <3> QED
      BY <3>2
  <2>2. PICK n \in Nat : n = 2 * k + PiersOf(d0.a, d0.b) + 1
    BY <1>2
  <2>3. 2 * k + PiersOf(d0.a, d0.b) < n
    BY <2>2, <1>2
  <2>4. n \in Good
    BY <1>6
  <2> QED
    BY <2>1, <2>3, <2>4
<1> QED
  BY <1>7, <1>8

LEMMA TrianglesJoin ==
  ASSUME Proximity!ProximityAssumption, ProximityInv
  PROVE  Proximity!TrianglesLeaveAWay
<1> DEFINE bonds == kept \cup {x \in dropped : x.via = 0}
           there(e) == [from |-> e.a, to |-> e.b]
           back(e) == [from |-> e.b, to |-> e.a]
           P == {there(e) : e \in bonds}
           Q == {back(e) : e \in bonds}
           links == P \cup Q
<1> SUFFICES ASSUME pc = "converged", \A e \in roads : Proximity!Even(e), NEW d \in dropped
             PROVE  d.b \in Proximity!Joined(bonds, d.a)
  BY DEF Proximity!TrianglesLeaveAWay
<1>1. Proximity!Joined(bonds, d.a) = Voronoi!ReachedFrom({d.a}, links)
  BY ProximityIs DEF Proximity!Joined
<1>2. IsFiniteSet(links)
  <2>1. IsFiniteSet(bonds)
    <3>1. IsFiniteSet(kept) /\ IsFiniteSet(dropped)
      BY DEF ProximityInv, ProximityFinite
    <3> QED
      BY <3>1, FS_Subset, FS_Union
  <2> HIDE DEF there, back, bonds
  <2>2. /\ [e \in bonds |-> there(e)] \in Surjection(bonds, P)
        /\ [e \in bonds |-> back(e)] \in Surjection(bonds, Q)
    BY DEF Surjection
  <2> HIDE DEF P, Q
  <2>3. IsFiniteSet(P) /\ IsFiniteSet(Q)
    BY <2>1, <2>2, FS_Surjection
  <2> QED
    BY <2>3, FS_Union
<1>3. \A e \in bonds : /\ \E h \in links : h.from = e.a /\ h.to = e.b
                       /\ \E h \in links : h.from = e.b /\ h.to = e.a
  <2> TAKE e \in bonds
  <2>1. there(e) \in links /\ back(e) \in links
    OBVIOUS
  <2> HIDE DEF links
  <2> QED
    BY <2>1
<1> HIDE DEF links
<1>4. PICK R : R = Voronoi!ReachedFrom({d.a}, links)
  OBVIOUS
<1>5. d.a \in R /\ \A h \in links : h.from \in R => h.to \in R
  BY <1>2, <1>4, ReachIs DEF ReachedBy
<1>6. \A e \in bonds : e.a \in R <=> e.b \in R
  <2> HIDE DEF bonds
  <2> QED
    BY <1>3, <1>5
<1>7. d.a \in R <=> d.b \in R
  BY <1>6, PiecesAgree
<1> QED
  BY <1>1, <1>4, <1>5, <1>7

(* TrianglesLeaveAWay: when the rounds have converged, two anchors whose pair *)
(* was dropped for a third are still joined in the chain graph.             *)
THEOREM TrianglesKeepTogether ==
  Proximity!ProximityAssumption => (Proximity!Spec => []Proximity!TrianglesLeaveAWay)
<1> SUFFICES ASSUME Proximity!ProximityAssumption
             PROVE  Proximity!Spec => []Proximity!TrianglesLeaveAWay
  OBVIOUS
<1>1. Proximity!Init => ProximityInv
  BY ProximityBegins
<1>2. ProximityInv /\ [Proximity!Next]_(Proximity!vars) => ProximityInv'
  BY IdleKeeps, StartRoundKeeps, StartBatchKeeps, ProcessTargetKeeps DEF Proximity!Next
<1>3. ProximityInv => Proximity!TrianglesLeaveAWay
  BY TrianglesJoin
<1> QED
  BY <1>1, <1>2, <1>3, PTL DEF Proximity!Spec

=============================================================================
