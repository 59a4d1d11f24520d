--------------------------- MODULE AnchorSelect ---------------------------
(***************************************************************************)
(* pgrouting/chain/select_anchors_bottom_up.py: which settlements and      *)
(* ferry piers become anchors.  Places are the candidates, listed as they  *)
(* are loaded: cities and towns, villages, piers.  A place is its index;   *)
(* lon says where on a line it lies.                                       *)
(***************************************************************************)
EXTENDS Integers, Sequences, FiniteSets, Ranking

CONSTANTS
    Lists,          \* sequences of places [kind, lon, pop], as loaded
    PIER_DEDUP_M, PIER_EATS_TOWN_M, MIN_SPACING_M

AnchorSelectAssumption ==
    /\ PIER_DEDUP_M \in Nat /\ PIER_EATS_TOWN_M \in Nat /\ MIN_SPACING_M \in Nat
    /\ Lists \subseteq
         Seq([kind : {"db", "village", "ferry_pier"}, lon : Int, pop : Nat])

VARIABLES
    pc,
    places,
    keep,       \* the mask the three passes share
    queue,      \* the places the pass still has to look at, in its order
    absorbed    \* the town whose name a pier has taken, per pier

vars == <<pc, places, keep, queue, absorbed>>

Distance(i, j) ==
    LET d == places[i].lon - places[j].lon IN IF d < 0 THEN -d ELSE d
Within(i, r) == {j \in DOMAIN places : j # i /\ Distance(i, j) <= r}
IsPier(i) == places[i].kind = "ferry_pier"
Protected(i) == IsPier(i)   \* only piers are loaded with _protected

Least(S) == CHOOSE x \in S : \A y \in S : x <= y

Ascending(S) == Ranked(S, {p \in S \X S : p[1] < p[2]})

\* Ascending population, the ref breaking ties.
Before(i, j) == places[i].pop < places[j].pop \/ (places[i].pop = places[j].pop /\ i < j)
ByPopulation(S) == Ranked(S, {p \in S \X S : Before(p[1], p[2])})

Init ==
    /\ pc = "dedup"
    /\ places \in Lists
    /\ keep = DOMAIN places
    /\ queue = Ascending({i \in DOMAIN places : IsPier(i)})
    /\ absorbed = [i \in {} |-> 0]

\* A pier removes the piers next to it, unless it was removed itself.
DedupPier ==
    /\ pc = "dedup" /\ queue # <<>>
    /\ LET i == Head(queue) IN
        keep' = IF i \notin keep THEN keep
                ELSE keep \ {j \in Within(i, PIER_DEDUP_M) : IsPier(j)}
    /\ queue' = Tail(queue)
    /\ UNCHANGED <<pc, places, absorbed>>

DedupDone ==
    /\ pc = "dedup" /\ queue = <<>>
    /\ pc' = "eat"
    /\ queue' = Ascending({i \in keep : IsPier(i)})
    /\ UNCHANGED <<places, keep, absorbed>>

\* The first of the most populous towns in reach.
BestTown(eaten) ==
    Least({j \in eaten : \A k \in eaten : places[k].pop <= places[j].pop})

\* A pier takes the towns around it in, and the name of the largest.
EatTowns ==
    /\ pc = "eat" /\ queue # <<>>
    /\ LET i == Head(queue)
           eaten == {j \in Within(i, PIER_EATS_TOWN_M) : j \in keep /\ ~IsPier(j)} IN
        IF eaten = {} THEN UNCHANGED <<places, keep, absorbed>>
        ELSE /\ keep' = keep \ eaten
             /\ absorbed' = [k \in DOMAIN absorbed \cup {i} |->
                                IF k = i THEN BestTown(eaten) ELSE absorbed[k]]
             /\ places' = [places EXCEPT ![i].pop =
                    IF @ > places[BestTown(eaten)].pop THEN @
                    ELSE places[BestTown(eaten)].pop]
    /\ queue' = Tail(queue)
    /\ UNCHANGED pc

EatDone ==
    /\ pc = "eat" /\ queue = <<>>
    /\ pc' = "drop"
    /\ queue' = ByPopulation(keep)
    /\ UNCHANGED <<places, keep, absorbed>>

\* Slip: piers count as neighbours.
AnyNeighbor(i) == \E j \in Within(i, MIN_SPACING_M) : j \in keep

\* Piers do not displace anyone.
HasNeighbor(i) == \E j \in Within(i, MIN_SPACING_M) : j \in keep /\ ~Protected(j)

GreedyDropout ==
    /\ pc = "drop" /\ queue # <<>>
    /\ LET i == Head(queue) IN
        keep' = IF ~Protected(i) /\ HasNeighbor(i) THEN keep \ {i} ELSE keep
    /\ queue' = Tail(queue)
    /\ UNCHANGED <<pc, places, absorbed>>

WriteAnchors ==
    /\ pc = "drop" /\ queue = <<>>
    /\ pc' = "written"
    /\ UNCHANGED <<places, keep, queue, absorbed>>

Next == DedupPier \/ DedupDone \/ EatTowns \/ EatDone \/ GreedyDropout \/ WriteAnchors

Spec == Init /\ [][Next]_vars

---------------------------------------------------------------------------
Towns == {i \in DOMAIN places : ~IsPier(i)}
Piers == DOMAIN places \ Towns

\* A settlement that was not swallowed by a pier survives exactly when it is
\* the most populous of its neighbourhood, so that no two of them are closer
\* than the spacing; no settlement is lost to a pier without that pier being
\* an anchor within its eating distance; and piers keep their own distance.
\* That is item 4 of the docstring (lines 9-10).  A larger neighbour counts also
\* when it was dropped itself, so this is not the Poisson-disk sample which the
\* next line (11) takes it for, and where every settlement of a disc has a larger
\* neighbour the disc has no anchor (against lines 13-15).
AnchorsAreLocalMaxima ==
    pc = "written" =>
        LET eaten == {i \in Towns : \E p \in Piers \cap keep :
                            Distance(i, p) <= PIER_EATS_TOWN_M}
            larger(i, j) == places[j].pop > places[i].pop
                            \/ (places[j].pop = places[i].pop /\ j > i)
        IN  /\ \A i \in Towns : i \in keep <=>
                    /\ i \notin eaten
                    /\ \A j \in Within(i, MIN_SPACING_M) \cap (Towns \ eaten) : ~larger(i, j)
            /\ \A i, j \in Piers \cap keep : i # j => Distance(i, j) > PIER_DEDUP_M
            /\ \A i \in Piers \ keep : \E j \in Piers \cap keep :
                    Distance(i, j) <= PIER_DEDUP_M
=============================================================================
