-------------------------- MODULE ProximityGraph --------------------------
(***************************************************************************)
(* pgrouting/chain/build_chain_graph_proximity.py: which pairs of anchors  *)
(* stay joined in the chain graph.  A pair whose road comes near a third   *)
(* anchor is replaced by the two pairs through that anchor.                *)
(*                                                                         *)
(* Roads join vertices; Disc gives the vertices within RADIUS_M of an      *)
(* anchor, Air the distances of the anchors as the crow flies.  What the   *)
(* bounding box of a batch leaves out is not modelled: a batch sees the    *)
(* whole map.  Nor is the bound on a path: it is traced back over 20000    *)
(* vertices at most, so that of a longer one the part near its source      *)
(* would not be looked at.                                                 *)
(***************************************************************************)
EXTENDS Integers, Sequences, FiniteSets, ShortestWays

CONSTANTS
    Vertices,
    Roads,          \* edges a map may have: [src, dst, cost, reverse_cost, ferry]
    Anchors,        \* by number, which is also the order of their refs
    Piers,
    Disc,           \* a set of vertices for each anchor
    Air,            \* Air[<<a, b>>]
    CandidateSets,  \* sets of pairs <<a, b>>
    COST_CAP_MULT, DETOUR_RATIO_CUTOFF, MAX_ROUNDS

Impassable == -1

\* Ways have a length, so what is passable costs something; settlements are more
\* than MIN_SPACING_M apart (select_anchors_bottom_up.py), twice RADIUS_M.
ProximityAssumption ==
    /\ IsFiniteSet(Roads) /\ \A e \in Roads :
            /\ {e.src, e.dst} \subseteq Vertices
            /\ {e.cost, e.reverse_cost} \subseteq (Nat \ {0}) \cup {Impassable}
    /\ Piers \subseteq Anchors /\ Anchors \subseteq Nat \ {0} /\ IsFiniteSet(Anchors)
    /\ \A a \in Anchors : Disc[a] \subseteq Vertices
    /\ \A a, b \in Anchors \ Piers : a # b => Disc[a] \cap Disc[b] = {}
    /\ \A p \in Anchors \X Anchors : Air[p] \in Nat /\ Air[p] = Air[<<p[2], p[1]>>]
    /\ \A C \in CandidateSets : IsFiniteSet(C)
    /\ COST_CAP_MULT \in Nat /\ DETOUR_RATIO_CUTOFF \in Nat /\ MAX_ROUNDS \in Nat

VARIABLES
    pc,
    roads,      \* the cells
    todo,       \* pairs to be looked at in the next round
    seen,       \* unordered pairs
    round,
    batches,    \* by_source: the pairs <<source, target>> of this round
    batch,      \* the source anchor at work and the targets left, with its cap
    kept,       \* [a, b, cost]
    dropped     \* [a, b, via]

vars == <<pc, roads, todo, seen, round, batches, batch, kept, dropped>>

CanonicalKey(a, b) == {a, b}
Least(S) == CHOOSE x \in S : \A y \in S : x <= y

---------------------------------------------------------------------------
(* The road graph, without the ferries *)

Arcs == Csr(
    {[from |-> e.src, to |-> e.dst, cost |-> e.cost, of |-> e] :
        e \in {x \in roads : ~x.ferry /\ x.cost # Impassable}} \cup
    {[from |-> e.dst, to |-> e.src, cost |-> e.reverse_cost, of |-> e] :
        e \in {x \in roads : ~x.ferry /\ x.reverse_cost # Impassable}})

\* The vertices of an anchor's disc that the cells know.
Near(a) == Disc[a] \cap UNION {{e.src, e.dst} : e \in roads}

\* Slip: a pier counts as an anchor on the way.
AnyIntermediate(way, a, b) ==
    {c \in Anchors \ {a, b} : Disc[c] \cap way # {}}

\* The anchors whose disc the way touches; which one is found depends on the
\* order of a tree.
Intermediates(way, a, b) ==
    {c \in Anchors \ ({a, b} \cup Piers) : Disc[c] \cap way # {}}

IsDetour(cost, a, b) ==
    Air[<<a, b>>] > 0 /\ cost > 0 /\ cost > DETOUR_RATIO_CUTOFF * Air[<<a, b>>]

---------------------------------------------------------------------------
NoBatch == [source |-> 0, targets |-> {}, cap |-> 0]

Init ==
    /\ pc = "round"
    /\ roads \in SUBSET Roads
    /\ todo \in CandidateSets
    /\ seen = {} /\ round = 1
    /\ batches = {} /\ batch = NoBatch
    /\ kept = {} /\ dropped = {}

New == {p \in todo : CanonicalKey(p[1], p[2]) \notin seen}

\* The end that has an anchor record first is the source.
FromAnAnchor(p) == IF p[1] \in Anchors THEN p ELSE <<p[2], p[1]>>

\* Each unordered pair is looked at once, in the direction it came first.
StartRound ==
    /\ pc = "round" /\ round <= MAX_ROUNDS /\ New # {}
    /\ \E fresh \in SUBSET New :
        /\ \A p \in New : Cardinality(fresh \cap {p, <<p[2], p[1]>>}) = 1
        /\ batches' = {FromAnAnchor(p) : p \in fresh}
    /\ seen' = seen \cup {CanonicalKey(p[1], p[2]) : p \in New}
    /\ todo' = {}
    /\ pc' = "batches"
    /\ UNCHANGED <<roads, round, batch, kept, dropped>>

Converged ==
    /\ pc = "round" /\ round <= MAX_ROUNDS /\ New = {}
    /\ pc' = "converged"
    /\ UNCHANGED <<roads, todo, seen, round, batches, batch, kept, dropped>>

OutOfRounds ==
    /\ pc = "round" /\ round > MAX_ROUNDS
    /\ pc' = "out_of_rounds"
    /\ UNCHANGED <<roads, todo, seen, round, batches, batch, kept, dropped>>

\* via: the anchor on the way, or 0 if the pair was given up without one.
DroppedPair(a, b, c) == [a |-> a, b |-> b, via |-> c]

\* Pairs with an anchor that is no more are dropped, pairs of piers kept as they
\* are.  The others share a search whose limit is set by the farthest of them.
StartBatch ==
    /\ pc = "batches" /\ batches # {}
    /\ LET a == Least({p[1] : p \in batches})
           targets == {p[2] : p \in {x \in batches : x[1] = a}}
           missing == IF a \in Anchors THEN targets \ Anchors ELSE targets
           ferries == IF a \in Piers THEN targets \cap Piers ELSE {}
           testable == targets \ (missing \cup ferries)
           farthest == {t \in testable : \A u \in testable : Air[<<a, u>>] <= Air[<<a, t>>]}
       IN  /\ batch' = [source |-> a, targets |-> testable,
                        cap |-> COST_CAP_MULT *
                            (IF testable = {} THEN 0 ELSE Air[<<a, Least(farthest)>>])]
           /\ kept' = kept \cup {[a |-> a, b |-> t, cost |-> Air[<<a, t>>]] : t \in ferries}
           /\ dropped' = dropped \cup {DroppedPair(a, t, 0) : t \in missing}
           /\ batches' = {p \in batches : p[1] # a}
    /\ pc' = "batch"
    /\ UNCHANGED <<roads, todo, seen, round>>

Drop(a, b, via) == dropped' = dropped \cup {DroppedPair(a, b, via)}

ProcessTarget ==
    /\ pc = "batch" /\ batch.targets # {}
    /\ LET a == batch.source
           b == Least(batch.targets)
           dist == Costs(Near(a), Arcs, batch.cap)
           reached == Near(b) \cap DOMAIN dist
           best == {v \in reached : \A w \in reached : dist[v] <= dist[w]}
       IN  IF reached = {} THEN Drop(a, b, 0) /\ UNCHANGED <<kept, todo>>
           ELSE \E v \in best : \E way \in WaysTo(v, dist, Arcs) :
            LET between == Intermediates(way, a, b)
                cost == IF dist[v] > Air[<<a, b>>] THEN dist[v] ELSE Air[<<a, b>>] IN
            IF between # {}
            THEN \E c \in between :
                /\ Drop(a, b, c)
                /\ todo' = todo \cup {<<a, c>>, <<c, b>>}
                /\ UNCHANGED kept
            ELSE /\ IF IsDetour(cost, a, b)
                    THEN Drop(a, b, 0) /\ UNCHANGED kept
                    ELSE /\ kept' = kept \cup {[a |-> a, b |-> b, cost |-> cost]}
                         /\ UNCHANGED dropped
                 /\ UNCHANGED todo
    /\ batch' = [batch EXCEPT !.targets = @ \ {Least(@)}]
    /\ UNCHANGED <<pc, roads, seen, round, batches>>

EndBatch ==
    /\ pc = "batch" /\ batch.targets = {}
    /\ batch' = NoBatch
    /\ pc' = "batches"
    /\ UNCHANGED <<roads, todo, seen, round, batches, kept, dropped>>

EndRound ==
    /\ pc = "batches" /\ batches = {}
    /\ round' = round + 1
    /\ pc' = "round"
    /\ UNCHANGED <<roads, todo, seen, batches, batch, kept, dropped>>

Next ==
    \/ StartRound \/ Converged \/ OutOfRounds
    \/ StartBatch \/ ProcessTarget \/ EndBatch \/ EndRound

Spec == Init /\ [][Next]_vars

---------------------------------------------------------------------------
(* What the chain graph keeps *)

\* The anchors a graph of kept edges joins to an anchor.
Joined(edges, a) ==
    ReachedFrom({a}, {[from |-> e.a, to |-> e.b] : e \in edges} \cup
                     {[from |-> e.b, to |-> e.a] : e \in edges})

\* A road costs the same either way.
Even(e) == e.cost = e.reverse_cost

\* Replacing a pair by the two pairs through a third anchor never takes a
\* connection away: when the rounds have converged, the two anchors of a pair
\* that was dropped for a third are still joined, by pairs that were kept or
\* that were given up for a reason of their own.  Where a road costs more one
\* way than the other this fails: two pairs, looked at in opposite directions,
\* can be dropped for each other.
TrianglesLeaveAWay ==
    pc = "converged" /\ (\A e \in roads : Even(e)) =>
        \A d \in dropped : d.b \in Joined(kept \cup {x \in dropped : x.via = 0}, d.a)
=============================================================================
