---------------------------- MODULE TrunkRoute ----------------------------
(***************************************************************************)
(* route() of api/app/trunk_router.py: plan a chain of cities through the  *)
(* stops, get from the start onto the trunks, walk one trunk per leg of    *)
(* the chain, get from the last trunk to the end.                          *)
(*                                                                         *)
(* A road vertex is an integer, its distance to another their difference.  *)
(* Leg k joins chain[k+1] and chain[k+2], as the code counts from zero;    *)
(* leg 0 is never walked.  A trunk maps each of its vertices to its        *)
(* successor.  What the shortest-path trees and the road search find       *)
(* between a point and a trunk is any answer they can give.                *)
(***************************************************************************)
EXTENDS Integers, Sequences, FiniteSets

CONSTANTS
    Cities,
    StopLists,  \* start city, forced stops, end city of the requests
    Vertices,   \* the vertices trunks are made of
    Points,     \* where a start or an end can be snapped to
    SkipMax,    \* SKIP_MAX
    Scores,     \* lengths of the ways onto a leg and on to the end
    MaxChain,   \* bound on the length of a chain
    None

TrunkRouteAssumption ==
    /\ Points \subseteq Nat /\ Vertices \subseteq Points
    /\ SkipMax \in Nat /\ MaxChain \in Nat /\ Scores \subseteq Nat
    /\ IsFiniteSet(Cities)
    /\ None \notin Points

VARIABLES
    pc,
    stops,      \* of StopLists
    chain,
    trunk,      \* the blob of each pair of cities along the chain, leg 0's apart
    terminus,   \* chain_terminus_vid
    leg,        \* the loop's i, walk_start_i before it
    found,      \* the search for a leg to enter: [next, best, prev, salvage]
    walked,     \* the pieces walked: [leg, path]
    bridges     \* the reported jumps and skips: [leg, kind]

vars == <<pc, stops, chain, trunk, terminus, leg, found, walked, bridges>>

Least(S) == CHOOSE x \in S : \A y \in S : x <= y
Distance(u, v) == IF u < v THEN v - u ELSE u - v
Elems(s) == {s[n] : n \in DOMAIN s}
Nearest(S, v) ==
    Least({u \in S : \A w \in S : Distance(u, v) <= Distance(w, v)})

---------------------------------------------------------------------------
(* The plan *)

\* What a Dijkstra over the city graph returns for some weights of its edges.
CityPaths(a, b) ==
    {p \in UNION {[1..n -> Cities] : n \in 1..Cardinality(Cities)} :
        /\ p[1] = a /\ p[Len(p)] = b
        /\ \A m, n \in DOMAIN p : m # n => p[m] # p[n]}

\* The chains of the legs joined, the boundary city once.
Join(p, q) == p \o Tail(q)

Chains(s) ==
    IF Len(s) = 2 THEN CityPaths(s[1], s[2])
    ELSE {Join(p, q) : p \in CityPaths(s[1], s[2]), q \in CityPaths(s[2], s[3])}

Pairs(c) == {<<c[n], c[n + 1]>> : n \in 1..(Len(c) - 1)}

\* A blob's successors lie on one shortest-path tree; a successor that was
\* pruned away makes its vertex a root.
Decode(succ) ==
    [v \in DOMAIN succ |-> IF succ[v] \in DOMAIN succ THEN succ[v] ELSE None]

Acyclic(f) ==
    \A S \in SUBSET DOMAIN f : S # {} => \E v \in S : f[v] \notin S

Blobs == {f \in UNION {[S -> Vertices \cup {None}] : S \in (SUBSET Vertices) \ {{}}} :
            Acyclic(f)}

LegCount == Len(chain) - 1
Trunk(k) == Decode(trunk[<<chain[k + 1], chain[k + 2]>>])
Vids(k) == DOMAIN Trunk(k)

Skipped(ks) == [n \in 1..Cardinality(ks) |->
                  [leg |-> Least(ks) + n - 1, kind |-> "skipped"]]
SkippedPast(from, to) == Skipped(from..to)   \* Slip: the leg entered included
SkippedThrough(from, to) == Skipped(from..(to - 1))

NothingFound == [next |-> 1, best |-> None, prev |-> None, salvage |-> None]

Init ==
    /\ pc = "plan"
    /\ stops \in StopLists
    /\ chain = <<>> /\ trunk = <<>>
    /\ terminus \in Points
    /\ leg = 1
    /\ found = NothingFound
    /\ walked = <<>> /\ bridges = <<>>

NoPath ==
    /\ pc = "plan"
    /\ pc' = "raised"
    /\ UNCHANGED <<stops, chain, trunk, terminus, leg, found, walked, bridges>>

Plan ==
    /\ pc = "plan"
    /\ \E c \in Chains(stops) :
        /\ Len(c) <= MaxChain
        /\ chain' = c
        /\ trunk' \in [Pairs(Tail(c)) -> Blobs]
    /\ pc' = IF Len(chain') >= 3 THEN "first" ELSE "walk"
    /\ UNCHANGED <<stops, terminus, leg, found, walked, bridges>>

---------------------------------------------------------------------------
(* The first mile *)

\* Legs at most SkipMax ahead whose trunk holds the vertex.
Ahead(ks, v) == {k \in ks : k < LegCount /\ v \in Vids(k)}

StartOnTrunk ==
    /\ pc = "first"
    /\ LET hits == Ahead(1..SkipMax, terminus)
           first == IF hits = {} THEN 1 ELSE Least(hits) IN
        /\ leg' = first
        /\ bridges' = SkippedThrough(1, first)
        /\ pc' = IF first = 1 THEN "stitch" ELSE "walk"
    /\ UNCHANGED <<stops, chain, trunk, terminus, found, walked>>

\* A tree of chain[1] or chain[0] leads to the first trunk.
StitchByTree ==
    /\ pc = "stitch"
    /\ terminus' \in Vids(1)
    /\ pc' = "walk"
    /\ UNCHANGED <<stops, chain, trunk, leg, found, walked, bridges>>

\* None does; the best salvage is a vertex of the first trunk at most 30 km
\* from where a tree ends, or there is none that near.
StitchMisses ==
    /\ pc = "stitch"
    /\ \E s \in Vids(1) \cup {None} : found' = [found EXCEPT !.salvage = s]
    /\ pc' = "roads"
    /\ UNCHANGED <<stops, chain, trunk, terminus, leg, walked, bridges>>

\* One local Dijkstra per leg, until one scores worse than the one before.
InReach(k) == k <= SkipMax + 1 /\ k < LegCount

RoadsFail ==
    /\ pc = "roads" /\ InReach(found.next)
    /\ found' = [found EXCEPT !.next = @ + 1]
    /\ UNCHANGED <<pc, stops, chain, trunk, terminus, leg, walked, bridges>>

RoadsReach ==
    /\ pc = "roads" /\ InReach(found.next)
    /\ \E s \in Scores, v \in Vids(found.next) :
        /\ found' = [found EXCEPT
                !.next = @ + 1, !.prev = s,
                !.best = IF @ = None \/ s < @.score
                         THEN [leg |-> found.next, vid |-> v, score |-> s] ELSE @]
        /\ pc' = IF found.prev # None /\ s > found.prev THEN "enter" ELSE pc
    /\ UNCHANGED <<stops, chain, trunk, terminus, leg, walked, bridges>>

RoadsTried ==
    /\ pc = "roads" /\ ~InReach(found.next)
    /\ pc' = "enter"
    /\ UNCHANGED <<stops, chain, trunk, terminus, leg, found, walked, bridges>>

EnterByRoad ==
    /\ pc = "enter" /\ found.best # None
    /\ terminus' = found.best.vid
    /\ leg' = found.best.leg
    /\ bridges' = bridges \o SkippedThrough(leg, found.best.leg)
    /\ pc' = "walk" /\ found' = NothingFound
    /\ UNCHANGED <<stops, chain, trunk, walked>>

Salvage ==
    /\ pc = "enter" /\ found.best = None /\ found.salvage # None
    /\ terminus' = found.salvage
    /\ pc' = "walk" /\ found' = NothingFound
    /\ UNCHANGED <<stops, chain, trunk, leg, walked, bridges>>

\* The last resort leads through a city's tree to the nearest root of the
\* first trunk; when that fails too the walk starts with a bridge.
EnterByTree ==
    /\ pc = "enter" /\ found.best = None /\ found.salvage = None
    /\ LET roots == {v \in Vids(1) : Trunk(1)[v] = None}
           T == Nearest(roots, terminus) IN
        terminus' \in {T, terminus}
    /\ pc' = "walk" /\ found' = NothingFound
    /\ UNCHANGED <<stops, chain, trunk, leg, walked, bridges>>

---------------------------------------------------------------------------
(* The walk *)

\* The successors from a vertex to its root.
Walk(next, v) ==
    LET path[u \in DOMAIN next] ==
          IF next[u] = None THEN <<u>> ELSE <<u>> \o path[next[u]]
    IN  path[v]

TruncateNever(path, vids) == path   \* Slip: no cut

\* Cut behind the last vertex that the next leg's trunk holds too.
Truncate(path, vids) ==
    LET shared == {n \in DOMAIN path : path[n] \in vids} IN
    IF shared = {} THEN path
    ELSE SubSeq(path, 1, CHOOSE n \in shared : \A m \in shared : m <= n)

\* Not on this trunk, but on one a few legs ahead: go there.
Jumps == Ahead({leg + k : k \in 1..SkipMax}, terminus)

SkipAhead ==
    /\ pc = "walk" /\ leg < LegCount
    /\ terminus \notin Vids(leg) /\ Jumps # {}
    /\ bridges' = bridges \o SkippedThrough(leg, Least(Jumps))
    /\ leg' = Least(Jumps)
    /\ UNCHANGED <<pc, stops, chain, trunk, terminus, found, walked>>

WalkLeg ==
    /\ pc = "walk" /\ leg < LegCount
    /\ terminus \in Vids(leg) \/ Jumps = {}
    /\ LET entry == Nearest(Vids(leg), terminus)
           whole == Walk(Trunk(leg), entry)
           path == IF leg + 1 < LegCount THEN Truncate(whole, Vids(leg + 1)) ELSE whole
       IN  /\ walked' = Append(walked, [leg |-> leg, path |-> path])
           /\ bridges' = IF entry = terminus THEN bridges
                         ELSE Append(bridges, [leg |-> leg, kind |-> "gap"])
           /\ terminus' = path[Len(path)]
    /\ leg' = leg + 1
    /\ UNCHANGED <<pc, stops, chain, trunk, found>>

\* The first mile is reported once something was walked.
WalkDone ==
    /\ pc = "walk" /\ leg >= LegCount
    /\ bridges' = IF walked = <<>> THEN bridges
                  ELSE <<[leg |-> 0, kind |-> "first_mile"]>> \o bridges
    /\ pc' = "last"
    /\ UNCHANGED <<stops, chain, trunk, terminus, leg, found, walked>>

\* A tree of the end city, or of the city before it, leads to the end.
LastMile ==
    /\ pc = "last"
    /\ pc' = "done"
    /\ UNCHANGED <<stops, chain, trunk, terminus, leg, found, walked, bridges>>

LastMileStraight ==
    /\ pc = "last"
    /\ bridges' = Append(bridges, [leg |-> LegCount, kind |-> "last_mile"])
    /\ pc' = "done"
    /\ UNCHANGED <<stops, chain, trunk, terminus, leg, found, walked>>

Next ==
    \/ NoPath \/ Plan
    \/ StartOnTrunk \/ StitchByTree \/ StitchMisses
    \/ RoadsFail \/ RoadsReach \/ RoadsTried
    \/ EnterByRoad \/ Salvage \/ EnterByTree
    \/ SkipAhead \/ WalkLeg \/ WalkDone
    \/ LastMile \/ LastMileStraight

Spec == Init /\ [][Next]_vars

---------------------------------------------------------------------------
(* What a finished route owes its reader *)

Named(k, kind) == {n \in DOMAIN bridges : bridges[n] = [leg |-> k, kind |-> kind]}
Pieces(k) == {n \in DOMAIN walked : walked[n].leg = k}

\* Every leg of the chain but the first is either walked, once, or reported as
\* skipped, once: the map hides exactly the trunks that were not ridden.  Three
\* places of the code skip legs: on arrival, after a road search, in the loop.
LegsAccounted ==
    pc = "done" =>
        \A k \in 1..(LegCount - 1) :
            Cardinality(Pieces(k)) + Cardinality(Named(k, "skipped")) = 1

\* Two pieces walked one after the other meet in a vertex, unless a gap is
\* reported where they do not; and a gap is never reported when the earlier
\* piece, as far as it was ridden, touches the later trunk.
PiecesMeet ==
    \A n \in 2..Len(walked) :
        LET p == walked[n - 1]  q == walked[n]
            last == p.path[Len(p.path)] IN
        /\ last = q.path[1] <=> Named(q.leg, "gap") = {}
        /\ Named(q.leg, "gap") # {} => Elems(p.path) \cap Vids(q.leg) = {}
=============================================================================
