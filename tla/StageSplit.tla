---------------------------- MODULE StageSplit ----------------------------
(***************************************************************************)
(* split_into_stages of api/app/tools.py: the days of a route.  The places *)
(* are points of a line, an anchor is named by where it lies, and a route  *)
(* is the sequence of points it passes, perhaps out and back.  It may be a *)
(* route cached for other vias between the same ends, so a stop need not   *)
(* lie on it.  Lengths are in kilometres of the route call, so its length  *)
(* hint is already applied.  A route of fewer points is an error of the    *)
(* call: RouteTools.                                                       *)
(***************************************************************************)
EXTENDS Integers, Sequences, FiniteSets

CONSTANTS
    Places,     \* where a polyline may have a vertex
    Anchors,    \* those of them that are anchors
    MaxLen,     \* bound on the vertices of a polyline
    MaxStops,   \* bound on from_ref, via_refs and to_ref
    Targets     \* kilometres per day asked for

StageSplitAssumption ==
    /\ Anchors \subseteq Places /\ Places \subseteq Nat
    /\ MaxLen \in Nat /\ MaxStops \in Nat /\ Targets \subseteq Nat \ {0}

VARIABLES
    pc,
    poly,       \* the cached polyline
    stops,      \* from_ref, the via_refs, to_ref
    target,     \* target_km_per_day, in kilometres
    seg,        \* the segment between stops[seg] and stops[seg + 1]
    cut,        \* the next cut of that segment
    overnights  \* [ref, idx]

vars == <<pc, poly, stops, target, seg, cut, overnights>>

Distance(u, v) == IF u < v THEN v - u ELSE u - v
Least(S) == CHOOSE x \in S : \A y \in S : x <= y

\* How far along the polyline each of its vertices lies.
Cum[n \in DOMAIN poly] ==
    IF n = 1 THEN 0 ELSE Cum[n - 1] + Distance(poly[n - 1], poly[n])

Near(place) == {n \in DOMAIN poly : \A m \in DOMAIN poly :
                    Distance(poly[n], place) <= Distance(poly[m], place)}

\* The first vertex nearest to a place, and an anchor nearest to a vertex.
VertexNear(place) == Least(Near(place))
NearestAnchors(place) ==
    {x \in Anchors : \A y \in Anchors : Distance(x, place) <= Distance(y, place)}

StopIdx(k) == VertexNear(stops[k])

\* Half to even, as round() does.
RoundRatio(a, b) ==
    LET q == a \div b  r == 2 * (a % b) IN
    IF r > b \/ (r = b /\ q % 2 = 1) THEN q + 1 ELSE q

SegKm == Cum[StopIdx(seg + 1)] - Cum[StopIdx(seg)]
Days == LET n == RoundRatio(SegKm, target) IN IF n < 1 THEN 1 ELSE n

\* The vertex closest to the cut at c / d of the segment, the later of two.
IdxAtCut(c, d) ==
    LET at == d * Cum[StopIdx(seg)] + c * SegKm
        reached == {n \in 2..Len(poly) : d * Cum[n] >= at} IN
    IF reached = {} THEN Len(poly)
    ELSE LET n == Least(reached) IN
         IF at - d * Cum[n - 1] < d * Cum[n] - at THEN n - 1 ELSE n

LastNight == overnights[Len(overnights)]

Init ==
    /\ pc = "split"
    /\ poly \in UNION {[1..m -> Places] : m \in 2..MaxLen}
    /\ stops \in UNION {[1..m -> Anchors] : m \in 2..MaxStops}
    /\ 1 \in Near(stops[1]) /\ Len(poly) \in Near(stops[Len(stops)])
    /\ target \in Targets
    /\ seg = 1 /\ cut = 1
    /\ overnights = <<[ref |-> stops[1], idx |-> StopIdx(1)]>>

NextStop == [ref |-> stops[seg + 1], idx |-> StopIdx(seg + 1)]
Degenerate == StopIdx(seg + 1) <= StopIdx(seg)

\* Slip: two stops at one vertex leave no night at the second.
CloseUnlessDegenerate ==
    /\ pc = "split"
    /\ Degenerate \/ cut >= Days
    /\ overnights' = IF Degenerate THEN overnights ELSE Append(overnights, NextStop)
    /\ seg' = seg + 1 /\ cut' = 1
    /\ pc' = IF seg + 1 = Len(stops) THEN "done" ELSE pc
    /\ UNCHANGED <<poly, stops, target>>

\* The segment's last night is at its stop, cut or not.
CloseSegment ==
    /\ pc = "split"
    /\ Degenerate \/ cut >= Days
    /\ overnights' = Append(overnights, NextStop)
    /\ seg' = seg + 1 /\ cut' = 1
    /\ pc' = IF seg + 1 = Len(stops) THEN "done" ELSE pc
    /\ UNCHANGED <<poly, stops, target>>

\* The night of a cut is at the anchor nearest to it.  The code also asks that
\* this anchor's ref differ from the last night's index: it always does.
CutAdvances == IdxAtCut(cut, Days) > LastNight.idx

AddCut ==
    /\ pc = "split" /\ ~Degenerate /\ cut < Days
    /\ CutAdvances
    /\ \E a \in NearestAnchors(poly[IdxAtCut(cut, Days)]) :
        overnights' = Append(overnights, [ref |-> a, idx |-> IdxAtCut(cut, Days)])
    /\ cut' = cut + 1
    /\ UNCHANGED <<pc, poly, stops, target, seg>>

DropCut ==
    /\ pc = "split" /\ ~Degenerate /\ cut < Days
    /\ ~CutAdvances
    /\ cut' = cut + 1
    /\ UNCHANGED <<pc, poly, stops, target, seg, overnights>>

Next == CloseSegment \/ AddCut \/ DropCut

Spec == Init /\ [][Next]_vars

---------------------------------------------------------------------------
Stage(n) == Cum[overnights[n + 1].idx] - Cum[overnights[n].idx]

\* Day n ends at a stop whose first nearest vertex lies before that of the
\* stop before it.
TurnsBack(n) ==
    \E k \in 1..(Len(stops) - 1) :
        overnights[n + 1].ref = stops[k + 1] /\ StopIdx(k + 1) < StopIdx(k)

\* From its first vertex to its last the route passes the stops in the order of
\* the request, stop k at vertex f[k].
InOrder(f) ==
    /\ f[1] = 1 /\ f[Len(stops)] = Len(poly)
    /\ \A k \in DOMAIN stops : f[k] \in Near(stops[k])
    /\ \A j, k \in DOMAIN stops : j <= k => f[j] <= f[k]
PassedBefore(f) == \E k \in DOMAIN stops : \E n \in Near(stops[k]) : n < f[k]

\* Every stop of the request is a night, in the order of the request; only a
\* day to a stop that lies behind on the polyline rides backwards; and when the
\* route passes the stops in that order, no day does, and the days add up to
\* the route.  Not so when it has passed a stop before its turn: the code takes
\* the first vertex nearest to it, so the kilometres after the first visit of
\* to_ref are lost, and the last day of a round trip leads back to the start,
\* over no polyline and a negative number of kilometres.
DaysTellTheRoute ==
    pc = "done" =>
        /\ \E f \in [DOMAIN stops -> DOMAIN overnights] :
            /\ \A k \in DOMAIN stops : overnights[f[k]].ref = stops[k]
            /\ \A j, k \in DOMAIN stops : j < k => f[j] < f[k]
        /\ \A n \in 1..(Len(overnights) - 1) : Stage(n) < 0 => TurnsBack(n)
        /\ (\E f \in [DOMAIN stops -> DOMAIN poly] : InOrder(f) /\ ~PassedBefore(f)) =>
            /\ \A n \in 1..(Len(overnights) - 1) : Stage(n) >= 0
            /\ overnights[1].idx = 1
            /\ LastNight.idx = Len(poly)
=============================================================================
