------------------------------ MODULE RoadCost ------------------------------
(***************************************************************************)
(* pgrouting/cost: bike_edge_cost() prices a metre of road for a profile,  *)
(* recompute() writes the prices of one profile into its own two columns   *)
(* of ways, a tile at a time, with a commit after each.                    *)
(*                                                                         *)
(* Factors are whole hundredths and rounded down, grades whole percents,   *)
(* the land a line.  Of the scenic signals the model keeps one that counts *)
(* by itself, one that depends on its surroundings and one that is seen    *)
(* only from above.                                                        *)
(***************************************************************************)
EXTENDS Integers, Sequences, FiniteSetsExt, TLC

CONSTANTS
    Edges,          \* rows of ways with their tags
    Place,          \* [vertex -> Nat], its longitude
    Surveys,        \* the elevations there may be: [vertex -> Int or None]
    Tanh(_),        \* of hundredths, in hundredths
    Asked,          \* the profiles that are recomputed
    TILE_SIZE,
    MaxKills,       \* bound
    MaxRuns,        \* bound
    None

RoadCostAssumption ==
    /\ IsFiniteSet(DOMAIN Place) /\ Place \in [DOMAIN Place -> Nat]
    /\ \A e \in Edges : {e.src, e.dst} \subseteq DOMAIN Place /\ e.length \in Nat
    /\ \A x \in -1000..1000 : Tanh(x) \in -99..99 /\ (x > 0 => Tanh(x) >= 0)
    /\ TILE_SIZE \in Nat \ {0} /\ MaxKills \in Nat /\ MaxRuns \in Nat

VARIABLES
    pc,
    profile,        \* the one at work
    tiles,          \* what is left of its tiles, by their western border
    column,         \* [profile -> [edge -> [cost, reverse_cost] or None]]
    elev,
    current,        \* the profiles recomputed in full since the elevations came
    kills,
    runs

vars == <<pc, profile, tiles, column, elev, current, kills, runs>>

---------------------------------------------------------------------------
(* The tables *)

Exclude == {"motorway", "motorway_link", "proposed", "abandoned", "construction",
            "raceway", "elevator", "platform"}

\* With bicycle infrastructure and without.
Links(cost, kinds) == [h \in kinds |-> cost]
HighwayCostBike ==
    Links(90, {"cycleway"}) @@ Links(130, {"service", "primary", "primary_link"})
    @@ Links(100, {"residential", "living_street", "unclassified", "tertiary", "tertiary_link"})
    @@ Links(110, {"track", "path", "footway", "secondary", "secondary_link"})
    @@ Links(150, {"trunk", "trunk_link"}) @@ Links(220, {"pedestrian"})
    @@ Links(500, {"bridleway"})
HighwayCostNoBike ==
    Links(90, {"cycleway"}) @@ Links(100, {"residential", "living_street"})
    @@ Links(110, {"track"}) @@ Links(130, {"service", "unclassified"})
    @@ Links(140, {"tertiary", "tertiary_link"}) @@ Links(180, {"secondary", "secondary_link"})
    @@ Links(200, {"path"}) @@ Links(300, {"pedestrian"})
    @@ Links(400, {"primary", "primary_link"}) @@ Links(500, {"footway", "bridleway"})
    @@ Links(1000, {"trunk", "trunk_link"})

TrackType == [grade1 |-> 100, grade2 |-> 140, grade3 |-> 200, grade4 |-> 400, grade5 |-> 10000]

Surface ==
    Links(100, {"asphalt", "paved", "concrete", "paving_stones", "compacted"})
    @@ Links(110, {"fine_gravel"}) @@ Links(130, {"gravel", "pebblestone", "sett"})
    @@ Links(150, {"dirt", "earth", "ground", "unpaved"}) @@ Links(170, {"cobblestone"})
    @@ Links(300, {"grass", "woodchips"}) @@ Links(1000, {"sand", "mud", "ice", "snow"})

\* One profile of each shape: k and per are the two forms of the scenic factor,
\* ramp the score at which the softening of bad surfaces sets in.
Knobs(k, mult, soft, threshold, offset, ramp, per) ==
    [k |-> k, mult |-> mult, soft |-> soft, threshold |-> threshold, offset |-> offset,
     ramp |-> ramp, per |-> per]
Profile ==
    [direct             |-> Knobs(0, 0, 100, 0, 0, 0, <<>>),
     scenic             |-> Knobs(40, 1, 50, 0, 0, 0, <<>>),
     direct_thresh5     |-> Knobs(0, 0, 100, 5, 0, 0, <<>>),
     direct_interactive |-> Knobs(30, 3, 50, 0, 0, 50, <<>>),
     forest_lover       |-> Knobs(0, 3, 100, 0, 3, 0,
                                  [forest_local |-> 30, vista_forest |-> 30, relief |-> 10,
                                   waterway |-> 10])]

Weight == [forest_local |-> 50, waterway |-> 80, relief |-> 60, vista_forest |-> 50]
Midpoint == 50

---------------------------------------------------------------------------
(* bike_edge_cost() *)

Clip(x) == IF x < 0 THEN 0 ELSE IF x > 100 THEN 100 ELSE x
Times(a, b) == (a * b) \div 100
Product(factors) == FoldFunction(Times, 100, factors)

\* A stream counts for more in a gorge or a forest, a far forest only if one
\* looks down on it.
SignalValues(e) ==
    [forest_local |-> e.forest,
     waterway     |-> Times(e.water, 50 + Clip(e.relief) \div 2 + e.forest \div 2),
     relief       |-> Clip(e.relief),
     vista_forest |-> Times(IF e.view < 0 THEN 0 ELSE e.view, e.wide)]

Score(p, values) ==
    FoldFunction(+, 0, [s \in DOMAIN values |-> Times(Weight[s], values[s])]) * p.mult

ScenicFactor(p, score) == 100 - Times(p.k, Tanh(score - Midpoint))
ScenicFactorMulti(p, values) ==
    Product([s \in DOMAIN p.per |->
                100 - Times(p.per[s], Tanh(Times(Weight[s], values[s]) * p.mult))])

\* How much of a penalty stays.
Softening(p, score) ==
    IF p.ramp = 0 THEN p.soft
    ELSE 100 - Times(100 - p.soft, Clip(((score - p.ramp) * 100) \div p.ramp))
Soften(factor, softening) ==
    IF factor <= 100 THEN factor ELSE 100 + Times(factor - 100, softening)

HasBikeInfra(e) ==
    \/ e.bicycle_road
    \/ e.bicycle \in {"designated", "yes", "permissive"}
    \/ e.cycleway \notin {"no", "none", ""}

Excluded(e) ==
    \/ e.ferry /\ e.bicycle \in {"no", "private"}
    \/ /\ ~e.ferry
       /\ \/ e.highway \in Exclude \cup {""}
          \/ e.access \in {"private", "no"}
             /\ e.bicycle \notin {"yes", "designated", "permissive"}
          \/ e.bicycle \in {"no", "private", "dismount"}

BaseCost(e) ==
    LET table == IF HasBikeInfra(e) THEN HighwayCostBike ELSE HighwayCostNoBike
    IN  IF e.highway \in DOMAIN table THEN table[e.highway] ELSE 200

Ground(p, e, score) ==
    LET left == Softening(p, score) IN
    Times(IF e.tracktype \in DOMAIN TrackType /\ e.highway \in {"track", "path", "footway", "road"}
          THEN Soften(TrackType[e.tracktype], left) ELSE 100,
          IF e.surface \in DOMAIN Surface THEN Soften(Surface[e.surface], left) ELSE 100)

\* 2.8 hundredths a squared percent uphill; downhill a bonus up to ten percent,
\* and a penalty for the bends ahead.
Grade(p, grade, curv) ==
    LET g == -grade
        climb == IF grade > p.offset THEN grade - p.offset ELSE 0
    IN  CASE grade > 0 -> IF grade <= p.threshold THEN 100 ELSE 100 + (28 * climb * climb) \div 10
          [] grade < 0 -> Times(100 - 5 * g + (g * g) \div 2, 100 + (curv * g) \div 20)
          [] OTHER -> 100

BikeEdgeCost(e, grade, curv, name) ==
    LET p == Profile[name]
        values == SignalValues(e)
        score == Score(p, values)
    IN  IF Excluded(e) THEN None
        ELSE IF e.ferry THEN 800
        ELSE Product(<<BaseCost(e), Ground(p, e, score), IF e.bicycle_road THEN 90 ELSE 100,
                       Grade(p, grade, curv), 100 - e.canopy \div 10,
                       IF p.per # <<>> THEN ScenicFactorMulti(p, values)
                       ELSE ScenicFactor(p, score)>>)

---------------------------------------------------------------------------
(* recompute() *)

GradeOf(e) ==
    IF elev[e.src] = None \/ elev[e.dst] = None \/ e.length = 0 THEN 0
    ELSE ((elev[e.dst] - elev[e.src]) * 100) \div e.length

\* Slip: the way back is priced with the grade of the way there.
PricedOneGrade(e, name) ==
    LET there == BikeEdgeCost(e, GradeOf(e), e.curv_fwd, name)
        back == BikeEdgeCost(e, GradeOf(e), e.curv_rev, name)
    IN  IF there = None THEN None
        ELSE [cost |-> there * e.length,
              reverse_cost |-> IF e.reverse_cost < 0 \/ back = None THEN -1
                               ELSE back * e.length]

Priced(e, name) ==
    LET there == BikeEdgeCost(e, GradeOf(e), e.curv_fwd, name)
        back == BikeEdgeCost(e, -GradeOf(e), e.curv_rev, name)
    IN  IF there = None THEN None
        ELSE [cost |-> there * e.length,
              reverse_cost |-> IF e.reverse_cost < 0 \/ back = None THEN -1
                               ELSE back * e.length]

\* An edge belongs to the tile of its source.
EdgesOf(tile) == {e \in Edges : Place[e.src] >= tile /\ Place[e.src] < tile + TILE_SIZE}

IterTiles ==
    LET lon == Range(Place)
        first == (Min(lon) \div TILE_SIZE) * TILE_SIZE
        count == (Max(lon) - first + TILE_SIZE - 1) \div TILE_SIZE
    IN  {t \in {first + i * TILE_SIZE : i \in 0..count - 1} : EdgesOf(t) # {}}

Init ==
    /\ pc = "idle" /\ profile = None /\ tiles = {}
    /\ column = [p \in Asked |-> [e \in Edges |-> None]]
    /\ elev \in Surveys
    /\ current = {} /\ kills = 0 /\ runs = 0

Recompute ==
    /\ pc = "idle" /\ runs < MaxRuns
    /\ profile' \in Asked
    /\ tiles' = IterTiles
    /\ pc' = "tiles"
    /\ runs' = runs + 1
    /\ UNCHANGED <<column, elev, current, kills>>

\* An edge that is not priced keeps what its columns held.
RecomputeTile ==
    /\ pc = "tiles" /\ tiles # {}
    /\ column' = [column EXCEPT ![profile] =
                    [e \in Edges |-> IF e \in EdgesOf(Min(tiles)) /\ Priced(e, profile) # None
                                     THEN Priced(e, profile) ELSE @[e]]]
    /\ tiles' = tiles \ {Min(tiles)}
    /\ UNCHANGED <<pc, profile, elev, current, kills, runs>>

Done ==
    /\ pc = "tiles" /\ tiles = {}
    /\ pc' = "idle"
    /\ current' = current \cup {profile}
    /\ UNCHANGED <<profile, tiles, column, elev, kills, runs>>

\* In a tile: what it had not committed is gone.
Kill ==
    /\ pc = "tiles" /\ kills < MaxKills
    /\ pc' = "idle" /\ tiles' = {}
    /\ kills' = kills + 1
    /\ UNCHANGED <<profile, column, elev, current, runs>>

\* ingest_dem fills in elevations, between two runs.
IngestDem ==
    /\ pc = "idle"
    /\ elev' \in Surveys \ {elev}
    /\ \A v \in DOMAIN Place : elev[v] # None => elev'[v] = elev[v]
    /\ current' = {}
    /\ UNCHANGED <<pc, profile, tiles, column, kills, runs>>

Next == Recompute \/ RecomputeTile \/ Done \/ Kill \/ IngestDem

Spec == Init /\ [][Next]_vars

---------------------------------------------------------------------------
(* What may be relied on *)

\* However often recompute() was killed or ran for other profiles in between, its
\* last full run for a profile leaves every rideable edge, and every ferry, at the
\* price that the elevations of today give.
ColumnsArePriced ==
    \A p \in current, e \in Edges : Priced(e, p) # None => column[p][e] = Priced(e, p)

\* The tiles end before the easternmost vertex if it lies on a border of theirs.
NoneOnTheRim == Max(Range(Place)) % TILE_SIZE # 0

\* And these prices are those of their directions: of a rideable edge above zero,
\* the way back closed exactly where ways closes it, and on a straight edge the
\* climb dearer than the descent.
CostsKeepDirections ==
    /\ ColumnsArePriced
    /\ \A p \in current, e \in Edges : (~Excluded(e) /\ e.length > 0) =>
            /\ column[p][e] # None /\ column[p][e].cost > 0
            /\ IF e.reverse_cost < 0 THEN column[p][e].reverse_cost = -1
               ELSE /\ column[p][e].reverse_cost > 0
                    /\ (GradeOf(e) > 0 /\ e.curv_rev = 0 /\ ~e.ferry) =>
                            column[p][e].cost > column[p][e].reverse_cost
=============================================================================
