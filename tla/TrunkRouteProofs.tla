-------------------------- MODULE TrunkRouteProofs --------------------------
(***************************************************************************)
(* Theorems about route(): whatever chain of cities, whatever trunks and   *)
(* wherever the trees and the road search lead, every leg is ridden once   *)
(* or reported once, and the pieces meet unless a gap is reported.         *)
(* TrunkViews, below: the chains a trunk is drawn with.                    *)
(***************************************************************************)
EXTENDS TrunkRoute, FiniteSetTheorems, SequenceTheorems, NaturalsInduction, TLAPS

Kinds == {"skipped", "gap", "first_mile", "last_mile"}
Bridge == [leg : Nat, kind : Kinds]
Piece == [leg : Nat, path : {p \in Seq(Vertices) : p # <<>>}]

(* A decoded trunk: every vertex has its successor on it, or is a root.     *)
IsTrunk(f) ==
    /\ DOMAIN f \subseteq Vertices /\ DOMAIN f # {}
    /\ \A v \in DOMAIN f : f[v] \in DOMAIN f \cup {None}
    /\ Acyclic(f)

Legs == 1..(LegCount - 1)

TypeOK ==
    /\ pc \in {"plan", "raised", "first", "stitch", "roads", "enter", "walk", "last", "done"}
    /\ chain \in Seq(Cities)
    /\ pc \notin {"plan", "raised"} => chain # <<>> /\ \A k \in Legs : IsTrunk(Trunk(k))
    /\ terminus \in Points /\ leg \in Nat \ {0}
    /\ walked \in Seq(Piece) /\ bridges \in Seq(Bridge)
    /\ found.salvage \in Points \cup {None} /\ found.next \in Nat \ {0}

Searching == {"plan", "raised", "first", "stitch", "roads", "enter"}

(* Until a trunk is entered nothing is walked and nothing is reported; a    *)
(* leg the road search has found is one of the chain's.                     *)
SearchInv ==
    pc \in Searching =>
        /\ leg = 1 /\ walked = <<>> /\ bridges = <<>>
        /\ pc \notin {"plan", "raised"} => 1 \in Legs
        /\ pc \in {"plan", "raised", "first", "stitch"} => found.best = None
        /\ found.best # None =>
             found.best.leg \in Legs /\ found.best.vid \in Vids(found.best.leg)

(* Nothing is known of the legs ahead; each leg behind is ridden or skipped.*)
Single(S) == \E n \in S : S = {n}
Ridden(k) == Single(Pieces(k)) /\ Named(k, "skipped") = {}
Reported(k) == Pieces(k) = {} /\ Single(Named(k, "skipped"))
Pending(k) == Pieces(k) = {} /\ Named(k, "skipped") = {} /\ Named(k, "gap") = {}

AccountInv ==
    /\ \A k \in Nat : k >= leg => Pending(k)
    /\ \A k \in Legs : k < leg => Ridden(k) \/ Reported(k)
    /\ pc \in {"last", "done"} => leg >= LegCount

(* The walk stands at the end of its last piece, which ends on the next     *)
(* trunk if it touches it; after a skip it stands on the trunk ahead.       *)
StandInv ==
    walked # <<>> =>
        LET p == walked[Len(walked)] IN
        /\ terminus = p.path[Len(p.path)]
        /\ p.leg < leg
        /\ leg < LegCount /\ leg = p.leg + 1 =>
             terminus \in Vids(leg) \/ Elems(p.path) \cap Vids(leg) = {}
        /\ leg < LegCount /\ leg # p.leg + 1 => terminus \in Vids(leg)

MeetInv ==
    /\ \A n \in DOMAIN walked : walked[n].leg < leg
    /\ PiecesMeet

RouteInv == TypeOK /\ SearchInv /\ AccountInv /\ StandInv /\ MeetInv

-----------------------------------------------------------------------------
(* What the operators of route() compute.                                   *)

(* A nonempty set of naturals has a least element.                          *)
LEMMA LeastNat ==
  ASSUME NEW S \in SUBSET Nat, S # {}
  PROVE  \E x \in S : \A y \in S : x <= y
<1> DEFINE R == OpToRel(<, Nat)
<1>1. \E x \in S : \A y \in S : <<y, x>> \notin R
  BY WFMin, NatLessThanWellFounded
<1>2. \A x, y \in Nat : <<x, y>> \in R <=> x < y
  BY DEF OpToRel
<1> HIDE DEF R
<1>3. PICK x \in S : \A y \in S : <<y, x>> \notin R
  BY <1>1
<1>4. \A y \in S : ~ (y < x)
  BY <1>2, <1>3
<1>5. \A y \in S : x <= y
  BY <1>4
<1> QED
  BY <1>5

(* Least returns it.                                                        *)
LEMMA LeastIs ==
  ASSUME NEW S \in SUBSET Nat, S # {}
  PROVE  Least(S) \in S /\ \A y \in S : Least(S) <= y
BY LeastNat DEF Least

(* A bounded set of naturals has a greatest element.                        *)
LEMMA GreatestNat ==
  ASSUME NEW b \in Nat, NEW S \in SUBSET (0..b), S # {}
  PROVE  \E x \in S : \A y \in S : y <= x
<1> DEFINE T == {b - y : y \in S}
<1>1. T \in SUBSET Nat /\ T # {}
  <2>1. \A y \in S : b - y \in Nat
    OBVIOUS
  <2>2. PICK y \in S : TRUE
    OBVIOUS
  <2>3. b - y \in T
    OBVIOUS
  <2> QED
    BY <2>1, <2>3
<1>2. PICK x \in T : \A y \in T : x <= y
  BY <1>1, LeastNat
<1>3. PICK z \in S : x = b - z
  BY <1>2
<1>4. ASSUME NEW y \in S PROVE y <= z
  <2>1. x <= b - y
    BY <1>2
  <2> QED
    BY <2>1, <1>3
<1> QED
  BY <1>4

(* The nearest vertex of a trunk is on it, and is the point itself when the *)
(* point is on it.                                                          *)
LEMMA NearestIs ==
  ASSUME NEW S \in SUBSET Nat, S # {}, NEW v \in Nat
  PROVE  /\ Nearest(S, v) \in S
         /\ v \in S => Nearest(S, v) = v
<1> DEFINE D == {Distance(u, v) : u \in S}
           N == {u \in S : \A w \in S : Distance(u, v) <= Distance(w, v)}
<1>0. \A u \in Nat : Distance(u, v) \in Nat /\ (Distance(u, v) = 0 <=> u = v)
  BY DEF Distance
<1>1. D \in SUBSET Nat /\ D # {}
  BY <1>0
<1>2. PICK d \in D : \A e \in D : d <= e
  BY <1>1, LeastNat
<1>3. N # {} /\ N \in SUBSET Nat
  <2>1. PICK u \in S : d = Distance(u, v)
    BY <1>2
  <2>2. \A w \in S : Distance(w, v) \in D
    OBVIOUS
  <2>3. u \in N
    BY <1>2, <2>1, <2>2
  <2> QED
    BY <2>3
<1>4. Nearest(S, v) \in N
  BY <1>3, LeastIs DEF Nearest
<1>5. ASSUME v \in S PROVE \A u \in N : u = v
  <2>1. Distance(v, v) = 0
    BY <1>0
  <2> TAKE u \in N
  <2>2. Distance(u, v) <= Distance(v, v)
    BY <1>5
  <2>3. Distance(u, v) = 0
    BY <2>1, <2>2, <1>0
  <2> QED
    BY <2>3, <1>0
<1> QED
  BY <1>4, <1>5

(* The legs skipped, in their order, each once.                             *)
LEMMA SkippedIs ==
  ASSUME NEW from \in Nat, NEW to \in Nat, from <= to
  PROVE  SkippedThrough(from, to) =
           [n \in 1..(to - from) |-> [leg |-> from + n - 1, kind |-> "skipped"]]
<1>1. Cardinality(from..(to - 1)) = to - from
  <2>1. from \in Int /\ to - 1 \in Int
    OBVIOUS
  <2>2. Cardinality(from..(to - 1)) = IF from > to - 1 THEN 0 ELSE (to - 1) - from + 1
    BY <2>1, FS_Interval
  <2> QED
    BY <2>2
<1>2. CASE from = to
  BY <1>1, <1>2 DEF SkippedThrough, Skipped
<1>3. CASE from < to
  <2>1. from \in from..(to - 1) /\ \A y \in from..(to - 1) : from <= y
    BY <1>3
  <2>2. from..(to - 1) \in SUBSET Nat
    OBVIOUS
  <2>3. Least(from..(to - 1)) \in from..(to - 1) /\ Least(from..(to - 1)) <= from
    <3> DEFINE I == from..(to - 1)
    <3>1. from \in I /\ I \in SUBSET Nat /\ I # {}
      BY <2>1, <2>2
    <3> HIDE DEF I
    <3>2. Least(I) \in I /\ Least(I) <= from
      BY <3>1, LeastIs
    <3> QED
      BY <3>2 DEF I
  <2>4. Least(from..(to - 1)) = from
    BY <2>3
  <2> QED
    BY <1>1, <2>4 DEF SkippedThrough, Skipped
<1> QED
  BY <1>2, <1>3

(* A decoded blob is a trunk.                                               *)
LEMMA DecodedIsTrunk ==
  ASSUME TrunkRouteAssumption, NEW succ \in Blobs
  PROVE  IsTrunk(Decode(succ))
<1> DEFINE f == Decode(succ)
<1>1. Acyclic(succ) /\ \E S \in SUBSET Vertices : S # {} /\ succ \in [S -> Vertices \cup {None}]
  <2> DEFINE F == UNION {[S -> Vertices \cup {None}] : S \in (SUBSET Vertices) \ {{}}}
  <2>0. Blobs = {b \in F : Acyclic(b)}
    BY DEF Blobs
  <2>1. succ \in F
    BY <2>0
  <2>2. Acyclic(succ)
    <3> HIDE DEF F
    <3> QED
      BY <2>0, Zenon
  <2> QED
    BY <2>1, <2>2
<1>0. PICK S \in SUBSET Vertices : S # {} /\ succ \in [S -> Vertices \cup {None}]
  BY <1>1
<1>2. DOMAIN f = S /\ DOMAIN succ = S
  BY <1>0 DEF Decode
<1>3. \A v \in S : f[v] = IF succ[v] \in S THEN succ[v] ELSE None
  BY <1>0 DEF Decode
<1>4. None \notin S
  BY DEF TrunkRouteAssumption
<1>5. Acyclic(f)
  <2> SUFFICES ASSUME NEW U \in SUBSET S, U # {} PROVE \E v \in U : f[v] \notin U
    BY <1>2 DEF Acyclic
  <2>1. PICK v \in U : succ[v] \notin U
    BY <1>1, <1>2 DEF Acyclic
  <2> QED
    BY <2>1, <1>3, <1>4
<1> QED
  BY <1>0, <1>2, <1>3, <1>5 DEF IsTrunk

(* p leads along the trunk f from v to its root.                            *)
LeadsToRoot(f, v, p) ==
    /\ p \in Seq(DOMAIN f) /\ p # <<>> /\ p[1] = v
    /\ \A k \in 1..(Len(p) - 1) : f[p[k]] = p[k + 1]
    /\ f[p[Len(p)]] = None

(* A root leads to itself; before a way to the root goes its predecessor.   *)
LEMMA OneMore ==
  ASSUME NEW f, IsTrunk(f), NEW u \in DOMAIN f
  PROVE  /\ f[u] = None => LeadsToRoot(f, u, <<u>>)
         /\ \A q : LeadsToRoot(f, f[u], q) => LeadsToRoot(f, u, <<u>> \o q)
<1>1. ASSUME f[u] = None PROVE LeadsToRoot(f, u, <<u>>)
  <2> DEFINE p == <<u>>
  <2>1. p \in Seq(DOMAIN f) /\ p # <<>> /\ p[1] = u /\ Len(p) = 1
    OBVIOUS
  <2> QED
    BY <2>1, <1>1 DEF LeadsToRoot
<1>2. ASSUME NEW q, LeadsToRoot(f, f[u], q) PROVE LeadsToRoot(f, u, <<u>> \o q)
  <2>3. q \in Seq(DOMAIN f) /\ q # <<>> /\ q[1] = f[u] /\ f[q[Len(q)]] = None
        /\ (\A k \in 1..(Len(q) - 1) : f[q[k]] = q[k + 1])
    BY <1>2 DEF LeadsToRoot
  <2> DEFINE p == <<u>> \o q
  <2>4. p \in Seq(DOMAIN f) /\ p # <<>> /\ p[1] = u /\ Len(p) = Len(q) + 1 /\ Len(q) >= 1
        /\ \A k \in 1..Len(q) : p[k + 1] = q[k]
    BY <2>3
  <2> HIDE DEF p
  <2>5. ASSUME NEW k \in 1..(Len(p) - 1) PROVE f[p[k]] = p[k + 1]
    <3>1. CASE k = 1
      BY <3>1, <2>3, <2>4
    <3>2. CASE k > 1
      <4>1. k - 1 \in 1..(Len(q) - 1)
        BY <3>2, <2>3, <2>4
      <4>2. f[q[k - 1]] = q[(k - 1) + 1]
        BY <4>1, <2>3
      <4>3. p[k] = q[k - 1] /\ p[k + 1] = q[k]
        BY <4>1, <2>3, <2>4
      <4> QED
        BY <4>2, <4>3
    <3> QED
      BY <3>1, <3>2
  <2>6. p[Len(p)] = q[Len(q)]
    BY <2>3, <2>4
  <2>7. LeadsToRoot(f, u, p)
    BY <2>3, <2>4, <2>5, <2>6 DEF LeadsToRoot
  <2> QED
    BY <2>7 DEF p
<1> QED
  BY <1>1, <1>2

(* There is a way to the root.                                              *)
LEMMA WayExists ==
  ASSUME NEW f, IsTrunk(f), NEW v \in DOMAIN f
  PROVE  \E p : LeadsToRoot(f, v, p)
<1> DEFINE S == {u \in DOMAIN f : ~ \E p : LeadsToRoot(f, u, p)}
<1>1. SUFFICES ASSUME S # {} PROVE FALSE
  OBVIOUS
<1>2. PICK u \in S : f[u] \notin S
  BY <1>1 DEF IsTrunk, Acyclic
<1>3. f[u] = None \/ \E q : LeadsToRoot(f, f[u], q)
  BY <1>2 DEF IsTrunk
<1> QED
  BY <1>2, <1>3, OneMore

(* There is one only.                                                       *)
LEMMA WayIsOne ==
  ASSUME NEW f, IsTrunk(f), NEW v \in DOMAIN f, None \notin DOMAIN f,
         NEW p, NEW q, LeadsToRoot(f, v, p), LeadsToRoot(f, v, q)
  PROVE  p = q
<1> DEFINE S == {u \in DOMAIN f : \E a, b : a # b /\ LeadsToRoot(f, u, a) /\ LeadsToRoot(f, u, b)}
<1>1. SUFFICES ASSUME S # {} PROVE FALSE
  OBVIOUS
<1>2. PICK u \in S : f[u] \notin S
  BY <1>1 DEF IsTrunk, Acyclic
<1>3. PICK a, b : a # b /\ LeadsToRoot(f, u, a) /\ LeadsToRoot(f, u, b)
  BY <1>2
<1>4. ASSUME NEW c, LeadsToRoot(f, u, c)
      PROVE  /\ c \in Seq(DOMAIN f) /\ Len(c) \in Nat \ {0} /\ c[1] = u
             /\ f[u] = None => Len(c) = 1
             /\ f[u] # None => f[u] \in DOMAIN f /\ Len(c) > 1 /\ LeadsToRoot(f, f[u], Tail(c))
  <2>1. c \in Seq(DOMAIN f) /\ c # <<>> /\ c[1] = u /\ f[c[Len(c)]] = None
        /\ (\A k \in 1..(Len(c) - 1) : f[c[k]] = c[k + 1])
    BY <1>4 DEF LeadsToRoot
  <2>2. Len(c) \in Nat \ {0}
    BY <2>1
  <2>3. ASSUME Len(c) > 1 PROVE f[u] = c[2] /\ c[2] \in DOMAIN f
    <3>1. 1 \in 1..(Len(c) - 1)
      BY <2>2, <2>3
    <3>2. f[c[1]] = c[1 + 1]
      BY <3>1, <2>1
    <3> QED
      BY <3>2, <2>1, <2>2, <2>3
  <2>4. Len(c) = 1 \/ Len(c) > 1
    <3>1. \A n \in Nat \ {0} : n = 1 \/ n > 1
      OBVIOUS
    <3> QED
      BY <3>1, <2>2
  <2>6. Len(c) = 1 => f[u] = None
    BY <2>1
  <2>5. ASSUME f[u] # None PROVE LeadsToRoot(f, f[u], Tail(c))
    <3> DEFINE t == Tail(c)
    <3>1. Len(c) > 1
      BY <2>4, <2>5, <2>6
    <3>2. t \in Seq(DOMAIN f) /\ Len(t) = Len(c) - 1 /\ t # <<>>
          /\ \A k \in 1..Len(t) : t[k] = c[k + 1]
      <4>1. c \in Seq(DOMAIN f) /\ c # <<>>
        BY <2>1
      <4>2. t \in Seq(DOMAIN f) /\ Len(t) = Len(c) - 1 /\ \A k \in 1..Len(t) : t[k] = c[k + 1]
        BY <4>1
      <4>3. Len(t) > 0
        BY <3>1, <4>2
      <4> HIDE DEF t
      <4> QED
        BY <4>2, <4>3
    <3> HIDE DEF t
    <3>3. t[1] = f[u]
      BY <3>1, <3>2, <2>2, <2>3
    <3>4. ASSUME NEW k \in 1..(Len(t) - 1) PROVE f[t[k]] = t[k + 1]
      <4>1. k + 1 \in 1..(Len(c) - 1)
        BY <3>2, <2>2
      <4>2. f[c[k + 1]] = c[(k + 1) + 1]
        BY <4>1, <2>1
      <4>3. t[k] = c[k + 1] /\ t[k + 1] = c[(k + 1) + 1]
        BY <3>2, <2>2
      <4> QED
        BY <4>2, <4>3
    <3>5. t[Len(t)] = c[Len(c)]
      BY <3>1, <3>2, <2>2
    <3> QED
      BY <3>2, <3>3, <3>4, <3>5, <2>1 DEF LeadsToRoot, t
  <2> QED
    BY <2>1, <2>2, <2>3, <2>4, <2>5, <2>6
<1>5. CASE f[u] = None
  <2>1. Len(a) = 1 /\ Len(b) = 1 /\ a[1] = u /\ b[1] = u /\ a \in Seq(DOMAIN f) /\ b \in Seq(DOMAIN f)
    BY <1>3, <1>4, <1>5
  <2>2. a = b
    BY <2>1
  <2> QED
    BY <2>2, <1>3
<1>6. CASE f[u] # None
  <2>1. /\ LeadsToRoot(f, f[u], Tail(a)) /\ LeadsToRoot(f, f[u], Tail(b)) /\ f[u] \in DOMAIN f
        /\ Len(a) > 1 /\ Len(b) > 1 /\ a[1] = b[1] /\ a \in Seq(DOMAIN f) /\ b \in Seq(DOMAIN f)
    BY <1>3, <1>4, <1>6
  <2>2. Tail(a) = Tail(b)
    BY <2>1, <1>2
  <2>3. a = b
    <3>1. Len(Tail(a)) = Len(a) - 1 /\ Len(Tail(b)) = Len(b) - 1
      BY <2>1
    <3>2. Len(a) = Len(b)
      BY <3>1, <2>1, <2>2
    <3>3. ASSUME NEW k \in 1..Len(a) PROVE a[k] = b[k]
      <4>1. CASE k = 1
        BY <4>1, <2>1
      <4>2. CASE k > 1
        <5>1. k - 1 \in 1..Len(Tail(a))
          BY <4>2, <3>1, <2>1
        <5>2. Tail(a)[k - 1] = a[k] /\ Tail(b)[k - 1] = b[k]
          BY <5>1, <3>1, <3>2, <2>1
        <5> QED
          BY <5>2, <2>2
      <4> QED
        BY <4>1, <4>2
    <3> QED
      BY <3>2, <3>3, <2>1
  <2> QED
    BY <2>3, <1>3
<1> QED
  BY <1>5, <1>6

(* So the recursive function of the walk exists, and returns that way.      *)
LEMMA WalkIs ==
  ASSUME NEW f, IsTrunk(f), None \notin DOMAIN f, NEW v \in DOMAIN f
  PROVE  LeadsToRoot(f, v, Walk(f, v))
<1> DEFINE E(h) == [u \in DOMAIN f |-> IF f[u] = None THEN <<u>> ELSE <<u>> \o h[f[u]]]
           g == [u \in DOMAIN f |-> CHOOSE p : LeadsToRoot(f, u, p)]
           path == CHOOSE h : h = E(h)
<1>1. \A u \in DOMAIN f : LeadsToRoot(f, u, g[u])
  BY WayExists
<1>2. g = E(g)
  <2>1. ASSUME NEW u \in DOMAIN f
        PROVE  g[u] = IF f[u] = None THEN <<u>> ELSE <<u>> \o g[f[u]]
    <3>1. CASE f[u] = None
      <4>1. LeadsToRoot(f, u, <<u>>)
        BY <3>1, OneMore
      <4> HIDE DEF g
      <4> QED
        BY <3>1, <4>1, <1>1, WayIsOne
    <3>2. CASE f[u] # None
      <4>1. f[u] \in DOMAIN f
        BY <3>2 DEF IsTrunk
      <4>2. LeadsToRoot(f, f[u], g[f[u]])
        BY <4>1, <1>1
      <4> HIDE DEF g
      <4>3. LeadsToRoot(f, u, <<u>> \o g[f[u]])
        BY <4>2, OneMore
      <4> QED
        BY <3>2, <4>3, <1>1, WayIsOne
    <3> QED
      BY <3>1, <3>2
  <2>2. g = [u \in DOMAIN f |-> g[u]]
    OBVIOUS
  <2> HIDE DEF g
  <2> QED
    BY <2>1, <2>2
<1>3. path = E(path)
  <2> HIDE DEF g, E
  <2> QED
    BY <1>2
<1>4. Walk(f, v) = path[v]
  BY DEF Walk
<1>5. \A u \in DOMAIN f : path[u] = IF f[u] = None THEN <<u>> ELSE <<u>> \o path[f[u]]
  <2> HIDE DEF path
  <2> QED
    BY <1>3
<1>6. \A u \in DOMAIN f : LeadsToRoot(f, u, path[u])
  <2> HIDE DEF path
  <2> DEFINE S == {u \in DOMAIN f : ~ LeadsToRoot(f, u, path[u])}
  <2>1. SUFFICES ASSUME S # {} PROVE FALSE
    OBVIOUS
  <2>2. PICK u \in S : f[u] \notin S
    BY <2>1 DEF IsTrunk, Acyclic
  <2>3. CASE f[u] = None
    BY <2>2, <2>3, <1>5, OneMore
  <2>4. CASE f[u] # None
    <3>1. LeadsToRoot(f, f[u], path[f[u]])
      BY <2>2, <2>4 DEF IsTrunk
    <3> QED
      BY <2>2, <2>4, <3>1, <1>5, OneMore
  <2> QED
    BY <2>3, <2>4
<1> QED
  BY <1>4, <1>6

(* Truncate keeps the beginning of a walk, and all of it unless it ends on  *)
(* the next trunk.                                                          *)
LEMMA TruncateIs ==
  ASSUME NEW p \in Seq(Vertices), p # <<>>, NEW V
  PROVE  LET q == Truncate(p, V) IN
         /\ q \in Seq(Vertices) /\ q # <<>> /\ q[1] = p[1]
         /\ q[Len(q)] \in V \/ Elems(q) \cap V = {}
<1> DEFINE shared == {n \in DOMAIN p : p[n] \in V}
           last == CHOOSE n \in shared : \A m \in shared : m <= n
<1>1. CASE shared = {}
  <2>1. Truncate(p, V) = p
    BY <1>1 DEF Truncate
  <2>2. Elems(p) \cap V = {}
    BY <1>1 DEF Elems
  <2> QED
    BY <2>1, <2>2
<1>2. CASE shared # {}
  <2>1. shared \in SUBSET (0..Len(p)) /\ Len(p) \in Nat
    OBVIOUS
  <2>2. last \in shared
    <3> HIDE DEF shared
    <3>1. \E n \in shared : \A m \in shared : m <= n
      BY <1>2, <2>1, GreatestNat
    <3> QED
      BY <3>1
  <2>3. Truncate(p, V) = SubSeq(p, 1, last)
    BY <1>2 DEF Truncate
  <2> HIDE DEF last
  <2>4. last \in 1..Len(p) /\ p[last] \in V
    BY <2>2
  <2> DEFINE q == SubSeq(p, 1, last)
  <2>5. q \in Seq(Vertices) /\ Len(q) = last /\ \A k \in 1..last : q[k] = p[k]
    BY <2>4
  <2> HIDE DEF q
  <2>6. q # <<>> /\ q[1] = p[1] /\ q[Len(q)] \in V
    BY <2>4, <2>5
  <2> QED
    BY <2>3, <2>5, <2>6 DEF q
<1> QED
  BY <1>1, <1>2

-----------------------------------------------------------------------------
(* What the shapes of step do to the report and the pieces.                 *)

At(s, x) == {n \in DOMAIN s : s[n] = x}

(* Where an entry stands once one was appended.                             *)
LEMMA AtAppend ==
  ASSUME NEW S, NEW s \in Seq(S), NEW e \in S, NEW x
  PROVE  /\ e = x => At(Append(s, e), x) = At(s, x) \cup {Len(s) + 1}
         /\ e # x => At(Append(s, e), x) = At(s, x)
<1> DEFINE t == Append(s, e)
<1>1. Len(t) = Len(s) + 1 /\ DOMAIN t = 1..Len(t) /\ DOMAIN s = 1..Len(s) /\ Len(s) \in Nat
  OBVIOUS
<1>2. \A n \in DOMAIN s : t[n] = s[n]
  OBVIOUS
<1>3. t[Len(s) + 1] = e
  OBVIOUS
<1> HIDE DEF t
<1>4. \A n : n \in DOMAIN t <=> n \in DOMAIN s \/ n = Len(s) + 1
  BY <1>1
<1>5. \A n : n \in At(t, x) <=> n \in At(s, x) \/ (n = Len(s) + 1 /\ e = x)
  BY <1>1, <1>2, <1>3, <1>4 DEF At
<1>6. e = x => At(t, x) = At(s, x) \cup {Len(s) + 1}
  BY <1>5
<1>7. e # x => At(t, x) = At(s, x)
  BY <1>5
<1> QED
  BY <1>6, <1>7 DEF t

(* Where it stands once the legs from .. to - 1 were reported as skipped.   *)
LEMMA AtSkipped ==
  ASSUME NEW s \in Seq(Bridge), NEW from \in Nat, NEW to \in Nat, from <= to
  PROVE  /\ s \o SkippedThrough(from, to) \in Seq(Bridge)
         /\ \A k : At(s \o SkippedThrough(from, to), [leg |-> k, kind |-> "gap"]) =
                     At(s, [leg |-> k, kind |-> "gap"])
         /\ \A k : k \notin from..(to - 1) =>
              At(s \o SkippedThrough(from, to), [leg |-> k, kind |-> "skipped"]) =
                At(s, [leg |-> k, kind |-> "skipped"])
         /\ \A k \in from..(to - 1) :
              At(s \o SkippedThrough(from, to), [leg |-> k, kind |-> "skipped"]) =
                At(s, [leg |-> k, kind |-> "skipped"]) \cup {Len(s) + (k - from + 1)}
<1> DEFINE r == SkippedThrough(from, to)
           t == s \o r
<1>1. r = [n \in 1..(to - from) |-> [leg |-> from + n - 1, kind |-> "skipped"]]
  BY SkippedIs
<1>2. r \in Seq(Bridge) /\ Len(r) = to - from
  <2>1. \A n \in 1..(to - from) : [leg |-> from + n - 1, kind |-> "skipped"] \in Bridge
    BY DEF Bridge, Kinds
  <2>2. to - from \in Nat
    OBVIOUS
  <2> DEFINE e(n) == [leg |-> from + n - 1, kind |-> "skipped"]
  <2>3. \A n \in 1..(to - from) : e(n) \in Bridge
    BY <2>1
  <2>4. r = [n \in 1..(to - from) |-> e(n)]
    BY <1>1
  <2> HIDE DEF r, e
  <2>5. r \in [1..(to - from) -> Bridge]
    BY <2>3, <2>4
  <2> QED
    BY <2>2, <2>5
<1>3. \A n \in 1..(to - from) : r[n] = [leg |-> from + n - 1, kind |-> "skipped"]
  BY <1>1
<1> HIDE DEF r
<1>4. /\ t \in Seq(Bridge) /\ Len(t) = Len(s) + (to - from) /\ Len(s) \in Nat
      /\ DOMAIN t = 1..Len(t) /\ DOMAIN s = 1..Len(s)
      /\ \A n \in 1..Len(s) : t[n] = s[n]
      /\ \A n \in 1..(to - from) : t[Len(s) + n] = r[n]
  <2>1. \A a, b \in Seq(Bridge) :
          /\ a \o b \in Seq(Bridge) /\ Len(a \o b) = Len(a) + Len(b) /\ Len(a) \in Nat
          /\ DOMAIN (a \o b) = 1..Len(a \o b) /\ DOMAIN a = 1..Len(a)
          /\ \A n \in 1..Len(a) : (a \o b)[n] = a[n]
          /\ \A n \in 1..Len(b) : (a \o b)[Len(a) + n] = b[n]
    OBVIOUS
  <2>2. /\ t \in Seq(Bridge) /\ Len(t) = Len(s) + Len(r) /\ Len(s) \in Nat
        /\ DOMAIN t = 1..Len(t) /\ DOMAIN s = 1..Len(s)
        /\ \A n \in 1..Len(s) : t[n] = s[n]
        /\ \A n \in 1..Len(r) : t[Len(s) + n] = r[n]
    BY <2>1, <1>2
  <2> HIDE DEF t
  <2> QED
    BY <2>2, <1>2
<1> HIDE DEF t
<1>5. ASSUME NEW n \in DOMAIN t
      PROVE  n \in DOMAIN s \/ \E m \in 1..(to - from) : n = Len(s) + m
  <2>1. n \in 1..Len(s) \/ n - Len(s) \in 1..(to - from)
    BY <1>4
  <2>2. n = Len(s) + (n - Len(s))
    BY <1>4
  <2> QED
    BY <2>1, <2>2, <1>4
<1>6. \A n \in DOMAIN s : n \in DOMAIN t /\ t[n] = s[n]
  BY <1>4
<1>7. ASSUME NEW m \in 1..(to - from)
      PROVE  Len(s) + m \in DOMAIN t /\ t[Len(s) + m] = [leg |-> from + m - 1, kind |-> "skipped"]
  <2>1. r[m] = [leg |-> from + m - 1, kind |-> "skipped"]
    BY <1>3
  <2>2. t[Len(s) + m] = r[m]
    BY <1>4
  <2>3. Len(s) + m \in 1..Len(t)
    BY <1>4
  <2> QED
    BY <2>1, <2>2, <2>3, <1>4
<1>8. ASSUME NEW x, x.kind # "skipped" \/ x.leg \notin from..(to - 1) PROVE At(t, x) = At(s, x)
  <2>1. ASSUME NEW m \in 1..(to - from) PROVE t[Len(s) + m] # x
    <3> SUFFICES ASSUME t[Len(s) + m] = x PROVE FALSE
      OBVIOUS
    <3>1. from + m - 1 \in from..(to - 1)
      OBVIOUS
    <3>2. x = [leg |-> from + m - 1, kind |-> "skipped"]
      BY <1>7
    <3>3. x.leg = from + m - 1 /\ x.kind = "skipped"
      BY <3>2
    <3> QED
      BY <3>1, <3>3, <1>8
  <2>2. \A n : n \in At(t, x) <=> n \in At(s, x)
    BY <2>1, <1>5, <1>6 DEF At
  <2> QED
    BY <2>2
<1>9. ASSUME NEW k \in from..(to - 1)
      PROVE  At(t, [leg |-> k, kind |-> "skipped"]) =
               At(s, [leg |-> k, kind |-> "skipped"]) \cup {Len(s) + (k - from + 1)}
  <2> DEFINE x == [leg |-> k, kind |-> "skipped"]
  <2>1. k - from + 1 \in 1..(to - from) /\ from + (k - from + 1) - 1 = k
    OBVIOUS
  <2>2. Len(s) + (k - from + 1) \in DOMAIN t /\ t[Len(s) + (k - from + 1)] = x
    BY <2>1, <1>7
  <2>3. ASSUME NEW m \in 1..(to - from), t[Len(s) + m] = x PROVE m = k - from + 1
    <3>2. [leg |-> k, kind |-> "skipped"] = [leg |-> from + m - 1, kind |-> "skipped"]
      BY <2>3, <1>7
    <3>3. \A a, b : [leg |-> a, kind |-> "skipped"] = [leg |-> b, kind |-> "skipped"] => a = b
      <4> TAKE a, b
      <4>1. [leg |-> a, kind |-> "skipped"].leg = a /\ [leg |-> b, kind |-> "skipped"].leg = b
        OBVIOUS
      <4> QED
        BY <4>1
    <3>1. from + m - 1 = k
      BY <3>2, <3>3
    <3> QED
      BY <3>1
  <2> HIDE DEF x
  <2>4. \A n : n \in At(t, x) <=> n \in At(s, x) \/ n = Len(s) + (k - from + 1)
    BY <2>2, <2>3, <1>5, <1>6 DEF At
  <2> QED
    BY <2>4 DEF x
<1>10. \A k : At(t, [leg |-> k, kind |-> "gap"]) = At(s, [leg |-> k, kind |-> "gap"])
  <2> TAKE k
  <2> DEFINE x == [leg |-> k, kind |-> "gap"]
  <2>1. x.kind # "skipped"
    OBVIOUS
  <2> HIDE DEF x
  <2> QED
    BY <2>1, <1>8 DEF x
<1>11. ASSUME NEW k, k \notin from..(to - 1)
       PROVE  At(t, [leg |-> k, kind |-> "skipped"]) = At(s, [leg |-> k, kind |-> "skipped"])
  <2> DEFINE x == [leg |-> k, kind |-> "skipped"]
  <2>1. x.leg \notin from..(to - 1)
    BY <1>11
  <2> HIDE DEF x
  <2> QED
    BY <2>1, <1>8 DEF x
<1> QED
  BY <1>4, <1>9, <1>10, <1>11 DEF t, r

(* Where it stands once the first mile was put before the report.           *)
LEMMA AtPrepend ==
  ASSUME NEW s \in Seq(Bridge), NEW e \in Bridge, NEW x, e # x
  PROVE  /\ <<e>> \o s \in Seq(Bridge)
         /\ At(<<e>> \o s, x) = {n + 1 : n \in At(s, x)}
<1> DEFINE t == <<e>> \o s
<1>1. /\ t \in Seq(Bridge) /\ Len(t) = Len(s) + 1 /\ Len(s) \in Nat /\ t[1] = e
      /\ DOMAIN t = 1..Len(t) /\ DOMAIN s = 1..Len(s)
      /\ \A n \in 1..Len(s) : t[n + 1] = s[n]
  OBVIOUS
<1> HIDE DEF t
<1>2. ASSUME NEW n \in At(t, x) PROVE \E m \in At(s, x) : n = m + 1
  <2>1. n \in 1..Len(t) /\ t[n] = x /\ n # 1
    BY <1>1 DEF At
  <2>2. n - 1 \in 1..Len(s) /\ n = (n - 1) + 1
    BY <2>1, <1>1
  <2>3. s[n - 1] = x
    BY <2>1, <2>2, <1>1
  <2> QED
    BY <2>2, <2>3, <1>1 DEF At
<1>3. ASSUME NEW m \in At(s, x) PROVE m + 1 \in At(t, x)
  <2>1. m \in 1..Len(s) /\ s[m] = x
    BY <1>1 DEF At
  <2>2. m + 1 \in 1..Len(t) /\ t[m + 1] = x
    BY <2>1, <1>1
  <2> QED
    BY <2>2, <1>1 DEF At
<1>4. At(t, x) = {n + 1 : n \in At(s, x)}
  BY <1>2, <1>3
<1> QED
  BY <1>1, <1>4 DEF t

(* A step that leaves the chain and its trunks alone.                       *)
LEMMA SameTrunks ==
  ASSUME chain' = chain, trunk' = trunk
  PROVE  /\ LegCount' = LegCount /\ Legs' = Legs
         /\ \A k : Trunk(k)' = Trunk(k) /\ Vids(k)' = Vids(k)
BY DEF LegCount, Legs, Trunk, Vids

LEMMA NamedAt ==
  /\ \A k, kind : Named(k, kind) = At(bridges, [leg |-> k, kind |-> kind])
  /\ \A k, kind : Named(k, kind)' = At(bridges', [leg |-> k, kind |-> kind])
BY DEF Named, At

(* Pieces that met still meet when nothing is walked and no gap reported.   *)
LEMMA MeetSame ==
  ASSUME PiecesMeet, walked' = walked, chain' = chain, trunk' = trunk,
         \A k : Named(k, "gap")' = {} <=> Named(k, "gap") = {}
  PROVE  PiecesMeet'
<1>1. \A k : Named(k, "gap")' = At(bridges', [leg |-> k, kind |-> "gap"])
  BY NamedAt
<1>2. \A n \in 2..Len(walked) :
        LET p == walked[n - 1]  q == walked[n]  last == p.path[Len(p.path)] IN
        /\ last = q.path[1] <=> At(bridges', [leg |-> q.leg, kind |-> "gap"]) = {}
        /\ At(bridges', [leg |-> q.leg, kind |-> "gap"]) # {} => Elems(p.path) \cap Vids(q.leg) = {}
  BY <1>1 DEF PiecesMeet
<1> QED
  BY <1>2 DEF PiecesMeet, Named, At, Vids, Trunk

(* AtSkipped, one fact at a time: the gaps, the legs elsewhere, the legs    *)
(* passed.                                                                  *)
LEMMA GapsAtSkipped ==
  ASSUME NEW s \in Seq(Bridge), NEW from \in Nat, NEW to \in Nat, from <= to
  PROVE  \A k : At(s \o SkippedThrough(from, to), [leg |-> k, kind |-> "gap"]) =
                At(s, [leg |-> k, kind |-> "gap"])
BY AtSkipped

LEMMA OthersAtSkipped ==
  ASSUME NEW s \in Seq(Bridge), NEW from \in Nat, NEW to \in Nat, from <= to,
         NEW k, k \notin from..(to - 1)
  PROVE  At(s \o SkippedThrough(from, to), [leg |-> k, kind |-> "skipped"]) =
         At(s, [leg |-> k, kind |-> "skipped"])
BY AtSkipped

LEMMA PassedAtSkipped ==
  ASSUME NEW s \in Seq(Bridge), NEW from \in Nat, NEW to \in Nat, from <= to,
         NEW k \in from..(to - 1)
  PROVE  At(s \o SkippedThrough(from, to), [leg |-> k, kind |-> "skipped"]) =
         At(s, [leg |-> k, kind |-> "skipped"]) \cup {Len(s) + (k - from + 1)}
BY AtSkipped

(* What a skip adds to the report.                                          *)
LEMMA NamedSkipped ==
  ASSUME leg \in Nat, bridges \in Seq(Bridge), NEW to \in Nat, leg <= to,
         bridges' = bridges \o SkippedThrough(leg, to)
  PROVE  /\ bridges' \in Seq(Bridge)
         /\ \A k : Named(k, "gap")' = Named(k, "gap")
         /\ \A k : k \notin leg..(to - 1) => Named(k, "skipped")' = Named(k, "skipped")
         /\ \A k \in leg..(to - 1) : Named(k, "skipped")' =
              Named(k, "skipped") \cup {Len(bridges) + (k - leg + 1)}
<1>1. bridges' \in Seq(Bridge)
  BY AtSkipped
<1>2. \A k : At(bridges', [leg |-> k, kind |-> "gap"]) = At(bridges, [leg |-> k, kind |-> "gap"])
  BY GapsAtSkipped
<1>3. \A k : k \notin leg..(to - 1) =>
        At(bridges', [leg |-> k, kind |-> "skipped"]) = At(bridges, [leg |-> k, kind |-> "skipped"])
  BY OthersAtSkipped
<1>4. \A k \in leg..(to - 1) :
        At(bridges', [leg |-> k, kind |-> "skipped"]) =
          At(bridges, [leg |-> k, kind |-> "skipped"]) \cup {Len(bridges) + (k - leg + 1)}
  BY PassedAtSkipped
<1> QED
  BY <1>1, <1>2, <1>3, <1>4, NamedAt

(* A skip reports the legs it passes, each once.                            *)
LEMMA SkipStep ==
  ASSUME TypeOK, AccountInv, MeetInv, NEW to \in Nat, leg <= to, leg' = to,
         bridges' = bridges \o SkippedThrough(leg, to),
         UNCHANGED <<walked, chain, trunk>>, pc' \notin {"last", "done"}
  PROVE  bridges' \in Seq(Bridge) /\ AccountInv' /\ MeetInv'
<1>0. leg \in Nat /\ bridges \in Seq(Bridge) /\ Legs' = Legs /\ Legs \subseteq Nat
  BY SameTrunks DEF TypeOK, Legs
<1>1. bridges' \in Seq(Bridge)
  BY <1>0, NamedSkipped
<1>2. \A k : Pieces(k)' = Pieces(k)
  BY DEF Pieces
<1>3. \A k : Named(k, "gap")' = Named(k, "gap")
  BY <1>0, NamedSkipped
<1>4. \A k : k \notin leg..(to - 1) => Named(k, "skipped")' = Named(k, "skipped")
  BY <1>0, NamedSkipped
<1>5. \A k \in leg..(to - 1) : Named(k, "skipped")' = Named(k, "skipped") \cup {Len(bridges) + (k - leg + 1)}
  BY <1>0, NamedSkipped
<1>6. ASSUME NEW k \in Nat, k >= to PROVE Pending(k)'
  <2>1. k >= leg /\ k \notin leg..(to - 1)
    BY <1>0, <1>6
  <2> QED
    BY <2>1, <1>2, <1>3, <1>4 DEF AccountInv, Pending
<1>7. ASSUME NEW k \in Legs, k < to PROVE Ridden(k)' \/ Reported(k)'
  <2>1. CASE k < leg
    <3>1. k \notin leg..(to - 1)
      BY <2>1, <1>0 DEF Legs
    <3>2. Ridden(k) \/ Reported(k)
      BY <2>1 DEF AccountInv
    <3> QED
      BY <3>1, <3>2, <1>2, <1>4 DEF Ridden, Reported, Single
  <2>2. CASE k >= leg
    <3>1. k \in leg..(to - 1) /\ k \in Nat
      BY <2>2, <1>0, <1>7 DEF Legs
    <3>2. Pending(k)
      BY <3>1, <2>2 DEF AccountInv
    <3>3. Pieces(k)' = {} /\ Named(k, "skipped")' = {Len(bridges) + (k - leg + 1)}
      BY <3>1, <3>2, <1>2, <1>5 DEF Pending
    <3> QED
      BY <3>3 DEF Reported, Single
  <2> QED
    BY <2>1, <2>2, <1>0 DEF Legs
<1>8. AccountInv'
  BY <1>0, <1>6, <1>7 DEF AccountInv
<1>9. MeetInv'
  <2>1. PiecesMeet'
    BY <1>3, MeetSame DEF MeetInv
  <2>2. \A n \in DOMAIN walked : walked[n].leg \in Nat /\ walked[n].leg < leg
    <3>1. walked \in Seq(Piece)
      BY DEF TypeOK
    <3>2. \A n \in DOMAIN walked : walked[n] \in Piece
      BY <3>1
    <3>3. \A x \in Piece : x.leg \in Nat
      BY DEF Piece
    <3> QED
      BY <3>2, <3>3 DEF MeetInv
  <2>3. \A n \in DOMAIN walked : walked[n].leg < to
    BY <2>2, <1>0
  <2> QED
    BY <2>1, <2>3 DEF MeetInv
<1> QED
  BY <1>1, <1>8, <1>9

(* A step that walks nothing and reports no gap and no skip.                *)
LEMMA ReportStep ==
  ASSUME AccountInv, MeetInv, UNCHANGED <<chain, trunk, leg, walked>>,
         pc' \in {"last", "done"} => leg >= LegCount,
         \A k : Named(k, "gap")' = {} <=> Named(k, "gap") = {},
         \A k : Named(k, "skipped")' = {} <=> Named(k, "skipped") = {},
         \A k : Single(Named(k, "skipped")) => Single(Named(k, "skipped")')
  PROVE  AccountInv' /\ MeetInv'
<1>1. \A k : Pieces(k)' = Pieces(k)
  BY DEF Pieces
<1>2. AccountInv'
  <2>1. \A k \in Nat : k >= leg => Pending(k)'
    BY <1>1 DEF AccountInv, Pending
  <2>2. \A k \in Legs : k < leg => Ridden(k)' \/ Reported(k)'
    <3> SUFFICES ASSUME NEW k \in Legs, k < leg PROVE Ridden(k)' \/ Reported(k)'
      OBVIOUS
    <3>1. Ridden(k) \/ Reported(k)
      BY DEF AccountInv
    <3>3. Ridden(k) => Ridden(k)'
      BY <1>1 DEF Ridden, Single
    <3>4. Reported(k) => Reported(k)'
      BY <1>1 DEF Reported, Single
    <3> QED
      BY <3>1, <3>3, <3>4
  <2> QED
    BY <2>1, <2>2, SameTrunks DEF AccountInv
<1>3. MeetInv'
  BY MeetSame DEF MeetInv
<1> QED
  BY <1>2, <1>3

LEMMA QuietStep ==
  ASSUME AccountInv, MeetInv, UNCHANGED <<chain, trunk, leg, walked, bridges>>,
         pc' \in {"last", "done"} => leg >= LegCount
  PROVE  AccountInv' /\ MeetInv'
<1>1. \A k, kind : Named(k, kind)' = Named(k, kind)
  BY DEF Named
<1> QED
  BY <1>1, ReportStep DEF Single

(* Before the walk begins there is nothing to account for.                  *)
LEMMA NothingYet ==
  ASSUME walked' = <<>>, bridges' = <<>>, leg' = 1, pc' \notin {"last", "done"}
  PROVE  AccountInv' /\ StandInv' /\ MeetInv'
<1>1. \A k : Pieces(k)' = {} /\ \A kind : Named(k, kind)' = {}
  BY DEF Pieces, Named
<1>2. AccountInv'
  BY <1>1 DEF AccountInv, Pending, Legs
<1>3. StandInv' /\ MeetInv'
  BY DEF StandInv, MeetInv, PiecesMeet
<1> QED
  BY <1>2, <1>3

(* A vertex of a leg's trunk is a point of the land.                        *)
LEMMA OnTrunk ==
  ASSUME TrunkRouteAssumption, TypeOK, pc \notin {"plan", "raised"}, NEW k \in Legs
  PROVE  /\ IsTrunk(Trunk(k)) /\ Vids(k) = DOMAIN Trunk(k) /\ Vids(k) # {}
         /\ Vids(k) \subseteq Vertices /\ Vids(k) \subseteq Points /\ Vids(k) \subseteq Nat
         /\ None \notin Vids(k)
BY DEF TrunkRouteAssumption, TypeOK, IsTrunk, Vids

(* One leg walked: a piece on its trunk that begins where the walk stood or *)
(* after a gap that is reported.                                            *)
LEMMA LegWalked ==
  ASSUME TrunkRouteAssumption, TypeOK, WalkLeg
  PROVE  \E entry \in Vids(leg), path \in Seq(Vertices) :
           /\ terminus \in Vids(leg) => entry = terminus
           /\ path # <<>> /\ path[1] = entry
           /\ leg + 1 < LegCount =>
                path[Len(path)] \in Vids(leg + 1) \/ Elems(path) \cap Vids(leg + 1) = {}
           /\ walked' = Append(walked, [leg |-> leg, path |-> path])
           /\ bridges' = IF entry = terminus THEN bridges
                         ELSE Append(bridges, [leg |-> leg, kind |-> "gap"])
           /\ terminus' = path[Len(path)]
<1> DEFINE entry == Nearest(Vids(leg), terminus)
           whole == Walk(Trunk(leg), entry)
           path == IF leg + 1 < LegCount THEN Truncate(whole, Vids(leg + 1)) ELSE whole
<1>1. leg \in Legs /\ pc = "walk"
  BY DEF WalkLeg, TypeOK, Legs, LegCount
<1>2. /\ IsTrunk(Trunk(leg)) /\ Vids(leg) = DOMAIN Trunk(leg) /\ Vids(leg) # {}
      /\ Vids(leg) \subseteq Vertices /\ Vids(leg) \in SUBSET Nat /\ None \notin Vids(leg)
  BY <1>1, OnTrunk
<1>3. terminus \in Nat
  BY DEF TypeOK, TrunkRouteAssumption
<1>4. entry \in Vids(leg) /\ (terminus \in Vids(leg) => entry = terminus)
  BY <1>2, <1>3, NearestIs
<1>5. whole \in Seq(Vertices) /\ whole # <<>> /\ whole[1] = entry
  <2> HIDE DEF entry
  <2>1. LeadsToRoot(Trunk(leg), entry, whole)
    BY <1>2, <1>4, WalkIs
  <2> HIDE DEF whole
  <2>2. whole \in Seq(Vids(leg)) /\ whole # <<>> /\ whole[1] = entry
    BY <2>1, <1>2 DEF LeadsToRoot
  <2> QED
    BY <2>2, <1>2
<1>6. /\ path \in Seq(Vertices) /\ path # <<>> /\ path[1] = entry
      /\ leg + 1 < LegCount =>
           path[Len(path)] \in Vids(leg + 1) \/ Elems(path) \cap Vids(leg + 1) = {}
  <2> HIDE DEF entry, whole
  <2>1. CASE leg + 1 < LegCount
    BY <2>1, <1>5, TruncateIs
  <2>2. CASE ~ (leg + 1 < LegCount)
    BY <2>2, <1>5
  <2> QED
    BY <2>1, <2>2
<1>7. /\ walked' = Append(walked, [leg |-> leg, path |-> path])
      /\ bridges' = IF entry = terminus THEN bridges
                    ELSE Append(bridges, [leg |-> leg, kind |-> "gap"])
      /\ terminus' = path[Len(path)]
  BY DEF WalkLeg
<1> HIDE DEF entry, whole, path
<1> QED
  BY <1>4, <1>6, <1>7

LEMMA WalkLegKeeps ==
  ASSUME TrunkRouteAssumption, RouteInv, WalkLeg
  PROVE  RouteInv'
<1>1. /\ leg \in Nat \ {0} /\ leg < LegCount /\ leg' = leg + 1 /\ pc = "walk" /\ pc' = "walk"
      /\ LegCount \in Int /\ leg \in Legs
      /\ chain' = chain /\ trunk' = trunk /\ found' = found
  BY DEF RouteInv, WalkLeg, TypeOK, Legs, LegCount
<1>2. /\ walked \in Seq(Piece) /\ bridges \in Seq(Bridge) /\ TypeOK
      /\ AccountInv /\ StandInv /\ MeetInv
  BY DEF RouteInv, TypeOK
<1>3. /\ LegCount' = LegCount /\ Legs' = Legs
      /\ \A k : Trunk(k)' = Trunk(k) /\ Vids(k)' = Vids(k)
  BY <1>1, SameTrunks
<1>4. PICK entry \in Vids(leg), path \in Seq(Vertices) :
        /\ terminus \in Vids(leg) => entry = terminus
        /\ path # <<>> /\ path[1] = entry
        /\ leg + 1 < LegCount =>
             path[Len(path)] \in Vids(leg + 1) \/ Elems(path) \cap Vids(leg + 1) = {}
        /\ walked' = Append(walked, [leg |-> leg, path |-> path])
        /\ bridges' = IF entry = terminus THEN bridges
                      ELSE Append(bridges, [leg |-> leg, kind |-> "gap"])
        /\ terminus' = path[Len(path)]
  BY <1>2, LegWalked
<1> DEFINE new == [leg |-> leg, path |-> path]
           gap == [leg |-> leg, kind |-> "gap"]
<1>5. new \in Piece /\ new.leg = leg /\ new.path = path /\ gap \in Bridge
      /\ \A k : /\ [leg |-> k, kind |-> "skipped"] # gap
                /\ k # leg => [leg |-> k, kind |-> "gap"] # gap
  <2>1. new \in Piece /\ new.leg = leg /\ new.path = path
    BY <1>1, <1>4 DEF Piece
  <2>2. gap \in Bridge /\ gap.leg = leg /\ gap.kind = "gap"
    BY <1>1 DEF Bridge, Kinds
  <2>3. \A k : [leg |-> k, kind |-> "skipped"] # gap
    <3> TAKE k
    <3>1. [leg |-> k, kind |-> "skipped"].kind = "skipped"
      OBVIOUS
    <3> HIDE DEF gap
    <3> QED
      BY <3>1, <2>2
  <2>4. \A k : k # leg => [leg |-> k, kind |-> "gap"] # gap
    <3> TAKE k
    <3>1. [leg |-> k, kind |-> "gap"].leg = k
      OBVIOUS
    <3> HIDE DEF gap
    <3> QED
      BY <3>1, <2>2
  <2> QED
    BY <2>1, <2>2, <2>3, <2>4
<1>6. walked' = Append(walked, new) /\ bridges' = IF entry = terminus THEN bridges ELSE Append(bridges, gap)
  BY <1>4
<1> HIDE DEF new, gap
<1>7. /\ walked' \in Seq(Piece) /\ Len(walked') = Len(walked) + 1 /\ Len(walked) \in Nat
      /\ DOMAIN walked = 1..Len(walked) /\ DOMAIN walked' = 1..Len(walked')
      /\ walked'[Len(walked) + 1] = new /\ \A n \in DOMAIN walked : walked'[n] = walked[n]
  BY <1>2, <1>5, <1>6
<1>8. /\ \A n : n \in DOMAIN walked' <=> n \in DOMAIN walked \/ n = Len(walked) + 1
      /\ Len(walked) + 1 \notin DOMAIN walked
  BY <1>7
<1>9. \A k : k # leg => Pieces(k)' = Pieces(k)
  <2> TAKE k
  <2> HAVE k # leg
  <2>1. \A n : n \in Pieces(k)' <=> n \in Pieces(k)
    BY <1>5, <1>7, <1>8 DEF Pieces
  <2> QED
    BY <2>1
<1>10. Pieces(leg) = {} => {n \in DOMAIN walked' : walked'[n].leg = leg} = {Len(walked) + 1}
  <2> HAVE Pieces(leg) = {}
  <2>1. \A n : n \in {m \in DOMAIN walked' : walked'[m].leg = leg} <=> n = Len(walked) + 1
    BY <1>5, <1>7, <1>8 DEF Pieces
  <2> QED
    BY <2>1
<1>11. bridges' \in Seq(Bridge)
  BY <1>2, <1>5, <1>6
<1>12. \A k : Named(k, "skipped")' = Named(k, "skipped")
  <2> TAKE k
  <2>1. At(bridges', [leg |-> k, kind |-> "skipped"]) = At(bridges, [leg |-> k, kind |-> "skipped"])
    BY <1>2, <1>5, <1>6, AtAppend
  <2> QED
    BY <2>1, NamedAt
<1>13. \A k : k # leg => Named(k, "gap")' = Named(k, "gap")
  <2> TAKE k
  <2> HAVE k # leg
  <2>1. At(bridges', [leg |-> k, kind |-> "gap"]) = At(bridges, [leg |-> k, kind |-> "gap"])
    BY <1>2, <1>5, <1>6, AtAppend
  <2> QED
    BY <2>1, NamedAt
<1>14. Pending(leg)
  BY <1>1, <1>2 DEF AccountInv
<1>15. At(bridges', gap) = {} <=> entry = terminus
  <2>1. At(bridges, gap) = {}
    BY <1>14, NamedAt DEF Pending, gap
  <2>2. entry = terminus => bridges' = bridges
    BY <1>6
  <2>3. entry # terminus => At(bridges', gap) = At(bridges, gap) \cup {Len(bridges) + 1}
    BY <1>2, <1>5, <1>6, AtAppend
  <2> QED
    BY <2>1, <2>2, <2>3
<1>16. path[Len(path)] \in Vertices
  BY <1>4
<1>17. TypeOK'
  <2>1. terminus' \in Points
    BY <1>4, <1>16 DEF TrunkRouteAssumption
  <2>2. chain' # <<>> /\ \A k \in Legs' : IsTrunk(Trunk(k)')
    BY <1>1, <1>2, <1>3 DEF TypeOK
  <2>3. chain' \in Seq(Cities) /\ found'.salvage \in Points \cup {None} /\ found'.next \in Nat \ {0}
    BY <1>1, <1>2 DEF TypeOK
  <2> QED
    BY <1>1, <1>7, <1>11, <2>1, <2>2, <2>3 DEF TypeOK
<1>18. SearchInv'
  BY <1>1 DEF SearchInv, Searching
<1>19. AccountInv'
  <2>1. ASSUME NEW k \in Nat, k >= leg + 1 PROVE Pending(k)'
    <3>1. k # leg /\ k >= leg
      BY <1>1, <2>1
    <3>2. Pending(k)
      BY <3>1, <1>2 DEF AccountInv
    <3> QED
      BY <3>1, <3>2, <1>9, <1>12, <1>13 DEF Pending
  <2>2. ASSUME NEW k \in Legs, k < leg + 1 PROVE Ridden(k)' \/ Reported(k)'
    <3>1. CASE k = leg
      <4>1. Pieces(leg) = {}
        BY <1>14 DEF Pending
      <4>2. {n \in DOMAIN walked' : walked'[n].leg = k} = {Len(walked) + 1}
        BY <3>1, <4>1, <1>10
      <4>3. Pieces(k)' = {Len(walked) + 1} /\ Named(k, "skipped")' = {}
        <5>1. Named(k, "skipped") = {}
          BY <3>1, <1>14 DEF Pending
        <5> QED
          BY <4>2, <5>1, <1>12 DEF Pieces
      <4> QED
        BY <4>3 DEF Ridden, Single
    <3>2. CASE k # leg
      <4>1. k < leg
        BY <3>2, <2>2, <1>1 DEF Legs
      <4>2. Ridden(k) \/ Reported(k)
        BY <4>1, <1>2 DEF AccountInv
      <4> QED
        BY <3>2, <4>2, <1>9, <1>12 DEF Ridden, Reported, Single
    <3> QED
      BY <3>1, <3>2
  <2> QED
    BY <1>1, <1>3, <2>1, <2>2 DEF AccountInv
<1>20. StandInv'
  <2>1. walked'[Len(walked')] = new
    BY <1>7
  <2>2. new.leg = leg /\ new.path = path
    BY <1>5
  <2>3. leg < leg' /\ leg' = leg + 1
    BY <1>1
  <2>4. leg + 1 < LegCount => terminus' \in Vids(leg + 1) \/ Elems(path) \cap Vids(leg + 1) = {}
    BY <1>4
  <2> QED
    BY <1>1, <1>3, <1>4, <2>1, <2>2, <2>3, <2>4 DEF StandInv
<1>21. MeetInv'
  <2>0. \A n \in DOMAIN walked : walked[n].leg \in Nat /\ walked[n].leg < leg
    <3>1. \A n \in DOMAIN walked : walked[n] \in Piece
      BY <1>2
    <3>2. \A x \in Piece : x.leg \in Nat
      BY DEF Piece
    <3> QED
      BY <3>1, <3>2, <1>2 DEF MeetInv
  <2>1. ASSUME NEW n \in DOMAIN walked' PROVE walked'[n].leg < leg + 1
    <3>1. CASE n \in DOMAIN walked
      <4>1. walked'[n].leg \in Nat /\ walked'[n].leg < leg
        BY <3>1, <2>0, <1>7
      <4> QED
        BY <4>1, <1>1
    <3>2. CASE n = Len(walked) + 1
      BY <3>2, <1>1, <1>5, <1>7
    <3> QED
      BY <3>1, <3>2, <1>8
  <2>2. ASSUME NEW n \in 2..Len(walked')
        PROVE  LET p == walked'[n - 1]  q == walked'[n]  last == p.path[Len(p.path)] IN
               /\ last = q.path[1] <=> At(bridges', [leg |-> q.leg, kind |-> "gap"]) = {}
               /\ At(bridges', [leg |-> q.leg, kind |-> "gap"]) # {} =>
                    Elems(p.path) \cap Vids(q.leg) = {}
    <3>1. CASE n \in 2..Len(walked)
      <4>1. n \in DOMAIN walked /\ n - 1 \in DOMAIN walked
        BY <3>1, <1>7
      <4>2. walked'[n - 1] = walked[n - 1] /\ walked'[n] = walked[n] /\ walked[n].leg # leg
        BY <4>1, <1>1, <1>7, <2>0
      <4>3. LET p == walked[n - 1]  q == walked[n]  last == p.path[Len(p.path)] IN
               /\ last = q.path[1] <=> Named(q.leg, "gap") = {}
               /\ Named(q.leg, "gap") # {} => Elems(p.path) \cap Vids(q.leg) = {}
        BY <3>1, <1>2 DEF MeetInv, PiecesMeet
      <4>4. At(bridges', [leg |-> walked[n].leg, kind |-> "gap"]) = Named(walked[n].leg, "gap")
        BY <4>2, <1>13, NamedAt
      <4> QED
        BY <4>2, <4>3, <4>4
    <3>2. CASE n = Len(walked) + 1
      <4> DEFINE p == walked[Len(walked)]
      <4>1. Len(walked) \in DOMAIN walked /\ walked # <<>> /\ n - 1 = Len(walked)
        BY <3>2, <1>7, <2>2
      <4>2. walked'[n - 1] = p /\ walked'[n] = new /\ new.leg = leg /\ new.path = path
        BY <3>2, <4>1, <1>5, <1>7
      <4>3. /\ terminus = p.path[Len(p.path)]
            /\ leg = p.leg + 1 => terminus \in Vids(leg) \/ Elems(p.path) \cap Vids(leg) = {}
            /\ leg # p.leg + 1 => terminus \in Vids(leg)
        BY <4>1, <1>1, <1>2 DEF StandInv
      <4> HIDE DEF p
      <4>4. At(bridges', gap) # {} => Elems(p.path) \cap Vids(leg) = {}
        BY <4>3, <1>4, <1>15
      <4>5. p.path[Len(p.path)] = path[1] <=> At(bridges', gap) = {}
        BY <4>3, <1>4, <1>15
      <4> QED
        BY <4>2, <4>4, <4>5 DEF gap
    <3> QED
      BY <3>1, <3>2, <1>7
  <2>3. PiecesMeet'
    BY <2>2, <1>1 DEF PiecesMeet, Named, At, Vids, Trunk
  <2> QED
    BY <1>1, <2>1, <2>3 DEF MeetInv
<1> QED
  BY <1>17, <1>18, <1>19, <1>20, <1>21 DEF RouteInv

-----------------------------------------------------------------------------
(* The remaining actions.                                                   *)

(* A chain is a sequence of cities.                                         *)
LEMMA ChainIs ==
  ASSUME TrunkRouteAssumption, NEW s, NEW c \in Chains(s)
  PROVE  c \in Seq(Cities) /\ c # <<>>
<1>1. ASSUME NEW a, NEW b, NEW p \in CityPaths(a, b) PROVE p \in Seq(Cities) /\ p # <<>>
  <2>1. p \in UNION {[1..n -> Cities] : n \in 1..Cardinality(Cities)}
    BY <1>1 DEF CityPaths
  <2>2. PICK n \in 1..Cardinality(Cities) : p \in [1..n -> Cities]
    BY <2>1
  <2>3. Cardinality(Cities) \in Nat
    BY FS_CardinalityType DEF TrunkRouteAssumption
  <2>4. n \in Nat /\ n >= 1
    BY <2>2, <2>3
  <2> QED
    BY <2>2, <2>4
<1>2. CASE Len(s) = 2
  BY <1>1, <1>2 DEF Chains
<1>3. CASE Len(s) # 2
  <2>1. PICK p \in CityPaths(s[1], s[2]), q \in CityPaths(s[2], s[3]) : c = Join(p, q)
    BY <1>3 DEF Chains
  <2>2. p \in Seq(Cities) /\ p # <<>> /\ q \in Seq(Cities) /\ q # <<>>
    BY <1>1
  <2>3. Tail(q) \in Seq(Cities)
    BY <2>2
  <2>4. c = p \o Tail(q)
    BY <2>1 DEF Join
  <2> HIDE DEF Chains
  <2>5. Len(p) \in Nat /\ Len(p) > 0
    BY <2>2
  <2>6. c \in Seq(Cities) /\ Len(c) = Len(p) + Len(Tail(q)) /\ Len(Tail(q)) \in Nat
    BY <2>2, <2>3, <2>4
  <2> QED
    BY <2>5, <2>6
<1> QED
  BY <1>2, <1>3

LEMMA PlanKeeps ==
  ASSUME TrunkRouteAssumption, RouteInv, Plan
  PROVE  RouteInv'
<1>1. /\ pc = "plan" /\ pc' = IF Len(chain') >= 3 THEN "first" ELSE "walk"
      /\ UNCHANGED <<stops, terminus, leg, found, walked, bridges>>
  BY DEF Plan
<1>2. chain' \in Chains(stops) /\ trunk' \in [Pairs(Tail(chain')) -> Blobs]
  BY DEF Plan
<1>3. chain' \in Seq(Cities) /\ chain' # <<>>
  BY <1>2, ChainIs
<1>4. LegCount' = Len(chain') - 1 /\ Len(chain') \in Nat \ {0}
  BY <1>3 DEF LegCount
<1>5. ASSUME NEW k \in Legs' PROVE IsTrunk(Trunk(k)')
  <2> DEFINE t == Tail(chain')
  <2>1. k \in 1..(Len(chain') - 2)
    BY <1>4 DEF Legs
  <2>2. t \in Seq(Cities) /\ Len(t) = Len(chain') - 1 /\ \A n \in 1..Len(t) : t[n] = chain'[n + 1]
    BY <1>3, <1>4
  <2>3. k \in 1..(Len(t) - 1) /\ t[k] = chain'[k + 1] /\ t[k + 1] = chain'[k + 2]
    <3> HIDE DEF t
    <3>1. k \in 1..Len(t) /\ k + 1 \in 1..Len(t) /\ k \in 1..(Len(t) - 1) /\ (k + 1) + 1 = k + 2
      BY <2>1, <2>2, <1>4
    <3>2. t[k] = chain'[k + 1] /\ t[k + 1] = chain'[(k + 1) + 1]
      BY <3>1, <2>2
    <3> QED
      BY <3>1, <3>2
  <2>4. <<t[k], t[k + 1]>> \in Pairs(t)
    BY <2>3 DEF Pairs
  <2>5. trunk'[<<chain'[k + 1], chain'[k + 2]>>] \in Blobs
    BY <1>2, <2>3, <2>4
  <2>6. IsTrunk(Decode(trunk'[<<chain'[k + 1], chain'[k + 2]>>]))
    BY <2>5, DecodedIsTrunk
  <2> QED
    BY <2>6 DEF Trunk
<1>6. leg = 1 /\ walked = <<>> /\ bridges = <<>> /\ leg \in Nat
  BY <1>1 DEF RouteInv, SearchInv, Searching
<1>7. TypeOK'
  BY <1>1, <1>3, <1>5 DEF RouteInv, TypeOK
<1>8. SearchInv'
  <2>1. found'.best = None
    BY <1>1 DEF RouteInv, SearchInv, Searching
  <2>2. pc' \in {"first"} => 1 \in Legs'
    BY <1>1, <1>4 DEF Legs
  <2> QED
    BY <1>1, <1>6, <2>1, <2>2 DEF SearchInv, Searching
<1> QED
  BY <1>1, <1>6, <1>7, <1>8, NothingYet DEF RouteInv

(* What the invariant says of the search for a trunk to enter.              *)
LEMMA Search ==
  ASSUME TrunkRouteAssumption, RouteInv, pc \in {"first", "stitch", "roads", "enter"}
  PROVE  /\ leg = 1 /\ walked = <<>> /\ bridges = <<>> /\ 1 \in Legs
         /\ chain \in Seq(Cities) /\ chain # <<>> /\ terminus \in Points /\ LegCount \in Int
         /\ \A k \in Legs : IsTrunk(Trunk(k)) /\ Vids(k) # {} /\ Vids(k) \subseteq Points
         /\ found.salvage \in Points \cup {None} /\ found.next \in Nat \ {0}
         /\ found.best # None => found.best.leg \in Legs /\ found.best.vid \in Vids(found.best.leg)
<1>1. TypeOK /\ SearchInv /\ pc \notin {"plan", "raised"} /\ pc \in Searching
  BY DEF RouteInv, Searching
<1>2. \A k \in Legs : IsTrunk(Trunk(k)) /\ Vids(k) # {} /\ Vids(k) \subseteq Points
  BY <1>1, OnTrunk
<1>3. LegCount \in Int
  BY <1>1 DEF TypeOK, LegCount
<1> QED
  BY <1>1, <1>2, <1>3 DEF TypeOK, SearchInv

LEMMA SearchKeeps ==
  ASSUME TrunkRouteAssumption, RouteInv, StitchMisses \/ RoadsFail \/ RoadsReach \/ RoadsTried
  PROVE  RouteInv'
<1>1. /\ pc \in {"stitch", "roads"} /\ pc' \in {"roads", "enter"}
      /\ UNCHANGED <<stops, chain, trunk, terminus, leg, walked, bridges>>
  BY DEF StitchMisses, RoadsFail, RoadsReach, RoadsTried
<1>2. /\ leg = 1 /\ walked = <<>> /\ bridges = <<>> /\ 1 \in Legs
      /\ chain \in Seq(Cities) /\ chain # <<>> /\ terminus \in Points /\ LegCount \in Int
      /\ \A k \in Legs : IsTrunk(Trunk(k)) /\ Vids(k) # {} /\ Vids(k) \subseteq Points
      /\ found.salvage \in Points \cup {None} /\ found.next \in Nat \ {0}
      /\ found.best # None => found.best.leg \in Legs /\ found.best.vid \in Vids(found.best.leg)
  BY <1>1, Search
<1>3. /\ LegCount' = LegCount /\ Legs' = Legs
      /\ \A k : Trunk(k)' = Trunk(k) /\ Vids(k)' = Vids(k)
  BY <1>1, SameTrunks
<1>4. /\ found'.salvage \in Points \cup {None} /\ found'.next \in Nat \ {0}
      /\ found'.best # None => found'.best.leg \in Legs /\ found'.best.vid \in Vids(found'.best.leg)
  <2>1. CASE StitchMisses
    <3>1. PICK w \in Vids(1) \cup {None} : found' = [found EXCEPT !.salvage = w]
      BY <2>1 DEF StitchMisses
    <3> QED
      BY <3>1, <1>2
  <2>2. CASE RoadsFail
    <3>1. found' = [found EXCEPT !.next = @ + 1]
      BY <2>2 DEF RoadsFail
    <3> QED
      BY <3>1, <1>2
  <2>3. CASE RoadsReach
    <3>1. found.next \in Legs
      <4>1. found.next < LegCount
        BY <2>3 DEF RoadsReach, InReach
      <4>2. \A n \in Nat \ {0}, m \in Int : n < m => n \in 1..(m - 1)
        OBVIOUS
      <4> QED
        BY <4>1, <4>2, <1>2 DEF Legs
    <3>2. PICK r \in Scores, v \in Vids(found.next) :
            found' = [found EXCEPT
                !.next = @ + 1, !.prev = r,
                !.best = IF @ = None \/ r < @.score
                         THEN [leg |-> found.next, vid |-> v, score |-> r] ELSE @]
      BY <2>3 DEF RoadsReach
    <3> QED
      BY <3>1, <3>2, <1>2
  <2>4. CASE RoadsTried
    BY <2>4, <1>2 DEF RoadsTried
  <2> QED
    BY <2>1, <2>2, <2>3, <2>4
<1>5. TypeOK'
  <2>1. walked' \in Seq(Piece) /\ bridges' \in Seq(Bridge)
    BY <1>1, <1>2
  <2> QED
    BY <1>1, <1>2, <1>3, <1>4, <2>1 DEF TypeOK
<1>6. SearchInv'
  BY <1>1, <1>2, <1>3, <1>4 DEF SearchInv
<1> QED
  BY <1>1, <1>2, <1>5, <1>6, NothingYet DEF RouteInv

LEMMA StartOnTrunkKeeps ==
  ASSUME TrunkRouteAssumption, RouteInv, StartOnTrunk
  PROVE  RouteInv'
<1> DEFINE hits == Ahead(1..SkipMax, terminus)
           first == IF hits = {} THEN 1 ELSE Least(hits)
<1>1. /\ pc = "first" /\ leg' = first /\ bridges' = SkippedThrough(1, first)
      /\ pc' = IF first = 1 THEN "stitch" ELSE "walk"
      /\ UNCHANGED <<stops, chain, trunk, terminus, found, walked>>
  BY DEF StartOnTrunk
<1>2. /\ leg = 1 /\ walked = <<>> /\ bridges = <<>> /\ 1 \in Legs
      /\ chain \in Seq(Cities) /\ chain # <<>> /\ terminus \in Points /\ LegCount \in Int
      /\ \A k \in Legs : IsTrunk(Trunk(k))
      /\ found.salvage \in Points \cup {None} /\ found.next \in Nat \ {0}
  BY <1>1, Search
<1>3. /\ LegCount' = LegCount /\ Legs' = Legs
      /\ \A k : Trunk(k)' = Trunk(k) /\ Vids(k)' = Vids(k)
  BY <1>1, SameTrunks
<1>4. first \in Nat /\ 1 <= first
  <2>1. hits \in SUBSET Nat /\ \A k \in hits : 1 <= k
    BY DEF Ahead
  <2> HIDE DEF hits
  <2>2. CASE hits = {}
    BY <2>2
  <2>3. CASE hits # {}
    BY <2>1, <2>3, LeastIs
  <2> QED
    BY <2>2, <2>3
<1> HIDE DEF first, hits
<1>5. SkippedThrough(1, first) = [n \in 1..(first - 1) |-> [leg |-> 1 + n - 1, kind |-> "skipped"]]
  BY <1>4, SkippedIs
<1>6. bridges' = bridges \o SkippedThrough(leg, first)
  <2> DEFINE r == SkippedThrough(1, first)
  <2>1. <<>> \o r \in Seq(Bridge) /\ r \in Seq(Bridge)
    <3>1. \A n \in 1..(first - 1) : [leg |-> 1 + n - 1, kind |-> "skipped"] \in Bridge
      BY DEF Bridge, Kinds
    <3> DEFINE e(n) == [leg |-> 1 + n - 1, kind |-> "skipped"]
    <3>2. \A n \in 1..(first - 1) : e(n) \in Bridge
      BY <3>1
    <3>3. r = [n \in 1..(first - 1) |-> e(n)]
      BY <1>5
    <3>4. first - 1 \in Nat
      BY <1>4
    <3> HIDE DEF r, e
    <3>5. r \in [1..(first - 1) -> Bridge]
      BY <3>2, <3>3
    <3> QED
      BY <3>4, <3>5
  <2> HIDE DEF r
  <2>2. <<>> \o r = r
    BY <2>1
  <2> QED
    BY <2>2, <1>1, <1>2 DEF r
<1>7. TypeOK /\ AccountInv /\ MeetInv
  BY DEF RouteInv
<1>8. bridges' \in Seq(Bridge) /\ AccountInv' /\ MeetInv'
  BY <1>1, <1>2, <1>4, <1>6, <1>7, SkipStep
<1>9. TypeOK'
  <2>1. walked' \in Seq(Piece)
    BY <1>1, <1>2
  <2> QED
    BY <1>1, <1>2, <1>3, <1>4, <1>8, <2>1 DEF TypeOK
<1>10. SearchInv'
  <2>1. first = 1 => SkippedThrough(1, first) = <<>>
    BY <1>5
  <2>2. found'.best = None
    BY <1>1 DEF RouteInv, SearchInv, Searching
  <2> QED
    BY <1>1, <1>2, <1>3, <2>1, <2>2 DEF SearchInv, Searching
<1>11. StandInv'
  BY <1>1, <1>2 DEF StandInv
<1> QED
  BY <1>8, <1>9, <1>10, <1>11 DEF RouteInv

(* The walk begins on the first trunk, or where its last resort leads.      *)
LEMMA EnterKeeps ==
  ASSUME TrunkRouteAssumption, RouteInv, StitchByTree \/ Salvage \/ EnterByTree
  PROVE  RouteInv'
<1>1. /\ pc \in {"stitch", "enter"} /\ pc' = "walk" /\ found' \in {found, NothingFound}
      /\ UNCHANGED <<stops, chain, trunk, leg, walked, bridges>>
  BY DEF StitchByTree, Salvage, EnterByTree
<1>2. /\ leg = 1 /\ walked = <<>> /\ bridges = <<>> /\ 1 \in Legs
      /\ chain \in Seq(Cities) /\ chain # <<>> /\ terminus \in Points
      /\ \A k \in Legs : IsTrunk(Trunk(k)) /\ Vids(k) # {} /\ Vids(k) \subseteq Points
      /\ found.salvage \in Points \cup {None} /\ found.next \in Nat \ {0}
  BY <1>1, Search
<1>3. /\ LegCount' = LegCount /\ Legs' = Legs
      /\ \A k : Trunk(k)' = Trunk(k) /\ Vids(k)' = Vids(k)
  BY <1>1, SameTrunks
<1>4. terminus' \in Points
  <2>1. CASE StitchByTree
    BY <2>1, <1>2 DEF StitchByTree
  <2>2. CASE Salvage
    BY <2>2, <1>2 DEF Salvage
  <2>3. CASE EnterByTree
    <3> DEFINE roots == {v \in Vids(1) : Trunk(1)[v] = None}
    <3>1. terminus' \in {Nearest(roots, terminus), terminus}
      BY <2>3 DEF EnterByTree
    <3>2. roots # {} /\ roots \subseteq Points
      <4>1. IsTrunk(Trunk(1)) /\ Vids(1) = DOMAIN Trunk(1)
        BY <1>2 DEF Vids
      <4>2. PICK v \in DOMAIN Trunk(1) : Trunk(1)[v] \notin DOMAIN Trunk(1)
        BY <4>1 DEF IsTrunk, Acyclic
      <4>3. Trunk(1)[v] = None
        BY <4>1, <4>2 DEF IsTrunk
      <4> QED
        BY <4>1, <4>2, <4>3, <1>2
    <3>3. roots \in SUBSET Nat /\ terminus \in Nat
      BY <3>2, <1>2 DEF TrunkRouteAssumption
    <3> HIDE DEF roots
    <3>4. Nearest(roots, terminus) \in roots
      BY <3>2, <3>3, NearestIs
    <3> QED
      BY <3>1, <3>2, <3>4, <1>2
  <2> QED
    BY <2>1, <2>2, <2>3
<1>5. TypeOK'
  <2>1. walked' \in Seq(Piece) /\ bridges' \in Seq(Bridge)
    BY <1>1, <1>2
  <2>2. found'.salvage \in Points \cup {None} /\ found'.next \in Nat \ {0}
    BY <1>1, <1>2 DEF NothingFound
  <2> QED
    BY <1>1, <1>2, <1>3, <1>4, <2>1, <2>2 DEF TypeOK
<1>6. SearchInv'
  BY <1>1 DEF SearchInv, Searching
<1> QED
  BY <1>1, <1>2, <1>5, <1>6, NothingYet DEF RouteInv

(* A road leads to a later trunk: the legs before it are reported.          *)
LEMMA EnterByRoadKeeps ==
  ASSUME TrunkRouteAssumption, RouteInv, EnterByRoad
  PROVE  RouteInv'
<1>1. /\ pc = "enter" /\ pc' = "walk" /\ found.best # None /\ found' = NothingFound
      /\ terminus' = found.best.vid /\ leg' = found.best.leg
      /\ bridges' = bridges \o SkippedThrough(leg, found.best.leg)
      /\ UNCHANGED <<stops, chain, trunk, walked>>
  BY DEF EnterByRoad
<1>2. /\ leg = 1 /\ walked = <<>> /\ chain \in Seq(Cities) /\ chain # <<>> /\ LegCount \in Int
      /\ \A k \in Legs : IsTrunk(Trunk(k)) /\ Vids(k) \subseteq Points
      /\ found.best.leg \in Legs /\ found.best.vid \in Vids(found.best.leg)
  BY <1>1, Search
<1>3. /\ LegCount' = LegCount /\ Legs' = Legs
      /\ \A k : Trunk(k)' = Trunk(k) /\ Vids(k)' = Vids(k)
  BY <1>1, SameTrunks
<1>4. found.best.leg \in Nat /\ leg <= found.best.leg
  BY <1>2 DEF Legs
<1>5. TypeOK /\ AccountInv /\ MeetInv
  BY DEF RouteInv
<1>6. bridges' \in Seq(Bridge) /\ AccountInv' /\ MeetInv'
  BY <1>1, <1>4, <1>5, SkipStep
<1>7. TypeOK'
  <2>1. walked' \in Seq(Piece)
    BY <1>1, <1>2
  <2>2. found'.salvage \in Points \cup {None} /\ found'.next \in Nat \ {0}
    BY <1>1 DEF NothingFound
  <2>3. leg' \in Nat \ {0}
    BY <1>1, <1>2, <1>4
  <2> QED
    BY <1>1, <1>2, <1>3, <1>6, <2>1, <2>2, <2>3 DEF TypeOK
<1>8. SearchInv' /\ StandInv'
  BY <1>1, <1>2 DEF SearchInv, Searching, StandInv
<1> QED
  BY <1>6, <1>7, <1>8 DEF RouteInv

(* In the walk, a skip leads to a trunk the walk already stands on.         *)
LEMMA SkipAheadKeeps ==
  ASSUME TrunkRouteAssumption, RouteInv, SkipAhead
  PROVE  RouteInv'
<1> DEFINE to == Least(Jumps)
<1>1. /\ pc = "walk" /\ Jumps # {} /\ leg' = to /\ leg < LegCount
      /\ bridges' = bridges \o SkippedThrough(leg, to)
      /\ UNCHANGED <<pc, stops, chain, trunk, terminus, found, walked>>
  BY DEF SkipAhead
<1>2. TypeOK /\ AccountInv /\ MeetInv /\ StandInv
  BY DEF RouteInv
<1>3. leg \in Nat \ {0} /\ walked \in Seq(Piece) /\ LegCount \in Int
  BY <1>2 DEF TypeOK, LegCount
<1>4. to \in Nat /\ leg < to /\ to < LegCount /\ terminus \in Vids(to)
  <2>1. \A k \in Jumps : k \in Nat /\ leg < k /\ k < LegCount /\ terminus \in Vids(k)
    BY <1>3 DEF Jumps, Ahead
  <2>2. Jumps \in SUBSET Nat
    BY <2>1
  <2>3. to \in Jumps
    BY <1>1, <2>2, LeastIs
  <2> HIDE DEF to
  <2> QED
    BY <2>1, <2>3
<1> HIDE DEF to
<1>5. /\ LegCount' = LegCount /\ Legs' = Legs
      /\ \A k : Trunk(k)' = Trunk(k) /\ Vids(k)' = Vids(k)
  BY <1>1, SameTrunks
<1>6. bridges' \in Seq(Bridge) /\ AccountInv' /\ MeetInv'
  <2>1. leg <= to /\ to \in Nat /\ pc' \notin {"last", "done"}
    BY <1>1, <1>3, <1>4
  <2> QED
    BY <1>1, <1>2, <2>1, SkipStep
<1>7. TypeOK'
  <2>1. leg' \in Nat \ {0}
    BY <1>1, <1>3, <1>4
  <2> QED
    BY <1>1, <1>2, <1>5, <1>6, <2>1 DEF TypeOK
<1>8. SearchInv'
  BY <1>1 DEF SearchInv, Searching
<1>9. StandInv'
  <2> SUFFICES ASSUME walked # <<>>
               PROVE  LET p == walked[Len(walked)] IN
                      /\ terminus = p.path[Len(p.path)]
                      /\ p.leg < to /\ to # p.leg + 1 /\ terminus \in Vids(to)
    BY <1>1, <1>5 DEF StandInv
  <2> DEFINE p == walked[Len(walked)]
  <2>1. p \in Piece
    BY <1>3
  <2>2. p.leg \in Nat
    BY <2>1 DEF Piece
  <2>3. p.leg < leg /\ terminus = p.path[Len(p.path)]
    BY <1>2 DEF StandInv
  <2> HIDE DEF p
  <2>4. p.leg < to /\ to # p.leg + 1
    BY <2>2, <2>3, <1>3, <1>4
  <2> QED
    BY <2>3, <2>4, <1>4 DEF p
<1> QED
  BY <1>6, <1>7, <1>8, <1>9 DEF RouteInv

(* The end of the walk reports the first mile and perhaps the last.         *)
LEMMA EndKeeps ==
  ASSUME TrunkRouteAssumption, RouteInv, WalkDone \/ LastMile \/ LastMileStraight
  PROVE  RouteInv'
<1>1. /\ pc \in {"walk", "last"} /\ pc' \in {"last", "done"}
      /\ UNCHANGED <<stops, chain, trunk, terminus, leg, found, walked>>
  BY DEF WalkDone, LastMile, LastMileStraight
<1>2. TypeOK /\ AccountInv /\ MeetInv /\ StandInv
  BY DEF RouteInv
<1>3. bridges \in Seq(Bridge) /\ leg >= LegCount /\ LegCount \in Int
  BY <1>2 DEF TypeOK, AccountInv, LegCount, WalkDone, LastMile, LastMileStraight
<1>4. /\ LegCount' = LegCount /\ Legs' = Legs
      /\ \A k : Trunk(k)' = Trunk(k) /\ Vids(k)' = Vids(k)
  BY <1>1, SameTrunks
<1> DEFINE first == [leg |-> 0, kind |-> "first_mile"]
           last == [leg |-> LegCount, kind |-> "last_mile"]
<1>5. \/ bridges' = bridges
      \/ bridges' = <<first>> \o bridges
      \/ bridges' = Append(bridges, last) /\ pc = "last"
  BY DEF WalkDone, LastMile, LastMileStraight
<1>6. first \in Bridge /\ first.kind = "first_mile" /\ last.kind = "last_mile"
  BY DEF Bridge, Kinds
<1>7. last \in Bridge
  <2>1. LegCount \in Nat
    <3>1. chain \in Seq(Cities) /\ chain # <<>> /\ Len(chain) \in Nat
      BY <1>1, <1>2 DEF TypeOK
    <3>2. Len(chain) > 0
      BY <3>1
    <3> QED
      BY <3>1, <3>2 DEF LegCount
  <2> QED
    BY <2>1 DEF Bridge, Kinds
<1> HIDE DEF first, last
<1>8. \A k : /\ [leg |-> k, kind |-> "gap"].kind = "gap"
             /\ [leg |-> k, kind |-> "skipped"].kind = "skipped"
  OBVIOUS
<1>9. bridges' \in Seq(Bridge)
  BY <1>3, <1>5, <1>6, <1>7
<1>10. ASSUME NEW k, NEW kind \in {"gap", "skipped"}
       PROVE  \/ Named(k, kind)' = Named(k, kind)
              \/ Named(k, kind)' = {n + 1 : n \in Named(k, kind)}
  <2> DEFINE x == [leg |-> k, kind |-> kind]
  <2>1. x.kind = kind
    OBVIOUS
  <2>2. Named(k, kind) = At(bridges, x) /\ Named(k, kind)' = At(bridges', x)
    BY NamedAt
  <2> HIDE DEF x
  <2>3. first # x /\ last # x
    BY <2>1, <1>6
  <2>4. CASE bridges' = bridges
    BY <2>2, <2>4
  <2>5. CASE bridges' = <<first>> \o bridges
    <3>1. At(<<first>> \o bridges, x) = {n + 1 : n \in At(bridges, x)}
      BY <1>3, <1>6, <2>3, AtPrepend
    <3> QED
      BY <2>2, <2>5, <3>1
  <2>6. CASE bridges' = Append(bridges, last)
    <3>1. At(Append(bridges, last), x) = At(bridges, x)
      BY <1>3, <1>7, <2>3, AtAppend
    <3> QED
      BY <2>2, <2>6, <3>1
  <2> QED
    BY <2>4, <2>5, <2>6, <1>5
<1>11. \A k : Named(k, "gap")' = {} <=> Named(k, "gap") = {}
  BY <1>10
<1>12. \A k : Named(k, "skipped")' = {} <=> Named(k, "skipped") = {}
  BY <1>10
<1>13. \A k : Single(Named(k, "skipped")) => Single(Named(k, "skipped")')
  <2> TAKE k
  <2> HAVE Single(Named(k, "skipped"))
  <2>1. PICK n : Named(k, "skipped") = {n}
    BY DEF Single
  <2>2. Named(k, "skipped")' = {n} \/ Named(k, "skipped")' = {n + 1}
    BY <2>1, <1>10
  <2> QED
    BY <2>2 DEF Single
<1>14. AccountInv' /\ MeetInv'
  BY <1>1, <1>2, <1>3, <1>11, <1>12, <1>13, ReportStep
<1>15. TypeOK' /\ SearchInv' /\ StandInv'
  <2>1. TypeOK'
    BY <1>1, <1>2, <1>4, <1>9 DEF TypeOK
  <2>2. SearchInv'
    BY <1>1 DEF SearchInv, Searching
  <2>3. StandInv'
    BY <1>1, <1>2, <1>4 DEF StandInv
  <2> QED
    BY <2>1, <2>2, <2>3
<1> QED
  BY <1>14, <1>15 DEF RouteInv

-----------------------------------------------------------------------------
(* RouteInv holds initially, and every step keeps it.                       *)
LEMMA InitInv == TrunkRouteAssumption /\ Init => RouteInv
<1> SUFFICES ASSUME TrunkRouteAssumption, Init PROVE RouteInv
  OBVIOUS
<1>1. TypeOK
  BY DEF Init, TypeOK, NothingFound
<1>2. SearchInv
  BY DEF Init, SearchInv, NothingFound
<1>3. AccountInv
  BY DEF Init, AccountInv, Pending, Pieces, Named, Legs, LegCount
<1>4. StandInv /\ MeetInv
  BY DEF Init, StandInv, MeetInv, PiecesMeet
<1> QED
  BY <1>1, <1>2, <1>3, <1>4 DEF RouteInv

LEMMA NextInv == TrunkRouteAssumption /\ RouteInv /\ [Next]_vars => RouteInv'
<1> SUFFICES ASSUME TrunkRouteAssumption, RouteInv, [Next]_vars PROVE RouteInv'
  OBVIOUS
<1>1. CASE NoPath
  <2>1. /\ pc = "plan" /\ pc' = "raised"
        /\ UNCHANGED <<stops, chain, trunk, terminus, leg, found, walked, bridges>>
    BY <1>1 DEF NoPath
  <2>2. leg = 1 /\ walked = <<>> /\ bridges = <<>> /\ found.best = None
    BY <2>1 DEF RouteInv, SearchInv, Searching
  <2>3. TypeOK'
    BY <2>1 DEF RouteInv, TypeOK
  <2>4. SearchInv'
    BY <2>1, <2>2 DEF SearchInv
  <2> QED
    BY <2>1, <2>2, <2>3, <2>4, NothingYet DEF RouteInv
<1>2. CASE Plan
  BY <1>2, PlanKeeps
<1>3. CASE StartOnTrunk
  BY <1>3, StartOnTrunkKeeps
<1>4. CASE StitchByTree \/ Salvage \/ EnterByTree
  BY <1>4, EnterKeeps
<1>5. CASE StitchMisses \/ RoadsFail \/ RoadsReach \/ RoadsTried
  BY <1>5, SearchKeeps
<1>6. CASE EnterByRoad
  BY <1>6, EnterByRoadKeeps
<1>7. CASE SkipAhead
  BY <1>7, SkipAheadKeeps
<1>8. CASE WalkLeg
  BY <1>8, WalkLegKeeps
<1>9. CASE WalkDone \/ LastMile \/ LastMileStraight
  BY <1>9, EndKeeps
<1>10. CASE UNCHANGED vars
  <2>1. UNCHANGED <<pc, stops, chain, trunk, terminus, leg, found, walked, bridges>>
    BY <1>10 DEF vars
  <2>2. TypeOK /\ SearchInv /\ AccountInv /\ StandInv /\ MeetInv
    BY DEF RouteInv
  <2>3. AccountInv' /\ MeetInv'
    BY <2>1, <2>2, QuietStep DEF AccountInv
  <2>4. TypeOK' /\ SearchInv' /\ StandInv'
    BY <2>1, <2>2, SameTrunks DEF TypeOK, SearchInv, StandInv
  <2> QED
    BY <2>3, <2>4 DEF RouteInv
<1>11. \/ NoPath \/ Plan \/ StartOnTrunk
       \/ StitchByTree \/ Salvage \/ EnterByTree
       \/ StitchMisses \/ RoadsFail \/ RoadsReach \/ RoadsTried
       \/ EnterByRoad \/ SkipAhead \/ WalkLeg
       \/ WalkDone \/ LastMile \/ LastMileStraight
       \/ UNCHANGED vars
  BY DEF Next
<1> QED
  BY <1>1, <1>2, <1>3, <1>4, <1>5, <1>6, <1>7, <1>8, <1>9, <1>10, <1>11

LEMMA Inductive == TrunkRouteAssumption => (Spec => []RouteInv)
<1> SUFFICES ASSUME TrunkRouteAssumption PROVE Spec => []RouteInv
  OBVIOUS
<1>1. Init => RouteInv
  BY InitInv
<1>2. RouteInv /\ [Next]_vars => RouteInv'
  BY NextInv
<1> QED
  BY <1>1, <1>2, PTL DEF Spec

(* Every leg of a finished route is ridden once or reported as skipped      *)
(* once, whichever of the three skips passed it.                            *)
THEOREM LegsAreAccounted == TrunkRouteAssumption => (Spec => []LegsAccounted)
<1> SUFFICES ASSUME TrunkRouteAssumption PROVE Spec => []LegsAccounted
  OBVIOUS
<1>1. RouteInv => LegsAccounted
  <2> SUFFICES ASSUME RouteInv, pc = "done", NEW k \in 1..(LegCount - 1)
               PROVE  Cardinality(Pieces(k)) + Cardinality(Named(k, "skipped")) = 1
    BY DEF LegsAccounted
  <2>1. AccountInv /\ TypeOK
    BY DEF RouteInv
  <2>2. LegCount \in Int /\ leg \in Nat /\ leg >= LegCount
    BY <2>1 DEF TypeOK, LegCount, AccountInv
  <2>3. k \in Legs /\ k < leg
    BY <2>2 DEF Legs
  <2>4. Ridden(k) \/ Reported(k)
    BY <2>1, <2>3 DEF AccountInv
  <2>5. \A S : Single(S) => Cardinality(S) = 1
    BY FS_Singleton DEF Single
  <2>6. Cardinality({}) = 0
    BY FS_EmptySet
  <2>7. CASE Ridden(k)
    <3>1. Cardinality(Pieces(k)) = 1 /\ Cardinality(Named(k, "skipped")) = 0
      BY <2>5, <2>6, <2>7 DEF Ridden
    <3> QED
      BY <3>1
  <2>8. CASE Reported(k)
    <3>1. Cardinality(Pieces(k)) = 0 /\ Cardinality(Named(k, "skipped")) = 1
      BY <2>5, <2>6, <2>8 DEF Reported
    <3> QED
      BY <3>1
  <2> QED
    BY <2>4, <2>7, <2>8
<1> QED
  BY <1>1, Inductive, PTL

(* Two pieces meet unless a gap is reported, and no gap is reported where   *)
(* the earlier piece, as far as it was ridden, touches the later trunk.     *)
THEOREM RoutePiecesMeet == TrunkRouteAssumption => (Spec => []PiecesMeet)
<1> SUFFICES ASSUME TrunkRouteAssumption PROVE Spec => []PiecesMeet
  OBVIOUS
<1>1. RouteInv => PiecesMeet
  BY DEF RouteInv, MeetInv
<1> QED
  BY <1>1, Inductive, PTL

---------------------------------------------------------------------------
(***************************************************************************)
(* TrunkViews: the chains of any trunk draw its edges, each once.  `row`   *)
(* is its succ.                                                            *)
(***************************************************************************)
VARIABLES row, leaf, cur, coords, visited, chains
Views == INSTANCE TrunkViews WITH succ <- row

ViewTyped ==
    /\ pc \in {"draw", "done"}
    /\ DOMAIN row \subseteq Vertices
    /\ \A v \in DOMAIN row : row[v] \in Vertices \cup {None}
    /\ Views!Acyclic(row)
    /\ visited \subseteq DOMAIN row
    /\ coords \in Seq(DOMAIN row) /\ chains \in Seq(Seq(DOMAIN row))
    /\ pc = "done" => leaf = None /\ Views!Coming = {}

Passes(c, v) == \E k \in 1..(Len(c) - 1) : c[k] = v
Drawing(v) == \E k \in 1..Len(coords) : coords[k] = v

(* A chain that follows the successors through visited vertices.            *)
Follows(c) ==
    \A k \in 1..(Len(c) - 1) : c[k] \in visited /\ c[k + 1] = Views!NextPos(c[k])

(* The chain being drawn starts at a leaf nobody has visited and goes on at *)
(* the successor of its last vertex.                                        *)
TailInv ==
    /\ leaf = None => coords = <<>> /\ cur = None
    /\ leaf # None /\ coords = <<>> => cur \in DOMAIN row /\ cur \notin visited
    /\ coords # <<>> => leaf # None /\ cur = Views!NextPos(coords[Len(coords)])
    /\ \A k \in 1..Len(coords) : coords[k] \in visited
    /\ Follows(coords)

(* Nothing is visited whose successor is not, but for the end of the chain. *)
ClosedInv ==
    \A v \in visited : \/ Views!NextPos(v) \in visited \cup {None}
                       \/ coords # <<>> /\ v = coords[Len(coords)]

(* The edge from a visited vertex is on the chain being drawn or on one of  *)
(* the finished ones.                                                       *)
OnceInv ==
    \A v \in visited : Views!NextPos(v) # None =>
        \/ Drawing(v) /\ \A n \in DOMAIN chains : ~Passes(chains[n], v)
        \/ ~Drawing(v) /\ \E n \in DOMAIN chains :
                \A m \in DOMAIN chains : Passes(chains[m], v) <=> m = n

LinesInv == \A n \in DOMAIN chains : Follows(chains[n])

ViewInv == ViewTyped /\ TailInv /\ ClosedInv /\ OnceInv /\ LinesInv

(* Both of them are the notions of FiniteSets.                              *)
LEMMA SameFinite ==
  /\ \A S : Views!IsFiniteSet(S) <=> IsFiniteSet(S)
  /\ \A S : Views!Cardinality(S) = Cardinality(S)
<1>1. \A S : Views!IsFiniteSet(S) <=> IsFiniteSet(S)
  BY Zenon DEF Views!IsFiniteSet, IsFiniteSet
<1>2. \A S : Views!Cardinality(S) = Cardinality(S)
  BY Zenon DEF Views!Cardinality, Cardinality
<1> QED
  BY <1>1, <1>2

(* A successor on the trunk is the one in the row.                          *)
LEMMA NextPosIs ==
  ASSUME Views!TrunkViewsAssumption, ViewTyped, NEW v \in DOMAIN row
  PROVE  /\ Views!NextPos(v) \in DOMAIN row \cup {None}
         /\ Views!NextPos(v) # None => Views!NextPos(v) = row[v]
         /\ None \notin DOMAIN row
  BY DEF Views!NextPos, ViewTyped, Views!TrunkViewsAssumption

(* Among any vertices of a trunk one is the successor of no other: the      *)
(* trunk is finite and has no circle.                                       *)
LEMMA SourceExists ==
  ASSUME Views!TrunkViewsAssumption, ViewTyped, NEW U \in SUBSET DOMAIN row, U # {}
  PROVE  \E u \in U : \A p \in U : Views!NextPos(p) # u
<1> SUFFICES ASSUME \A u \in U : \E p \in U : Views!NextPos(p) = u
             PROVE  FALSE
  OBVIOUS
<1> DEFINE P == {p \in U : Views!NextPos(p) \in U}
           f == [p \in P |-> Views!NextPos(p)]
<1>1. IsFiniteSet(U)
  <2>1. IsFiniteSet(Vertices) /\ U \subseteq Vertices
    BY SameFinite DEF Views!TrunkViewsAssumption, ViewTyped
  <2> QED
    BY <2>1, FS_Subset
<1>2. f \in Surjection(P, U)
  BY DEF Surjection
<1>3. IsFiniteSet(P) /\ Cardinality(P) <= Cardinality(U) /\ (Cardinality(P) = Cardinality(U) => P = U)
  <2>1. P \in SUBSET U
    OBVIOUS
  <2> HIDE DEF P
  <2> QED
    BY <1>1, <2>1, FS_Subset
<1>4. Cardinality(U) <= Cardinality(P)
  <2> HIDE DEF P, f
  <2> QED
    BY <1>2, <1>3, FS_Surjection
<1>5. P = U
  <2>1. Cardinality(P) \in Nat /\ Cardinality(U) \in Nat
    BY <1>1, <1>3, FS_CardinalityType
  <2> QED
    BY <1>3, <1>4, <2>1
<1>6. PICK v \in U : row[v] \notin U
  BY DEF ViewTyped, Views!Acyclic
<1>7. Views!NextPos(v) \in U
  BY <1>5
<1> QED
  BY <1>6, <1>7, NextPosIs

(* What is computed from the rows stays with them.                          *)
LEMMA SameRows ==
  ASSUME row' = row
  PROVE  /\ \A v : Views!NextPos(v)' = Views!NextPos(v)
         /\ Views!Leaves' = Views!Leaves
         /\ Views!Acyclic(row)' <=> Views!Acyclic(row)
  BY DEF Views!NextPos, Views!Leaves, Views!Acyclic

(* A chain through visited vertices stays one.                              *)
LEMMA FollowsOn ==
  ASSUME row' = row, visited \subseteq visited'
  PROVE  \A c : Follows(c) => Follows(c)'
<1> SUFFICES ASSUME NEW c, Follows(c) PROVE Follows(c)'
  OBVIOUS
<1> QED
  BY SameRows DEF Follows

(* The line that is drawn when a chain ends: it passes what was being       *)
(* drawn, and is left out only if it has no edge.                           *)
LEMMA TouchIs ==
  ASSUME Views!TrunkViewsAssumption, ViewInv, Views!EndChain
  PROVE  /\ coords # <<>>
         /\ Views!Touch \in Seq(DOMAIN row)
         /\ Follows(Views!Touch)
         /\ \A v \in DOMAIN row : Views!NextPos(v) # None => (Passes(Views!Touch, v) <=> Drawing(v))
         /\ Len(Views!Touch) < 2 => \A v : ~Passes(Views!Touch, v)
<1>1. coords \in Seq(DOMAIN row) /\ visited \subseteq DOMAIN row
  BY DEF ViewInv, ViewTyped
<1>2. coords # <<>> /\ cur = Views!NextPos(coords[Len(coords)])
  BY <1>1, NextPosIs DEF ViewInv, TailInv, ViewTyped, Views!EndChain
<1>3. Len(coords) \in Nat \ {0} /\ \A k \in 1..Len(coords) : coords[k] \in DOMAIN row /\ coords[k] \in visited
  BY <1>1, <1>2 DEF ViewInv, TailInv
<1>4. Follows(coords)
  BY DEF ViewInv, TailInv
<1>5. CASE cur = None
  <2>1. Views!Touch = coords
    BY <1>5 DEF Views!Touch
  <2>2. ASSUME NEW v \in DOMAIN row, Views!NextPos(v) # None
        PROVE  Passes(coords, v) <=> Drawing(v)
    <3>1. v # coords[Len(coords)]
      BY <1>2, <1>5, <2>2
    <3>2. ASSUME Drawing(v) PROVE Passes(coords, v)
      <4>1. PICK k \in 1..Len(coords) : coords[k] = v
        BY <3>2 DEF Drawing
      <4>2. k \in 1..(Len(coords) - 1)
        BY <3>1, <4>1, <1>3
      <4> QED
        BY <4>1, <4>2 DEF Passes
    <3>3. Passes(coords, v) => Drawing(v)
      BY <1>3 DEF Passes, Drawing
    <3> QED
      BY <3>2, <3>3
  <2>3. Len(coords) < 2 => \A v : ~Passes(coords, v)
    BY <1>3 DEF Passes
  <2> QED
    BY <1>1, <1>2, <1>4, <2>1, <2>2, <2>3
<1>6. CASE cur # None
  <2>1. Views!Touch = Append(coords, cur) /\ cur \in DOMAIN row
    BY <1>2, <1>3, <1>6, NextPosIs DEF Views!Touch, ViewInv
  <2>2. /\ Append(coords, cur) \in Seq(DOMAIN row) /\ Len(Append(coords, cur)) = Len(coords) + 1
        /\ \A k \in 1..Len(coords) : Append(coords, cur)[k] = coords[k]
        /\ Append(coords, cur)[Len(coords) + 1] = cur
    BY <1>1, <2>1
  <2>3. Follows(Append(coords, cur))
    <3> SUFFICES ASSUME NEW k \in 1..Len(coords)
                 PROVE  /\ Append(coords, cur)[k] \in visited
                        /\ Append(coords, cur)[k + 1] = Views!NextPos(Append(coords, cur)[k])
      BY <2>2, <1>3 DEF Follows
    <3>1. CASE k = Len(coords)
      BY <3>1, <1>2, <1>3, <2>2
    <3>2. CASE k # Len(coords)
      <4>1. k \in 1..(Len(coords) - 1) /\ k + 1 \in 1..Len(coords)
        BY <3>2, <1>3
      <4> QED
        BY <4>1, <1>3, <1>4, <2>2 DEF Follows
    <3> QED
      BY <3>1, <3>2
  <2>4. \A v : Passes(Append(coords, cur), v) <=> Drawing(v)
    BY <1>3, <2>2 DEF Passes, Drawing
  <2> QED
    BY <1>2, <1>3, <2>1, <2>2, <2>3, <2>4
<1> QED
  BY <1>5, <1>6

(* Before a line is drawn nothing is visited.                               *)
LEMMA ViewInit == Views!TrunkViewsAssumption /\ Views!Init => ViewInv
<1> SUFFICES ASSUME Views!TrunkViewsAssumption, Views!Init PROVE ViewInv
  OBVIOUS
<1>1. PICK S \in SUBSET Vertices : row \in [S -> Vertices \cup {None}]
  BY DEF Views!Init
<1>2. ViewTyped
  BY <1>1 DEF Views!Init, ViewTyped
<1> QED
  BY <1>2 DEF Views!Init, ViewInv, TailInv, ClosedInv, OnceInv, LinesInv, Follows

(* The next leaf is not visited yet.                                        *)
LEMMA NextLeafKeeps ==
  ASSUME Views!TrunkViewsAssumption, ViewInv, Views!NextLeaf
  PROVE  ViewInv'
<1>1. /\ leaf = None /\ coords = <<>> /\ coords' = <<>> /\ pc = "draw"
      /\ leaf' = Views!Least(Views!Coming) /\ cur' = leaf'
      /\ UNCHANGED <<pc, row, visited, chains>>
  BY DEF Views!NextLeaf, ViewInv, TailInv
<1>2. leaf' \in DOMAIN row /\ leaf' \notin visited /\ leaf' # None
  <2>1. Views!Coming \in SUBSET Nat /\ Views!Coming # {}
    BY DEF Views!NextLeaf, Views!Coming, Views!Leaves, ViewInv, ViewTyped, Views!TrunkViewsAssumption
  <2>2. Views!Least(Views!Coming) \in Views!Coming
    BY <2>1, LeastNat DEF Views!Least
  <2> QED
    BY <1>1, <2>2 DEF Views!Coming, Views!Leaves, ViewInv, ViewTyped, Views!TrunkViewsAssumption
<1>3. ViewTyped'
  BY <1>1, SameRows DEF ViewInv, ViewTyped
<1>4. \A v : Drawing(v)' <=> Drawing(v)
  BY <1>1 DEF Drawing
<1>5. TailInv' /\ ClosedInv' /\ OnceInv'
  <2>1. TailInv'
    BY <1>1, <1>2 DEF TailInv, Follows
  <2>2. ClosedInv'
    BY <1>1, SameRows DEF ViewInv, ClosedInv
  <2>3. OnceInv'
    BY <1>1, <1>4, SameRows DEF ViewInv, OnceInv
  <2> QED
    BY <2>1, <2>2, <2>3
<1>6. LinesInv'
  BY <1>1, FollowsOn DEF ViewInv, LinesInv
<1> QED
  BY <1>3, <1>5, <1>6 DEF ViewInv

(* A vertex is added to the chain.                                          *)
LEMMA ExtendKeeps ==
  ASSUME Views!TrunkViewsAssumption, ViewInv, Views!Extend
  PROVE  ViewInv'
<1>1. /\ leaf # None /\ cur # None /\ cur \notin visited /\ pc = "draw"
      /\ visited' = visited \cup {cur} /\ coords' = Append(coords, cur)
      /\ cur' = Views!NextPos(cur)
      /\ UNCHANGED <<pc, row, leaf, chains>>
  BY DEF Views!Extend
<1>2. coords \in Seq(DOMAIN row) /\ Len(coords) \in Nat /\ chains \in Seq(Seq(DOMAIN row))
      /\ visited \subseteq DOMAIN row /\ ViewTyped
  BY DEF ViewInv, ViewTyped
<1>3. cur \in DOMAIN row
  <2>1. CASE coords = <<>>
    BY <1>1, <2>1 DEF ViewInv, TailInv
  <2>2. CASE coords # <<>>
    <3>1. coords[Len(coords)] \in DOMAIN row
      BY <2>2, <1>2
    <3> QED
      BY <3>1, <1>1, <1>2, <2>2, NextPosIs DEF ViewInv, TailInv
  <2> QED
    BY <2>1, <2>2
<1>4. /\ coords' \in Seq(DOMAIN row) /\ coords' # <<>> /\ Len(coords') = Len(coords) + 1
      /\ \A k \in 1..Len(coords) : coords'[k] = coords[k]
      /\ coords'[Len(coords) + 1] = cur
  BY <1>1, <1>2, <1>3
<1>5. ViewTyped'
  BY <1>1, <1>2, <1>3, <1>4, SameRows DEF ViewTyped
<1>6. TailInv'
  <2>1. \A k \in 1..Len(coords') : coords'[k] \in visited'
    BY <1>1, <1>2, <1>4 DEF ViewInv, TailInv
  <2>2. \A k \in 1..(Len(coords') - 1) : coords'[k + 1] = Views!NextPos(coords'[k])
    <3> SUFFICES ASSUME NEW k \in 1..Len(coords)
                 PROVE  coords'[k + 1] = Views!NextPos(coords'[k])
      BY <1>2, <1>4
    <3>1. CASE k = Len(coords)
      <4>1. coords # <<>>
        BY <3>1, <1>2
      <4>2. cur = Views!NextPos(coords[k])
        BY <3>1, <4>1 DEF ViewInv, TailInv
      <4> QED
        BY <3>1, <4>2, <1>2, <1>4
    <3>2. CASE k # Len(coords)
      <4>1. k \in 1..(Len(coords) - 1) /\ k + 1 \in 1..Len(coords)
        BY <3>2, <1>2
      <4>2. coords[k + 1] = Views!NextPos(coords[k])
        BY <4>1 DEF ViewInv, TailInv, Follows
      <4> QED
        BY <4>1, <4>2, <1>4
    <3> QED
      BY <3>1, <3>2
  <2>3. Follows(coords)'
    BY <1>1, <1>2, <1>4, <2>1, <2>2, SameRows DEF Follows
  <2> QED
    BY <1>1, <1>2, <1>4, <2>1, <2>3, SameRows DEF TailInv
<1>7. ClosedInv'
  <2> SUFFICES ASSUME NEW v \in visited'
               PROVE  \/ Views!NextPos(v) \in visited' \cup {None}
                      \/ v = coords'[Len(coords')]
    BY <1>1, <1>4, SameRows DEF ClosedInv
  <2>1. CASE v = cur
    BY <2>1, <1>2, <1>4
  <2>2. CASE v # cur
    BY <2>2, <1>1, <1>2 DEF ViewInv, ClosedInv, TailInv
  <2> QED
    BY <2>1, <2>2
<1>8. OnceInv'
  <2>1. \A v : Drawing(v)' <=> Drawing(v) \/ v = cur
    <3> TAKE v
    <3>1. ASSUME Drawing(v)' PROVE Drawing(v) \/ v = cur
      <4>1. PICK k \in 1..(Len(coords) + 1) : coords'[k] = v
        BY <3>1, <1>4 DEF Drawing
      <4>2. CASE k \in 1..Len(coords)
        BY <4>1, <4>2, <1>4 DEF Drawing
      <4>3. CASE k = Len(coords) + 1
        BY <4>1, <4>3, <1>4
      <4> QED
        BY <4>2, <4>3, <1>2
    <3>2. ASSUME Drawing(v) PROVE Drawing(v)'
      <4>1. PICK k \in 1..Len(coords) : coords[k] = v
        BY <3>2 DEF Drawing
      <4>2. k \in 1..Len(coords') /\ coords'[k] = v
        BY <4>1, <1>2, <1>4
      <4> QED
        BY <4>2 DEF Drawing
    <3>3. ASSUME v = cur PROVE Drawing(v)'
      <4>1. Len(coords) + 1 \in 1..Len(coords') /\ coords'[Len(coords) + 1] = cur
        BY <1>2, <1>4
      <4> QED
        BY <3>3, <4>1 DEF Drawing
    <3> QED
      BY <3>1, <3>2, <3>3
  <2>2. \A n \in DOMAIN chains : ~Passes(chains[n], cur)
    BY <1>1 DEF ViewInv, LinesInv, Follows, Passes
  <2> SUFFICES ASSUME NEW v \in visited', Views!NextPos(v) # None
               PROVE  \/ Drawing(v)' /\ \A n \in DOMAIN chains : ~Passes(chains[n], v)
                      \/ ~Drawing(v)' /\ \E n \in DOMAIN chains :
                              \A m \in DOMAIN chains : Passes(chains[m], v) <=> m = n
    BY <1>1, SameRows DEF OnceInv, Passes
  <2>3. CASE v = cur
    BY <2>1, <2>2, <2>3
  <2>4. CASE v # cur
    BY <2>1, <2>4, <1>1 DEF ViewInv, OnceInv
  <2> QED
    BY <2>3, <2>4
<1>9. LinesInv'
  BY <1>1, FollowsOn DEF ViewInv, LinesInv
<1> QED
  BY <1>5, <1>6, <1>7, <1>8, <1>9 DEF ViewInv

(* A chain ends and becomes a line.                                         *)
LEMMA EndChainKeeps ==
  ASSUME Views!TrunkViewsAssumption, ViewInv, Views!EndChain
  PROVE  ViewInv'
<1> DEFINE c == Views!Touch
<1>1. /\ leaf # None /\ (cur = None \/ cur \in visited) /\ pc = "draw"
      /\ chains' = IF Len(c) >= 2 THEN Append(chains, c) ELSE chains
      /\ leaf' = None /\ cur' = None /\ coords' = <<>>
      /\ UNCHANGED <<pc, row, visited>>
  BY DEF Views!EndChain
<1>2. /\ coords # <<>> /\ c \in Seq(DOMAIN row) /\ Follows(c)
      /\ \A v \in DOMAIN row : Views!NextPos(v) # None => (Passes(c, v) <=> Drawing(v))
      /\ Len(c) < 2 => \A v : ~Passes(c, v)
  BY TouchIs
<1> HIDE DEF c
<1>3. chains \in Seq(Seq(DOMAIN row)) /\ Len(chains) \in Nat /\ DOMAIN chains = 1..Len(chains)
      /\ visited \subseteq DOMAIN row /\ Len(c) \in Nat
  BY <1>2 DEF ViewInv, ViewTyped
<1>4. ASSUME Len(c) >= 2
      PROVE  /\ chains' \in Seq(Seq(DOMAIN row))
             /\ \A n \in DOMAIN chains' : Follows(chains'[n])
             /\ \A v \in visited : Views!NextPos(v) # None =>
                   \E n \in DOMAIN chains' : \A m \in DOMAIN chains' : Passes(chains'[m], v) <=> m = n
  <2>0. chains' = Append(chains, c)
    BY <1>1, <1>4
  <2>1. /\ chains' \in Seq(Seq(DOMAIN row)) /\ DOMAIN chains' = 1..(Len(chains) + 1)
        /\ \A n \in DOMAIN chains : chains'[n] = chains[n]
        /\ chains'[Len(chains) + 1] = c
    <3> DEFINE Line == Seq(DOMAIN row)
    <3>1. chains \in Seq(Line) /\ c \in Line
      BY <1>2, <1>3
    <3> HIDE DEF Line
    <3>2. /\ chains' \in Seq(Line) /\ DOMAIN chains' = 1..(Len(chains) + 1)
          /\ \A n \in DOMAIN chains : chains'[n] = chains[n]
          /\ chains'[Len(chains) + 1] = c
      BY <2>0, <3>1
    <3> QED
      BY <3>2 DEF Line
  <2>2. \A n \in DOMAIN chains' : (n \in DOMAIN chains) \/ (n = Len(chains) + 1)
    BY <1>3, <2>1
  <2>4. \A n \in DOMAIN chains' : Follows(chains'[n])
    BY <1>2, <2>1, <2>2 DEF ViewInv, LinesInv
  <2>3. ASSUME NEW v \in visited, Views!NextPos(v) # None
        PROVE  \E n \in DOMAIN chains' :
                  \A m \in DOMAIN chains' : Passes(chains'[m], v) <=> m = n
    <3>1. Passes(c, v) <=> Drawing(v)
      BY <1>2, <1>3, <2>3
    <3>2. CASE Drawing(v)
      <4>1. \A m \in DOMAIN chains : ~Passes(chains[m], v)
        BY <2>3, <3>2 DEF ViewInv, OnceInv
      <4>2. \A m \in DOMAIN chains' : Passes(chains'[m], v) <=> m = Len(chains) + 1
        BY <1>3, <2>1, <2>2, <3>1, <3>2, <4>1
      <4>3. Len(chains) + 1 \in DOMAIN chains'
        BY <1>3, <2>1
      <4> QED
        BY <4>2, <4>3
    <3>3. CASE ~Drawing(v)
      <4>1. PICK n \in DOMAIN chains :
                \A m \in DOMAIN chains : Passes(chains[m], v) <=> m = n
        BY <2>3, <3>3 DEF ViewInv, OnceInv
      <4>2. \A m \in DOMAIN chains' : Passes(chains'[m], v) <=> m = n
        BY <1>3, <2>1, <2>2, <3>1, <3>3, <4>1
      <4> QED
        BY <1>3, <2>1, <4>1, <4>2
    <3> QED
      BY <3>2, <3>3
  <2> QED
    BY <2>1, <2>3, <2>4
<1>5. ASSUME ~(Len(c) >= 2)
      PROVE  /\ chains' \in Seq(Seq(DOMAIN row))
             /\ \A n \in DOMAIN chains' : Follows(chains'[n])
             /\ \A v \in visited : Views!NextPos(v) # None =>
                   \E n \in DOMAIN chains' : \A m \in DOMAIN chains' : Passes(chains'[m], v) <=> m = n
  <2>1. chains' = chains /\ \A v : ~Passes(c, v)
    BY <1>1, <1>2, <1>3, <1>5
  <2>2. ASSUME NEW v \in visited, Views!NextPos(v) # None
        PROVE  \E n \in DOMAIN chains' :
                  \A m \in DOMAIN chains' : Passes(chains'[m], v) <=> m = n
    <3>1. ~Drawing(v)
      BY <1>2, <1>3, <2>1, <2>2
    <3> QED
      BY <2>1, <2>2, <3>1 DEF ViewInv, OnceInv
  <2> QED
    BY <1>3, <2>1, <2>2 DEF ViewInv, LinesInv
<1>6. /\ chains' \in Seq(Seq(DOMAIN row))
      /\ \A n \in DOMAIN chains' : Follows(chains'[n])
      /\ \A v \in visited : Views!NextPos(v) # None =>
            \E n \in DOMAIN chains' : \A m \in DOMAIN chains' : Passes(chains'[m], v) <=> m = n
  BY <1>3, <1>4, <1>5
<1>7. ViewTyped'
  BY <1>1, <1>6, SameRows DEF ViewInv, ViewTyped
<1>8. TailInv'
  BY <1>1 DEF TailInv, Follows
<1>9. ClosedInv'
  <2>1. \A v \in visited : Views!NextPos(v) \in visited \cup {None}
    BY <1>1, <1>2 DEF ViewInv, ClosedInv, TailInv
  <2> QED
    BY <1>1, <2>1, SameRows DEF ClosedInv
<1>10. OnceInv'
  <2>1. \A v : ~Drawing(v)'
    BY <1>1 DEF Drawing
  <2> QED
    BY <1>1, <1>6, <2>1, SameRows DEF OnceInv, Passes
<1>11. LinesInv'
  BY <1>1, <1>6, FollowsOn DEF LinesInv
<1> QED
  BY <1>7, <1>8, <1>9, <1>10, <1>11 DEF ViewInv

(* No leaf is left.                                                         *)
LEMMA FinishKeeps ==
  ASSUME ViewInv, Views!Finish \/ UNCHANGED Views!vars
  PROVE  ViewInv'
<1>1. /\ UNCHANGED <<row, leaf, cur, coords, visited, chains>>
      /\ pc' # pc => pc' = "done" /\ leaf = None /\ Views!Coming = {}
  BY DEF Views!Finish, Views!vars
<1>2. ViewTyped'
  BY <1>1, SameRows DEF ViewInv, ViewTyped, Views!Coming
<1>3. TailInv' /\ ClosedInv' /\ OnceInv'
  BY <1>1, SameRows DEF ViewInv, TailInv, ClosedInv, OnceInv, Follows, Drawing, Passes
<1>4. LinesInv'
  BY <1>1, FollowsOn DEF ViewInv, LinesInv
<1> QED
  BY <1>2, <1>3, <1>4 DEF ViewInv

(* When no leaf is left every vertex has been visited and every edge drawn. *)
LEMMA ViewInvSuffices ==
  Views!TrunkViewsAssumption /\ ViewInv => Views!ChainsDrawTheTrunk
<1> SUFFICES ASSUME Views!TrunkViewsAssumption, ViewInv, pc = "done"
             PROVE  /\ \A e \in Views!EdgeFeatures :
                        Views!Cardinality({n \in DOMAIN chains : e \in Views!EdgesOf(chains[n])}) = 1
                    /\ \A n \in DOMAIN chains : Views!EdgesOf(chains[n]) \subseteq Views!EdgeFeatures
                    /\ {f.vid : f \in Views!VertexFeatures} = visited
  BY DEF Views!ChainsDrawTheTrunk
<1>1. ViewTyped /\ leaf = None /\ coords = <<>> /\ Views!Coming = {}
      /\ visited \subseteq DOMAIN row /\ \A n \in DOMAIN chains : Follows(chains[n])
      /\ chains \in Seq(Seq(DOMAIN row))
  BY DEF ViewInv, ViewTyped, TailInv, LinesInv
<1>2. \A v \in visited : Views!NextPos(v) \in visited \cup {None}
  BY <1>1 DEF ViewInv, ClosedInv
<1>3. visited = DOMAIN row
  <2> DEFINE U == DOMAIN row \ visited
  <2> SUFFICES ASSUME U # {} PROVE FALSE
    BY <1>1
  <2>1. PICK u \in U : \A p \in U : Views!NextPos(p) # u
    BY <1>1, SourceExists
  <2>2. \A p \in DOMAIN row : Views!NextPos(p) # u
    <3>1. u # None
      BY <1>1, NextPosIs
    <3> QED
      BY <1>2, <2>1, <3>1
  <2>3. u \in Views!Coming
    BY <2>1, <2>2 DEF Views!Coming, Views!Leaves
  <2> QED
    BY <1>1, <2>3
<1>4. {f.vid : f \in Views!VertexFeatures} = visited
  <2> DEFINE V == Views!VertexFeatures
  <2>1. \A v \in DOMAIN row : [vid |-> v, is_frontier |-> row[v] = None] \in V
    BY DEF Views!VertexFeatures
  <2>2. \A f \in V : f.vid \in DOMAIN row
    BY DEF Views!VertexFeatures
  <2> HIDE DEF V
  <2>3. \A v \in DOMAIN row : \E f \in V : f.vid = v
    <3> TAKE v \in DOMAIN row
    <3>1. [vid |-> v, is_frontier |-> row[v] = None].vid = v
      OBVIOUS
    <3> QED
      BY <2>1, <3>1
  <2>4. {f.vid : f \in V} = visited
    BY <1>3, <2>2, <2>3
  <2> QED
    BY <2>4 DEF V
<1>5. ASSUME NEW n \in DOMAIN chains
      PROVE  \A v \in DOMAIN row : Views!NextPos(v) # None =>
                (<<v, row[v]>> \in Views!EdgesOf(chains[n]) <=> Passes(chains[n], v))
  <2> TAKE v \in DOMAIN row
  <2> HAVE Views!NextPos(v) # None
  <2>1. Views!NextPos(v) = row[v]
    BY <1>1, NextPosIs
  <2>2. Follows(chains[n])
    BY <1>1, <1>5
  <2>3. \A k \in 1..(Len(chains[n]) - 1) : chains[n][k] = v => chains[n][k + 1] = row[v]
    BY <2>1, <2>2 DEF Follows
  <2> QED
    BY <2>3 DEF Passes, Views!EdgesOf
<1>6. ASSUME NEW e \in Views!EdgeFeatures
      PROVE  Views!Cardinality({n \in DOMAIN chains : e \in Views!EdgesOf(chains[n])}) = 1
  <2>1. PICK v \in DOMAIN row : Views!NextPos(v) # None /\ e = <<v, row[v]>>
    BY DEF Views!EdgeFeatures
  <2>2. ~Drawing(v)
    BY <1>1 DEF Drawing
  <2>3. PICK n \in DOMAIN chains : \A m \in DOMAIN chains : Passes(chains[m], v) <=> m = n
    BY <1>3, <2>1, <2>2 DEF ViewInv, OnceInv
  <2>4. {m \in DOMAIN chains : e \in Views!EdgesOf(chains[m])} = {n}
    BY <1>5, <2>1, <2>3
  <2> QED
    BY <2>4, FS_Singleton, SameFinite
<1>7. ASSUME NEW n \in DOMAIN chains, NEW e \in Views!EdgesOf(chains[n])
      PROVE  e \in Views!EdgeFeatures
  <2>1. PICK k \in 1..(Len(chains[n]) - 1) : e = <<chains[n][k], chains[n][k + 1]>>
    BY DEF Views!EdgesOf
  <2>2. chains[n][k] \in visited /\ chains[n][k + 1] = Views!NextPos(chains[n][k])
    BY <1>1, <2>1 DEF Follows
  <2>3. chains[n] \in Seq(DOMAIN row)
    <3> DEFINE Line == Seq(DOMAIN row)
    <3>1. chains \in Seq(Line)
      BY <1>1
    <3> HIDE DEF Line
    <3>2. chains[n] \in Line
      BY <3>1
    <3> QED
      BY <3>2 DEF Line
  <2>4. chains[n][k] \in DOMAIN row /\ chains[n][k + 1] \in DOMAIN row
    BY <2>1, <2>3
  <2>5. Views!NextPos(chains[n][k]) # None /\ Views!NextPos(chains[n][k]) = row[chains[n][k]]
    BY <1>1, <2>2, <2>4, NextPosIs
  <2> QED
    BY <2>1, <2>2, <2>4, <2>5 DEF Views!EdgeFeatures
<1> QED
  BY <1>4, <1>6, <1>7

\* TrunkViews: whatever trunk is drawn, the chains have every edge of the blob
\* view exactly once and no other, and every vertex is passed.
THEOREM ChainsAreTheBlob ==
  Views!TrunkViewsAssumption => (Views!Spec => []Views!ChainsDrawTheTrunk)
<1> SUFFICES ASSUME Views!TrunkViewsAssumption
             PROVE  Views!Spec => []Views!ChainsDrawTheTrunk
  OBVIOUS
<1>1. Views!Init => ViewInv
  BY ViewInit
<1>2. ViewInv /\ [Views!Next]_(Views!vars) => ViewInv'
  BY NextLeafKeeps, ExtendKeeps, EndChainKeeps, FinishKeeps DEF Views!Next
<1>3. ViewInv => Views!ChainsDrawTheTrunk
  BY ViewInvSuffices
<1> QED
  BY <1>1, <1>2, <1>3, PTL DEF Views!Spec
=============================================================================
