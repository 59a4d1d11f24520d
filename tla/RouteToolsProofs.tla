-------------------------- MODULE RouteToolsProofs --------------------------
(***************************************************************************)
(* A tool that builds on a route gets that route: for any clients calling  *)
(* at the same time, any requests and any number of calls, as long as a    *)
(* request goes to one backend.  StageSplit, below: what the days a tool   *)
(* splits it into come to.  RailSpine: the journey by rail is a shortest   *)
(* chain of stations.  RoadCost, at the end: the price of a metre, which   *)
(* every route rests on, is left on every edge by a full run.              *)
(***************************************************************************)
EXTENDS RouteTools, SequenceTheorems, FiniteSetTheorems, WellFoundedInduction, TLAPS

CacheKeys == {RouteCacheKey(r) : r \in Requests}
Polylines == [request : Requests, mode : {"fast", "precise"}, backend : Backends]
CacheEntry == [key : CacheKeys, poly : Polylines]

AtWork == {"lookup", "scan", "fast", "fast_km", "precise", "use"}
Working == [pc : AtWork, tool : Tools, request : Requests, backend : Backends,
            owed : SUBSET Backends, seen : Nat, at : Nat, poly : Polylines \cup {None}]
Reply == [ok : {FALSE}] \cup [ok : {TRUE}, poly : Polylines]
         \cup [ok : {TRUE}, poly : Polylines, hint : BOOLEAN]
Replied == [pc : {"answered"}, tool : Tools, request : Requests,
            owed : SUBSET Backends, reply : Reply]

Typed ==
    /\ routes \in [Backends -> Seq(CacheEntry)]
    /\ kms \in [Backends -> SUBSET CacheKeys]
    /\ call \in [Clients -> {NoCall} \cup Working \cup Replied]
    /\ answered \subseteq [request : Requests, backend : Backends]
    /\ calls \in Nat

Cached(b, r) == EntryOf(b, RouteCacheKey(r)) # {}

(* What lies under a key is a polyline of the request the key was made of,  *)
(* computed where it lies.                                                  *)
CacheInv ==
    \A b \in Backends : \A n \in DOMAIN routes[b] :
        /\ RouteCacheKey(routes[b][n].poly.request) = routes[b][n].key
        /\ routes[b][n].poly.backend = b

(* Nothing is taken out of a cache: an answered route can be found.         *)
AnsweredInv ==
    \A a \in answered :
        /\ a.backend = BackendFor("route", a.request)
        /\ Cached(a.backend, a.request)

(* A call at work knows its backend; one that has stored its route finds    *)
(* it.                                                                      *)
Sound(c) ==
    call[c].pc \in AtWork =>
        /\ call[c].backend = BackendFor(call[c].tool, call[c].request)
        /\ call[c].pc = "use" => call[c].poly \in Polylines
        /\ call[c].pc = "scan" => call[c].at # 0
        /\ call[c].pc = "precise" => call[c].tool = "route"
        /\ call[c].pc = "fast_km" => Cached(call[c].backend, call[c].request)

(* A call that is owed a route finds it at the first look: it neither takes *)
(* another route of these cities nor asks for one of its own.               *)
Served(c) ==
    call[c].pc # "idle" /\ call[c].tool # "route" /\ call[c].owed # {} =>
        LET b == BackendFor("route", call[c].request) IN
        /\ call[c].owed = {b}
        /\ Cached(b, call[c].request)
        /\ call[c].pc \in {"lookup", "use", "answered"}
        /\ call[c].pc = "use" =>
              call[c].poly.request = call[c].request /\ call[c].poly.backend = b
        /\ call[c].pc = "answered" =>
              \/ /\ call[c].reply.ok
                 /\ call[c].reply.poly.request = call[c].request
                 /\ call[c].reply.poly.backend = b
              \/ StaysPut(call[c].request) /\ ~call[c].reply.ok

CallsInv == \A c \in Clients : Sound(c) /\ Served(c)

IInv == Typed /\ CacheInv /\ AnsweredInv /\ CallsInv

-----------------------------------------------------------------------------
(* A key tells its request.                                                 *)
LEMMA KeyTells ==
  ASSUME RouteToolsAssumption, NEW r \in Requests, NEW s \in Requests,
         RouteCacheKey(r) = RouteCacheKey(s)
  PROVE  r = s
<1>1. /\ r.from_ref = s.from_ref /\ r.to_ref = s.to_ref /\ r.via_refs = s.via_refs
  BY DEF RouteCacheKey
<1> DEFINE From == {q.from_ref : q \in Requests}
           To == {q.to_ref : q \in Requests}
           Via == {q.via_refs : q \in Requests}
<1>2. r \in [from_ref : From, to_ref : To, via_refs : Via]
      /\ s \in [from_ref : From, to_ref : To, via_refs : Via]
  BY DEF RouteToolsAssumption
<1> HIDE DEF From, To, Via
<1> QED
  BY <1>1, <1>2

(* A set of numbers has a least one.                                        *)
LEMMA LeastNat ==
  ASSUME NEW S \in SUBSET Nat, S # {}
  PROVE  \E x \in S : \A y \in S : x <= y
<1> DEFINE R == OpToRel(<, Nat)
<1>1. \E x \in S : \A y \in S : <<y, x>> \notin R
  BY WFMin, NatLessThanWellFounded
<1>2. \A x, y \in Nat : <<x, y>> \in R <=> x < y
  BY DEF OpToRel
<1> HIDE DEF R
<1>3. PICK x \in S : \A y \in S : <<y, x>> \notin R
  BY <1>1
<1>4. \A y \in S : ~ (y < x)
  BY <1>2, <1>3
<1>5. \A y \in S : x <= y
  BY <1>4
<1> QED
  BY <1>5

(* Every request goes to some backend.                                      *)
LEMMA BackendIs ==
  ASSUME RouteToolsAssumption, NEW tool, NEW r
  PROVE  BackendFor(tool, r) \in Backends
<1> DEFINE holding == {n \in DOMAIN Regions : Coord(r) \in Regions[n].bbox}
           first == CHOOSE n \in holding : \A m \in holding : n <= m
<1>1. BackendFor(tool, r) =
        IF tool \notin REGION_AWARE_TOOLS \/ Coord(r) = None \/ holding = {} THEN Default
        ELSE Regions[first].backend
  BY DEF BackendFor
<1>2. DOMAIN Regions \subseteq Nat
  BY SMTT(30) DEF RouteToolsAssumption
<1>3. CASE holding = {}
  BY <1>1, <1>3 DEF Backends
<1>4. CASE holding # {}
  <2>1. \E n \in holding : \A m \in holding : n <= m
    BY <1>2, <1>4, LeastNat
  <2>2. first \in DOMAIN Regions
    BY <2>1
  <2>3. Regions[first].backend \in Backends
    BY <2>2 DEF Backends
  <2> HIDE DEF first, holding
  <2> QED
    BY <1>1, <2>3 DEF Backends
<1> QED
  BY <1>3, <1>4

(* What a route call does to a cache: the key is there now, the other       *)
(* entries are as they were.                                                *)
LEMMA PutEffect ==
  ASSUME routes \in [Backends -> Seq(CacheEntry)], NEW b \in Backends,
         NEW key \in CacheKeys, NEW poly \in Polylines, Put(b, key, poly)
  PROVE  /\ routes' \in [Backends -> Seq(CacheEntry)]
         /\ EntryOf(b, key)' # {}
         /\ \A a \in Backends : \A k : EntryOf(a, k) # {} => EntryOf(a, k)' # {}
         /\ \A a \in Backends : \A n \in DOMAIN routes'[a] :
              \/ n \in DOMAIN routes[a] /\ routes'[a][n] = routes[a][n]
              \/ a = b /\ routes'[a][n].key = key /\ routes'[a][n].poly = poly
<1> DEFINE at == EntryOf(b, key)
           old == routes[b]
           new == routes'[b]
<1>1. old \in Seq(CacheEntry) /\ Len(old) \in Nat /\ DOMAIN old = 1..Len(old)
  OBVIOUS
<1>2. \A a \in Backends : a # b => routes'[a] = routes[a]
  BY DEF Put
<1>3. at \subseteq DOMAIN old /\ \A n \in at : old[n].key = key
  BY DEF EntryOf
<1>4. CASE at = {}
  <2>1. routes' = [routes EXCEPT ![b] = Append(old, [key |-> key, poly |-> poly])]
    BY <1>4 DEF Put
  <2>2. new = Append(old, [key |-> key, poly |-> poly])
    BY <2>1
  <2>3. [key |-> key, poly |-> poly] \in CacheEntry
    BY DEF CacheEntry
  <2>4. new \in Seq(CacheEntry) /\ Len(new) = Len(old) + 1
        /\ new[Len(old) + 1] = [key |-> key, poly |-> poly]
        /\ \A n \in DOMAIN old : new[n] = old[n] /\ n \in DOMAIN new
    BY <1>1, <2>2, <2>3
  <2>5. Len(old) + 1 \in DOMAIN new
    BY <1>1, <2>4
  <2>6. \A n \in DOMAIN new : n \in DOMAIN old \/ n = Len(old) + 1
    BY <1>1, <2>4
  <2> QED
    BY <1>1, <1>2, <2>1, <2>4, <2>5, <2>6 DEF EntryOf
<1>5. CASE at # {}
  <2> DEFINE h == CHOOSE n \in at : TRUE
  <2>1. h \in at
    BY <1>5
  <2>2. routes' = [routes EXCEPT ![b] = [old EXCEPT ![h].poly = poly]]
    BY <1>5 DEF Put
  <2> HIDE DEF h
  <2>3. new = [old EXCEPT ![h].poly = poly]
    BY <2>2
  <2>4. old[h] \in CacheEntry /\ h \in DOMAIN old /\ old[h].key = key
    BY <1>1, <1>3, <2>1
  <2>5. [old[h] EXCEPT !.poly = poly] \in CacheEntry
        /\ [old[h] EXCEPT !.poly = poly].key = key
        /\ [old[h] EXCEPT !.poly = poly].poly = poly
    BY <2>4 DEF CacheEntry
  <2>6. new \in Seq(CacheEntry) /\ DOMAIN new = DOMAIN old
        /\ new[h].key = key /\ new[h].poly = poly
        /\ \A n \in DOMAIN old : n # h => new[n] = old[n]
    BY <1>1, <2>3, <2>4, <2>5
  <2>7. \A n \in DOMAIN old : new[n].key = old[n].key
    BY <2>4, <2>6
  <2>8. routes' \in [Backends -> Seq(CacheEntry)]
    BY <1>2, <2>2, <2>6
  <2>9. \A a \in Backends : \A k : EntryOf(a, k)' = EntryOf(a, k)
    BY <1>2, <2>6, <2>7 DEF EntryOf
  <2>10. EntryOf(b, key)' # {}
    BY <1>5, <2>9
  <2> QED
    BY <1>2, <2>6, <2>4, <2>8, <2>9, <2>10
<1> QED
  BY <1>4, <1>5

-----------------------------------------------------------------------------
(* The first state has the invariant.                                       *)
LEMMA InitInv == Init => IInv
<1> SUFFICES ASSUME Init PROVE IInv
  OBVIOUS
<1>1. /\ \A b \in Backends : routes[b] = <<>>
      /\ \A c \in Clients : call[c].pc = "idle"
      /\ answered = {}
  BY DEF Init, NoCall
<1>2. Typed
  BY DEF Init, Typed
<1> QED
  BY <1>1, <1>2 DEF IInv, CacheInv, AnsweredInv, CallsInv, Sound, Served, AtWork

(* The fields of a call.                                                    *)
LEMMA CallFields ==
  ASSUME Typed, NEW c \in Clients
  PROVE  /\ call[c].pc \in {"idle", "answered"} \cup AtWork
         /\ call[c].pc \in AtWork => call[c] \in Working
         /\ call[c].pc = "answered" => call[c] \in Replied
         /\ call[c].pc = "idle" => call[c] = NoCall
BY DEF Typed, NoCall, Working, Replied, AtWork

(* Steps that store nothing and answer no route keep the caches.            *)
LEMMA CachesKept ==
  ASSUME CacheInv, AnsweredInv, routes' = routes, answered' = answered
  PROVE  CacheInv' /\ AnsweredInv' /\ \A b, r : Cached(b, r)' <=> Cached(b, r)
BY DEF CacheInv, AnsweredInv, Cached, EntryOf

(* A step of one client leaves the calls of the others as good as they were.*)
LEMMA OthersKept ==
  ASSUME Typed, CallsInv, RouteToolsAssumption,
         NEW c \in Clients, Typed', Sound(c)', Served(c)',
         \A d \in Clients : d # c => call'[d] = call[d],
         \A b \in Backends : \A r : Cached(b, r) => Cached(b, r)'
  PROVE  CallsInv'
<1> SUFFICES ASSUME NEW d \in Clients, d # c
             PROVE  Sound(d)' /\ Served(d)'
  BY DEF CallsInv
<1>1. call'[d] = call[d] /\ Sound(d) /\ Served(d)
  BY DEF CallsInv
<1>2. call[d].pc \in AtWork => call[d].backend \in Backends
  BY CallFields DEF Working
<1>3. Sound(d)'
  BY <1>1, <1>2 DEF Sound
<1>4. BackendFor("route", call[d].request) \in Backends
  BY BackendIs
<1>5. Served(d)'
  BY <1>1, <1>4 DEF Served
<1> QED
  BY <1>3, <1>5

-----------------------------------------------------------------------------
(* The step of a client, by what it does.                                   *)

(* A new call is owed what was answered before.                             *)
LEMMA CallStep ==
  ASSUME RouteToolsAssumption, OneBackend, IInv, NEW c \in Clients, NEW tool \in Tools,
         NEW r \in Requests, NEW precise \in BOOLEAN, CallTool(c, tool, r, precise)
  PROVE  IInv'
<1> DEFINE owed == {a.backend : a \in {x \in answered : x.request = r}}
           k == [pc |-> IF tool # "route" THEN "lookup"
                        ELSE IF precise THEN "precise" ELSE "fast",
                 tool |-> tool, request |-> r, backend |-> BackendFor(tool, r),
                 owed |-> owed, seen |-> 0, at |-> 0, poly |-> None]
<1>1. /\ call' = [call EXCEPT ![c] = k] /\ calls' = calls + 1
      /\ routes' = routes /\ kms' = kms /\ answered' = answered
      /\ precise => tool = "route"
  BY DEF CallTool
<1>2. owed \in SUBSET Backends
  BY DEF IInv, Typed
<1>3. k \in Working
  BY <1>2, BackendIs DEF Working, AtWork
<1>4. Typed'
  <2> HIDE DEF k
  <2> QED
    BY <1>1, <1>3 DEF IInv, Typed
<1>5. call'[c] = k /\ \A d \in Clients : d # c => call'[d] = call[d]
  BY <1>1 DEF IInv, Typed
<1>6. CacheInv' /\ AnsweredInv' /\ \A b, q : Cached(b, q)' <=> Cached(b, q)
  BY <1>1, CachesKept DEF IInv
<1>7. Sound(c)'
  BY <1>1, <1>5 DEF Sound
<1>8. Served(c)'
  <2> SUFFICES ASSUME tool # "route", owed # {}
               PROVE  /\ owed = {BackendFor("route", r)}
                      /\ Cached(BackendFor("route", r), r)
    BY <1>5, <1>6 DEF Served
  <2>1. \A a \in answered : a.request = r =>
          a.backend = BackendFor("route", r) /\ Cached(a.backend, r)
    BY DEF IInv, AnsweredInv
  <2> QED
    BY <2>1
<1> QED
  BY <1>4, <1>5, <1>6, <1>7, <1>8, OthersKept DEF IInv

(* A step that is about one call only.                                      *)
LEMMA QuietStep ==
  ASSUME RouteToolsAssumption, IInv, NEW c \in Clients,
         call'[c] \in {NoCall} \cup Working \cup Replied,
         call' = [call EXCEPT ![c] = call'[c]],
         routes' = routes, kms' = kms, answered' = answered, calls' = calls,
         Sound(c)', Served(c)'
  PROVE  IInv'
<1>1. \A d \in Clients : d # c => call'[d] = call[d]
  <2> HIDE DEF NoCall, Working, Replied
  <2> QED
    BY DEF IInv, Typed
<1>2. call' \in [Clients -> {NoCall} \cup Working \cup Replied]
  <2> HIDE DEF NoCall, Working, Replied
  <2> QED
    BY DEF IInv, Typed
<1>3. Typed'
  BY <1>2 DEF IInv, Typed
<1>4. CacheInv' /\ AnsweredInv' /\ \A b, q : Cached(b, q)' <=> Cached(b, q)
  BY CachesKept DEF IInv
<1> QED
  BY <1>1, <1>3, <1>4, OthersKept DEF IInv

(* A call that failed answers so; none fails that is owed a route, unless   *)
(* the one it finds is a point.                                             *)
LEMMA FailStep ==
  ASSUME RouteToolsAssumption, IInv, NEW c \in Clients,
         call[c].pc \in AtWork, Answer(c, Failed),
         \/ call[c].tool = "route" \/ call[c].pc \in {"fast", "scan"}
         \/ call[c].pc = "use" /\ OnePoint(call[c].poly),
         routes' = routes, kms' = kms, answered' = answered, calls' = calls
  PROVE  IInv'
<1> DEFINE k == [pc |-> "answered", tool |-> call[c].tool, request |-> call[c].request,
                 owed |-> call[c].owed, reply |-> Failed]
<1>1. call[c] \in Working /\ Sound(c) /\ Served(c)
  BY CallFields DEF IInv, CallsInv
<1>2. call' = [call EXCEPT ![c] = k]
  BY DEF Answer
<1>3. call'[c] = k
  BY <1>2 DEF IInv, Typed
<1>4. k \in Replied
  BY <1>1 DEF Replied, Working, Reply, Failed
<1>5. Sound(c)'
  BY <1>3 DEF Sound, AtWork
<1>6. Served(c)'
  <2>1. call[c].pc # "idle"
    BY DEF AtWork
  <2>2. CASE call[c].tool = "route" \/ call[c].pc \in {"fast", "scan"}
    BY <1>1, <1>3, <2>1, <2>2 DEF Served
  <2>3. CASE call[c].pc = "use" /\ OnePoint(call[c].poly)
    <3>1. /\ call'[c].pc = "answered" /\ call'[c].tool = call[c].tool
          /\ call'[c].owed = call[c].owed /\ call'[c].request = call[c].request
          /\ ~call'[c].reply.ok
      BY <1>3 DEF Failed
    <3> HIDE DEF k
    <3> SUFFICES ASSUME call[c].tool # "route", call[c].owed # {}
                 PROVE  Served(c)'
      BY <3>1 DEF Served
    <3>0. PICK b : b = BackendFor("route", call[c].request)
      OBVIOUS
    <3>2. call[c].owed = {b} /\ Cached(b, call[c].request) /\ call[c].poly.request = call[c].request
      BY <1>1, <2>3, <3>0 DEF Served
    <3>3. StaysPut(call[c].request)
      BY <2>3, <3>2 DEF OnePoint
    <3>4. BackendFor("route", call[c].request)' = b
      BY <3>0, <3>1
    <3>5. Cached(b, call[c].request)'
      BY <3>1, <3>2 DEF Cached, EntryOf
    <3>6. StaysPut(call[c].request)'
      BY <3>1, <3>3
    <3>7. /\ call'[c].owed = {b} /\ call'[c].pc \in {"lookup", "use", "answered"}
          /\ call'[c].pc # "use" /\ ~call'[c].reply.ok
      BY <3>1, <3>2
    <3> QED
      BY <3>4, <3>5, <3>6, <3>7 DEF Served
  <2> QED
    BY <2>2, <2>3
<1> QED
  <2> HIDE DEF k
  <2> QED
    BY <1>2, <1>3, <1>4, <1>5, <1>6, QuietStep

(* A client that has its answer may call again.                             *)
LEMMA ReturnStep ==
  ASSUME RouteToolsAssumption, IInv, NEW c \in Clients, Return(c)
  PROVE  IInv'
<1>1. call' = [call EXCEPT ![c] = NoCall] /\ routes' = routes /\ kms' = kms
      /\ answered' = answered /\ calls' = calls
  BY DEF Return
<1>2. call'[c] = NoCall
  BY <1>1 DEF IInv, Typed
<1>3. Sound(c)' /\ Served(c)'
  BY <1>2 DEF Sound, Served, AtWork, NoCall
<1> QED
  BY <1>1, <1>2, <1>3, QuietStep

(* A look at the key finds what is owed: a polyline of this request.        *)
LEMMA LookupStep ==
  ASSUME RouteToolsAssumption, OneBackend, IInv, NEW c \in Clients, Lookup(c)
  PROVE  IInv'
<1> DEFINE b == call[c].backend
           hit == EntryOf(b, RouteCacheKey(call[c].request))
           n == CHOOSE m \in hit : TRUE
           found == [call[c] EXCEPT !.pc = "use", !.poly = routes[b][n].poly]
           scan == [call[c] EXCEPT !.pc = "scan", !.seen = Len(routes[b]), !.at = 1]
<1>1. call' = [call EXCEPT ![c] = IF hit # {} THEN found ELSE scan]
      /\ routes' = routes /\ kms' = kms /\ answered' = answered /\ calls' = calls
      /\ call[c].pc = "lookup"
  BY DEF Lookup
<1>2. call[c] \in Working /\ Sound(c) /\ Served(c) /\ call[c].pc \in AtWork
  BY <1>1, CallFields DEF IInv, CallsInv, AtWork
<1>3. b \in Backends /\ call[c].request \in Requests /\ call[c].tool \in Tools
      /\ b = BackendFor("route", call[c].request)
  BY <1>2 DEF Working, Sound, OneBackend
<1>4. routes[b] \in Seq(CacheEntry)
  BY <1>3 DEF IInv, Typed
<1>5. call'[c] = IF hit # {} THEN found ELSE scan
  BY <1>1 DEF IInv, Typed
<1>6. CASE hit # {}
  <2>1. n \in DOMAIN routes[b] /\ routes[b][n].key = RouteCacheKey(call[c].request)
    BY <1>6 DEF EntryOf
  <2> HIDE DEF n
  <2>2. routes[b][n] \in CacheEntry
    BY <1>4, <2>1
  <2>3. routes[b][n].poly \in Polylines
    BY <2>2 DEF CacheEntry
  <2>4. routes[b][n].poly.request = call[c].request /\ routes[b][n].poly.backend = b
    <3>1. RouteCacheKey(routes[b][n].poly.request) = RouteCacheKey(call[c].request)
          /\ routes[b][n].poly.backend = b
      BY <1>3, <2>1 DEF IInv, CacheInv
    <3>2. routes[b][n].poly.request \in Requests
      BY <2>3 DEF Polylines
    <3> QED
      BY <1>3, <3>1, <3>2, KeyTells
  <2>5. found \in Working /\ found.pc = "use" /\ found.poly = routes[b][n].poly
        /\ found.tool = call[c].tool /\ found.request = call[c].request
        /\ found.owed = call[c].owed /\ found.backend = b
    BY <1>2, <2>3 DEF Working, AtWork
  <2>6. call'[c] = found
    BY <1>5, <1>6
  <2> HIDE DEF found, b
  <2>7. Sound(c)'
    BY <1>2, <2>3, <2>5, <2>6 DEF Sound, b
  <2>8. Served(c)'
    <3>1. /\ call'[c].tool = call[c].tool /\ call'[c].request = call[c].request
          /\ call'[c].owed = call[c].owed /\ call'[c].pc = "use"
          /\ call'[c].poly = routes[b][n].poly
      BY <2>5, <2>6
    <3>2. call[c].tool # "route" /\ call[c].owed # {} =>
            /\ call[c].owed = {b} /\ Cached(b, call[c].request)
      BY <1>1, <1>3 , <1>2 DEF Served
    <3>3. BackendFor("route", call'[c].request) = b
      BY <1>3, <3>1
    <3>4. \A a, r : Cached(a, r)' <=> Cached(a, r)
      BY <1>1 DEF Cached, EntryOf
    <3> SUFFICES ASSUME call'[c].tool # "route", call'[c].owed # {}
                 PROVE  /\ call'[c].owed = {b}
                        /\ Cached(b, call[c].request)
                        /\ call'[c].poly.request = call'[c].request
                        /\ call'[c].poly.backend = b
      BY <3>1, <3>3, <3>4 DEF Served
    <3> QED
      BY <2>4, <3>1, <3>2
  <2>9. call' = [call EXCEPT ![c] = call'[c]]
    BY <1>1, <1>6, <2>6
  <2> QED
    BY <1>1, <2>5, <2>6, <2>7, <2>8, <2>9, QuietStep
<1>7. CASE hit = {}
  <2>1. Len(routes[b]) \in Nat
    BY <1>4
  <2>2. scan \in Working /\ scan.pc = "scan" /\ scan.at = 1
        /\ scan.tool = call[c].tool /\ scan.request = call[c].request
        /\ scan.owed = call[c].owed /\ scan.backend = b
    BY <1>2, <2>1 DEF Working, AtWork
  <2>3. call'[c] = scan
    BY <1>5, <1>7
  <2>4. call[c].tool # "route" => call[c].owed = {}
    BY <1>1, <1>2, <1>3, <1>7 DEF Served, Cached
  <2> HIDE DEF scan, b
  <2>5. Sound(c)'
    BY <1>2, <2>2, <2>3 DEF Sound, b
  <2>6. Served(c)'
    <3>1. call'[c].tool = call[c].tool /\ call'[c].owed = call[c].owed
      BY <2>2, <2>3
    <3> SUFFICES ASSUME call'[c].tool # "route", call'[c].owed # {}
                 PROVE  FALSE
      BY DEF Served
    <3> QED
      BY <2>4, <3>1
  <2>7. call' = [call EXCEPT ![c] = call'[c]]
    BY <1>1, <1>7, <2>3
  <2> QED
    BY <1>1, <2>2, <2>3, <2>5, <2>6, <2>7, QuietStep
<1> QED
  BY <1>6, <1>7

(* Only a call that is owed nothing scans.                                  *)
LEMMA ScanStep ==
  ASSUME RouteToolsAssumption, IInv, NEW c \in Clients, Scan(c)
  PROVE  IInv'
<1> DEFINE me == call[c]
           entries == routes[me.backend]
           k == IF me.at > Len(entries) THEN [me EXCEPT !.pc = "fast"]
                ELSE IF SameEnds(entries[me.at], me.request)
                     THEN [me EXCEPT !.pc = "use", !.poly = entries[me.at].poly]
                     ELSE [me EXCEPT !.at = @ + 1]
<1>1. call' = [call EXCEPT ![c] = k] /\ routes' = routes /\ kms' = kms
      /\ answered' = answered /\ calls' = calls /\ me.pc = "scan"
  BY DEF Scan
<1>2. me \in Working /\ Sound(c) /\ Served(c)
  BY <1>1, CallFields DEF IInv, CallsInv, AtWork
<1>3. me.backend \in Backends /\ me.at \in Nat /\ me.at # 0
      /\ me.backend = BackendFor(me.tool, me.request)
  BY <1>1, <1>2 DEF Working, Sound, AtWork
<1>4. entries \in Seq(CacheEntry)
  BY <1>3 DEF IInv, Typed
<1>5. me.at <= Len(entries) => entries[me.at].poly \in Polylines
  <2> SUFFICES ASSUME me.at <= Len(entries) PROVE entries[me.at].poly \in Polylines
    OBVIOUS
  <2>1. entries[me.at] \in CacheEntry
    BY <1>3, <1>4
  <2> QED
    BY <2>1 DEF CacheEntry
<1>6. /\ k \in Working /\ k.tool = me.tool /\ k.request = me.request
      /\ k.owed = me.owed /\ k.backend = me.backend
      /\ k.pc \in {"fast", "use", "scan"}
      /\ k.pc = "use" => k.poly \in Polylines
      /\ k.pc = "scan" => k.at # 0
  <2>1. CASE me.at > Len(entries)
    BY <1>2, <2>1 DEF Working, AtWork
  <2>2. CASE ~ (me.at > Len(entries)) /\ SameEnds(entries[me.at], me.request)
    <3>1. k = [me EXCEPT !.pc = "use", !.poly = entries[me.at].poly]
      BY <2>2
    <3>2. entries[me.at].poly \in Polylines
      BY <1>3, <1>4, <1>5, <2>2
    <3> HIDE DEF k, entries
    <3> QED
      BY <1>2, <3>1, <3>2 DEF Working, AtWork
  <2>3. CASE ~ (me.at > Len(entries)) /\ ~ SameEnds(entries[me.at], me.request)
    BY <1>1, <1>2, <1>3, <2>3 DEF Working, AtWork
  <2> HIDE DEF k
  <2> QED
    BY <2>1, <2>2, <2>3 DEF SameEnds
<1>7. me.tool # "route" => me.owed = {}
  BY <1>1, <1>2 DEF Served
<1>8. call'[c] = k
  BY <1>1 DEF IInv, Typed
<1> HIDE DEF k
<1>9. Sound(c)'
  BY <1>3, <1>6, <1>8 DEF Sound, me
<1>10. Served(c)'
  BY <1>6, <1>7, <1>8 DEF Served, me
<1> QED
  BY <1>1, <1>6, <1>8, <1>9, <1>10, QuietStep

(* What is answered is the polyline that was found.                         *)
LEMMA UseStep ==
  ASSUME RouteToolsAssumption, IInv, NEW c \in Clients, UseRoute(c)
  PROVE  IInv'
<1> DEFINE hint == /\ call[c].tool = "split_into_stages"
                   /\ RouteCacheKey(call[c].request) \in kms[call[c].backend]
           reply == [ok |-> TRUE, poly |-> call[c].poly, hint |-> hint]
           k == [pc |-> "answered", tool |-> call[c].tool, request |-> call[c].request,
                 owed |-> call[c].owed, reply |-> reply]
<1>1. call' = [call EXCEPT ![c] = k] /\ routes' = routes /\ kms' = kms
      /\ answered' = answered /\ calls' = calls /\ call[c].pc = "use"
  BY DEF UseRoute, Answer
<1>2. call[c] \in Working /\ Sound(c) /\ Served(c)
  BY <1>1, CallFields DEF IInv, CallsInv, AtWork
<1>3. call[c].poly \in Polylines
  BY <1>1, <1>2 DEF Sound, AtWork
<1>4. reply \in Reply /\ reply.ok /\ reply.poly = call[c].poly
  BY <1>3 DEF Reply
<1> HIDE DEF reply
<1>5. k \in Replied
  BY <1>2, <1>4 DEF Replied, Working
<1>6. call'[c] = k
  BY <1>1 DEF IInv, Typed
<1>7. Sound(c)'
  BY <1>6 DEF Sound, AtWork
<1>8. Served(c)'
  <2> SUFFICES ASSUME call[c].tool # "route", call[c].owed # {}
               PROVE  LET b == BackendFor("route", call[c].request) IN
                      /\ call[c].owed = {b} /\ Cached(b, call[c].request)'
                      /\ reply.ok /\ reply.poly.request = call[c].request
                      /\ reply.poly.backend = b
    BY <1>6 DEF Served
  <2> QED
    BY <1>1, <1>2, <1>4 DEF Served, Cached, EntryOf
<1> HIDE DEF k
<1> QED
  BY <1>1, <1>5, <1>6, <1>7, <1>8, QuietStep

(* A route that is stored can be found, and so can every one that could.    *)
LEMMA StoreKeeps ==
  ASSUME RouteToolsAssumption, IInv, NEW c \in Clients, NEW mode \in {"fast", "precise"},
         call[c] \in Working,
         Put(call[c].backend, RouteCacheKey(call[c].request), Polyline(c, mode))
  PROVE  /\ routes' \in [Backends -> Seq(CacheEntry)]
         /\ CacheInv'
         /\ \A b \in Backends : \A r : Cached(b, r) => Cached(b, r)'
         /\ \E n \in DOMAIN routes'[call[c].backend] :
                routes'[call[c].backend][n].key = RouteCacheKey(call[c].request)
<1> DEFINE key == RouteCacheKey(call[c].request)
           poly == Polyline(c, mode)
           at == call[c].backend
<1>1. at \in Backends /\ key \in CacheKeys
  BY DEF Working, CacheKeys
<1>2. poly \in Polylines /\ RouteCacheKey(poly.request) = key /\ poly.backend = at
  BY DEF Working, Polylines, Polyline
<1>3. PICK p, b, k : p = poly /\ b = at /\ k = key
  OBVIOUS
<1>4. routes \in [Backends -> Seq(CacheEntry)]
  BY DEF IInv, Typed
<1>5. p \in Polylines /\ b \in Backends /\ k \in CacheKeys /\ Put(b, k, p)
  BY <1>1, <1>2, <1>3
<1> HIDE DEF key, poly, at
<1>6. /\ routes' \in [Backends -> Seq(CacheEntry)]
      /\ EntryOf(b, k)' # {}
      /\ \A a \in Backends : \A q : EntryOf(a, q) # {} => EntryOf(a, q)' # {}
      /\ \A a \in Backends : \A n \in DOMAIN routes'[a] :
           \/ n \in DOMAIN routes[a] /\ routes'[a][n] = routes[a][n]
           \/ a = b /\ routes'[a][n].key = k /\ routes'[a][n].poly = p
  BY <1>4, <1>5, PutEffect
<1>7. CacheInv'
  BY <1>2, <1>3, <1>6 DEF IInv, CacheInv
<1>8. \A a \in Backends : \A r : Cached(a, r) => Cached(a, r)'
  BY <1>6 DEF Cached
<1>9. \E n \in DOMAIN routes'[b] : routes'[b][n].key = k
  BY <1>6 DEF EntryOf
<1> QED
  BY <1>3, <1>6, <1>7, <1>8, <1>9 DEF at, key

(* A call that stores its route answers it, or still has its length to keep.*)
LEMMA StoreStep ==
  ASSUME RouteToolsAssumption, OneBackend, IInv, NEW c \in Clients,
         RouteFast(c) \/ RoutePrecise(c)
  PROVE  IInv'
<1> DEFINE mode == IF call[c].pc = "fast" THEN "fast" ELSE "precise"
           b == call[c].backend
           r == call[c].request
           poly == Polyline(c, mode)
           reply == [ok |-> TRUE, poly |-> poly]
           done == [pc |-> "answered", tool |-> call[c].tool, request |-> r,
                    owed |-> call[c].owed, reply |-> reply]
           k == IF call[c].pc = "fast" THEN [call[c] EXCEPT !.pc = "fast_km"] ELSE done
<1>1. /\ call[c].pc \in {"fast", "precise"} /\ Put(b, RouteCacheKey(r), poly)
      /\ call' = [call EXCEPT ![c] = k] /\ kms' = kms /\ calls' = calls
      /\ answered' = IF call[c].pc = "fast" THEN answered
                     ELSE answered \cup {[request |-> r, backend |-> b]}
  <2>1. CASE RouteFast(c)
    <3>1. call[c].pc = "fast" /\ Put(b, RouteCacheKey(r), Polyline(c, "fast"))
          /\ call' = [call EXCEPT ![c].pc = "fast_km"] /\ kms' = kms /\ calls' = calls
          /\ answered' = answered
      BY <2>1 DEF RouteFast, Step
    <3> QED
      BY <3>1
  <2>2. CASE RoutePrecise(c)
    <3>1. call[c].pc = "precise" /\ Put(b, RouteCacheKey(r), Polyline(c, "precise"))
          /\ call' = [call EXCEPT ![c] = [pc |-> "answered", tool |-> call[c].tool,
                        request |-> r, owed |-> call[c].owed,
                        reply |-> [ok |-> TRUE, poly |-> Polyline(c, "precise")]]]
          /\ kms' = kms /\ calls' = calls
          /\ answered' = answered \cup {[request |-> r, backend |-> b]}
      BY <2>2 DEF RoutePrecise, Answer, Answered
    <3> QED
      BY <3>1
  <2> QED
    BY <2>1, <2>2
<1>2. call[c] \in Working /\ Sound(c) /\ Served(c) /\ call[c].pc \in AtWork
  BY <1>1, CallFields DEF IInv, CallsInv, AtWork
<1>3. b \in Backends /\ r \in Requests /\ call[c].tool \in Tools
      /\ b = BackendFor("route", r)
      /\ (call[c].pc = "precise" => call[c].tool = "route")
  BY <1>2 DEF Working, Sound, OneBackend
<1>4. mode \in {"fast", "precise"}
  OBVIOUS
<1>5. /\ routes' \in [Backends -> Seq(CacheEntry)] /\ CacheInv'
      /\ \A a \in Backends : \A q : Cached(a, q) => Cached(a, q)'
      /\ \E n \in DOMAIN routes'[b] : routes'[b][n].key = RouteCacheKey(r)
  <2> HIDE DEF mode
  <2> QED
    BY <1>1, <1>2, <1>4, StoreKeeps
<1>6. poly \in Polylines
  BY <1>3 DEF Polyline, Polylines
<1>7. k \in Working \cup Replied /\ k.tool = call[c].tool /\ k.owed = call[c].owed
      /\ k.request = r
      /\ (call[c].pc = "fast" => k.pc = "fast_km" /\ k.backend = b)
      /\ (call[c].pc = "precise" => k.pc = "answered")
  <2>1. CASE call[c].pc = "fast"
    BY <1>2, <2>1 DEF Working, AtWork
  <2>2. CASE call[c].pc = "precise"
    <3>1. reply \in Reply
      BY <1>6 DEF Reply
    <3> HIDE DEF reply
    <3>2. done \in Replied
      BY <1>2, <1>3, <3>1 DEF Replied, Working
    <3> QED
      BY <2>2, <3>2
  <2> QED
    BY <1>1, <2>1, <2>2
<1> HIDE DEF k, poly
<1>8. call'[c] = k /\ \A d \in Clients : d # c => call'[d] = call[d]
  <2> HIDE DEF Working, Replied, NoCall
  <2> QED
    BY <1>1 DEF IInv, Typed
<1>9. Typed'
  <2>1. call' \in [Clients -> {NoCall} \cup Working \cup Replied]
    BY <1>1, <1>7 DEF IInv, Typed
  <2>2. answered' \subseteq [request : Requests, backend : Backends]
    BY <1>1, <1>3 DEF IInv, Typed
  <2> QED
    BY <1>1, <1>5, <2>1, <2>2 DEF IInv, Typed
<1>10. PICK e \in Backends, q \in Requests : e = b /\ q = r
  BY <1>3
<1>11. Cached(e, q)'
  BY <1>5, <1>10 DEF Cached, EntryOf
<1>12. AnsweredInv'
  <2> SUFFICES ASSUME NEW a \in answered'
               PROVE  a.backend = BackendFor("route", a.request) /\ Cached(a.backend, a.request)'
    BY DEF AnsweredInv
  <2>1. CASE a \in answered
    <3>1. a.backend = BackendFor("route", a.request) /\ Cached(a.backend, a.request)
          /\ a.backend \in Backends
      BY <2>1 DEF IInv, AnsweredInv, Typed
    <3> QED
      BY <1>5, <3>1
  <2>2. CASE a = [request |-> q, backend |-> e]
    BY <1>3, <1>10, <1>11, <2>2
  <2> QED
    BY <1>1, <1>10, <2>1, <2>2
<1>13. Sound(c)'
  <2>1. call'[c].pc \in AtWork =>
          call'[c].pc = "fast_km" /\ call'[c].backend = e /\ call'[c].request = q
    BY <1>1, <1>7, <1>8, <1>10 DEF AtWork
  <2> QED
    BY <1>2, <1>7, <1>8, <1>10, <1>11, <2>1 DEF Sound
<1>14. Served(c)'
  <2>1. call[c].tool # "route" => call[c].owed = {}
    BY <1>1, <1>2 DEF Served
  <2>2. call'[c].tool = call[c].tool /\ call'[c].owed = call[c].owed
    BY <1>7, <1>8
  <2> SUFFICES ASSUME call'[c].tool # "route", call'[c].owed # {}
               PROVE  FALSE
    BY DEF Served
  <2> QED
    BY <2>1, <2>2
<1>15. CallsInv'
  BY <1>5, <1>8, <1>9, <1>13, <1>14, OthersKept DEF IInv
<1> QED
  BY <1>5, <1>9, <1>12, <1>15 DEF IInv

(* The length is kept, too: the route is answered, or used by the tool that *)
(* asked for it itself.                                                     *)
LEMMA KmStep ==
  ASSUME RouteToolsAssumption, OneBackend, IInv, NEW c \in Clients, RouteFastKm(c)
  PROVE  IInv'
<1> DEFINE b == call[c].backend
           r == call[c].request
           poly == Polyline(c, "fast")
           reply == [ok |-> TRUE, poly |-> poly]
           k == IF call[c].tool = "route"
                THEN [pc |-> "answered", tool |-> call[c].tool, request |-> r,
                      owed |-> call[c].owed, reply |-> reply]
                ELSE [call[c] EXCEPT !.pc = "use", !.poly = poly]
<1>1. /\ call[c].pc = "fast_km" /\ routes' = routes /\ calls' = calls
      /\ kms' = [kms EXCEPT ![b] = @ \cup {RouteCacheKey(r)}]
      /\ call' = [call EXCEPT ![c] = k]
      /\ answered' = IF call[c].tool = "route"
                     THEN answered \cup {[request |-> r, backend |-> b]} ELSE answered
  <2>1. CASE call[c].tool = "route"
    BY <2>1 DEF RouteFastKm, Answer, Answered
  <2>2. CASE call[c].tool # "route"
    <3>1. call' = [call EXCEPT ![c].pc = "use", ![c].poly = poly]
      BY <2>2 DEF RouteFastKm
    <3> QED
      BY <2>2, <3>1 DEF RouteFastKm
  <2> QED
    BY <2>1, <2>2
<1>2. call[c] \in Working /\ Sound(c) /\ Served(c)
  BY <1>1, CallFields DEF IInv, CallsInv, AtWork
<1>3. b \in Backends /\ r \in Requests /\ call[c].tool \in Tools
      /\ b = BackendFor("route", r) /\ b = BackendFor(call[c].tool, r)
  BY <1>1, <1>2 DEF Working, Sound, OneBackend, AtWork
<1>4. Cached(b, r)
  BY <1>1, <1>2 DEF Sound, AtWork
<1>5. poly \in Polylines
  BY <1>3 DEF Polyline, Polylines
<1> HIDE DEF poly
<1>6. k \in Working \cup Replied /\ k.tool = call[c].tool /\ k.owed = call[c].owed
      /\ k.request = r
      /\ (k.pc = "use" => k.backend = b /\ k.poly = poly)
      /\ k.pc \in {"use", "answered"}
  <2>1. CASE call[c].tool # "route"
    BY <1>2, <1>5, <2>1 DEF Working, AtWork
  <2>2. CASE call[c].tool = "route"
    <3>1. reply \in Reply
      BY <1>5 DEF Reply
    <3> HIDE DEF reply
    <3> QED
      BY <1>2, <1>3, <2>2, <3>1 DEF Replied, Working
  <2> QED
    BY <2>1, <2>2
<1> HIDE DEF k
<1>7. call'[c] = k /\ \A d \in Clients : d # c => call'[d] = call[d]
  <2> HIDE DEF Working, Replied, NoCall
  <2> QED
    BY <1>1 DEF IInv, Typed
<1>8. Typed'
  <2>1. call' \in [Clients -> {NoCall} \cup Working \cup Replied]
    BY <1>1, <1>6 DEF IInv, Typed
  <2>2. answered' \subseteq [request : Requests, backend : Backends]
    BY <1>1, <1>3 DEF IInv, Typed
  <2>3. kms' \in [Backends -> SUBSET CacheKeys]
    BY <1>1, <1>3 DEF IInv, Typed, CacheKeys
  <2> QED
    BY <1>1, <2>1, <2>2, <2>3 DEF IInv, Typed
<1>9. CacheInv' /\ \A a, q : Cached(a, q)' <=> Cached(a, q)
  BY <1>1 DEF IInv, CacheInv, Cached, EntryOf
<1>10. AnsweredInv'
  <2> SUFFICES ASSUME NEW a \in answered'
               PROVE  a.backend = BackendFor("route", a.request) /\ Cached(a.backend, a.request)
    BY <1>9 DEF AnsweredInv
  <2>1. CASE a \in answered
    BY <2>1 DEF IInv, AnsweredInv
  <2>2. CASE a = [request |-> r, backend |-> b]
    BY <1>3, <1>4, <2>2
  <2> QED
    BY <1>1, <2>1, <2>2
<1>11. Sound(c)'
  BY <1>3, <1>5, <1>6, <1>7 DEF Sound, AtWork
<1>12. Served(c)'
  <2>1. call[c].tool # "route" => call[c].owed = {}
    BY <1>1, <1>2 DEF Served
  <2>2. call'[c].tool = call[c].tool /\ call'[c].owed = call[c].owed
    BY <1>6, <1>7
  <2> SUFFICES ASSUME call'[c].tool # "route", call'[c].owed # {}
               PROVE  FALSE
    BY DEF Served
  <2> QED
    BY <2>1, <2>2
<1>13. CallsInv'
  BY <1>7, <1>8, <1>9, <1>11, <1>12, OthersKept DEF IInv
<1> QED
  BY <1>8, <1>9, <1>10, <1>13 DEF IInv

-----------------------------------------------------------------------------
(* Caches, answers and calls stay in step.                                  *)
THEOREM CallsInductive == RouteToolsAssumption /\ OneBackend => (Spec => []IInv)
<1> SUFFICES ASSUME RouteToolsAssumption, OneBackend
             PROVE  Spec => []IInv
  OBVIOUS
<1>1. IInv /\ UNCHANGED vars => IInv'
  BY DEF IInv, Typed, CacheInv, AnsweredInv, CallsInv, Sound, Served, Cached, EntryOf, vars
<1>2. IInv /\ Next => IInv'
  <2> SUFFICES ASSUME IInv, Next
               PROVE  IInv'
    OBVIOUS
  <2>1. ASSUME NEW c \in Clients, NEW tool \in Tools, NEW r \in Requests,
               NEW precise \in BOOLEAN, CallTool(c, tool, r, precise)
        PROVE  IInv'
    BY <2>1, CallStep
  <2>2. ASSUME NEW c \in Clients, RouteFails(c) \/ ScanRaises(c)
        PROVE  IInv'
    <3>1. call[c].pc \in AtWork /\ Answer(c, Failed) /\ routes' = routes /\ kms' = kms
          /\ answered' = answered /\ calls' = calls
          /\ (call[c].tool = "route" \/ call[c].pc \in {"fast", "scan", "precise"})
      BY <2>2 DEF RouteFails, ScanRaises, AtWork
    <3>2. call[c].pc = "precise" => call[c].tool = "route"
      BY <3>1 DEF IInv, CallsInv, Sound
    <3> QED
      BY <3>1, <3>2, FailStep
  <2>3. ASSUME NEW c \in Clients, RouteFast(c) \/ RoutePrecise(c)
        PROVE  IInv'
    BY <2>3, StoreStep
  <2>4. ASSUME NEW c \in Clients, RouteFastKm(c)
        PROVE  IInv'
    BY <2>4, KmStep
  <2>5. ASSUME NEW c \in Clients, Lookup(c)
        PROVE  IInv'
    BY <2>5, LookupStep
  <2>6. ASSUME NEW c \in Clients, Scan(c)
        PROVE  IInv'
    BY <2>6, ScanStep
  <2>7. ASSUME NEW c \in Clients, UseRoute(c)
        PROVE  IInv'
    BY <2>7, UseStep
  <2>8. ASSUME NEW c \in Clients, Return(c)
        PROVE  IInv'
    BY <2>8, ReturnStep
  <2>9. ASSUME NEW c \in Clients, RouteTooShort(c)
        PROVE  IInv'
    BY <2>9, FailStep DEF RouteTooShort, AtWork
  <2> QED
    BY <2>1, <2>2, <2>3, <2>4, <2>5, <2>6, <2>7, <2>8, <2>9 DEF Next
<1> QED
  BY <1>1, <1>2, InitInv, PTL DEF Spec

(* Once a route for a request was answered, every later tool call that      *)
(* builds on it answers, with a polyline of that request, computed where    *)
(* the route was, whatever other clients call meanwhile: as long as every   *)
(* tool's calls for a request go to one backend, and unless the route is    *)
(* from a city to itself.                                                   *)
THEOREM ToolsReadTheRoute ==
  RouteToolsAssumption /\ OneBackend => (Spec => []ReadYourRoutes)
<1> SUFFICES ASSUME RouteToolsAssumption, OneBackend
             PROVE  Spec => []ReadYourRoutes
  OBVIOUS
<1>1. IInv => ReadYourRoutes
  BY DEF IInv, CallsInv, Served, ReadYourRoutes
<1> QED
  BY <1>1, CallsInductive, PTL

---------------------------------------------------------------------------
(***************************************************************************)
(* StageSplit: the days of any route, with any stops and any distance per  *)
(* day, keep the stops, and add up when the route passes the stops in      *)
(* their order.                                                            *)
(***************************************************************************)
CONSTANTS Places, Anchors, MaxLen, MaxStops, Targets
VARIABLES pc, poly, stops, target, seg, cut, overnights
Split == INSTANCE StageSplit

PolyTyped == poly \in Seq(Nat) /\ Len(poly) >= 2

SplitTyped ==
    /\ PolyTyped
    /\ pc \in {"split", "done"}
    /\ stops \in Seq(Nat) /\ Len(stops) >= 2
    /\ target \in Nat \ {0} /\ seg \in Nat \ {0} /\ cut \in Nat \ {0}
    /\ pc = "split" => seg < Len(stops)
    /\ pc = "done" => seg = Len(stops) /\ cut = 1
    /\ overnights \in Seq([ref : Nat, idx : DOMAIN poly]) /\ overnights # <<>>

(* The stops behind are nights, in the order of the request.                *)
StopsInv ==
    \E f \in [1..seg -> DOMAIN overnights] :
        /\ \A k \in 1..seg : overnights[f[k]].ref = stops[k]
        /\ \A j, k \in 1..seg : j < k => f[j] < f[k]

(* A night lies no earlier than the one before it, unless its stop does;    *)
(* the last is at the stop where the segment starts or short of the one     *)
(* where it ends.                                                           *)
DaysInv ==
    /\ overnights[1].idx = Split!StopIdx(1)
    /\ \A n \in 1..(Len(overnights) - 1) :
          overnights[n].idx <= overnights[n + 1].idx \/ Split!TurnsBack(n)
    /\ cut = 1 => Split!LastNight.idx = Split!StopIdx(seg)
    /\ pc = "split" /\ ~Split!Degenerate => Split!LastNight.idx <= Split!StopIdx(seg + 1)
    /\ pc = "split" /\ Split!Degenerate => cut = 1

SplitInv == SplitTyped /\ StopsInv /\ DaysInv

(* A place has a nearest vertex on the polyline, and none before it.        *)
LEMMA VertexIs ==
  ASSUME PolyTyped, NEW place \in Nat
  PROVE  /\ Split!VertexNear(place) \in DOMAIN poly
         /\ Split!VertexNear(place) \in Split!Near(place)
         /\ \A n \in Split!Near(place) : Split!VertexNear(place) <= n
<1> DEFINE D(n) == Split!Distance(poly[n], place)
           Ds == {D(n) : n \in DOMAIN poly}
<1>1. DOMAIN poly = 1..Len(poly) /\ Len(poly) \in Nat /\ 1 \in DOMAIN poly
      /\ \A n \in DOMAIN poly : poly[n] \in Nat
  BY DEF PolyTyped
<1>2. \A n \in DOMAIN poly : D(n) \in Nat
  BY <1>1 DEF Split!Distance
<1>3. Split!Near(place) = {n \in DOMAIN poly : \A m \in DOMAIN poly : D(n) <= D(m)}
  BY DEF Split!Near
<1> HIDE DEF D
<1>4. PICK d \in Ds : \A e \in Ds : d <= e
  BY <1>1, <1>2, LeastNat
<1>5. PICK n \in DOMAIN poly : d = D(n)
  BY <1>4
<1>6. n \in Split!Near(place)
  BY <1>3, <1>4, <1>5
<1>7. Split!Near(place) \in SUBSET Nat /\ Split!Near(place) # {}
      /\ Split!Near(place) \subseteq DOMAIN poly
  BY <1>1, <1>3, <1>6
<1> QED
  BY <1>7, LeastNat DEF Split!Least, Split!VertexNear

(* Distances along the polyline add up from nothing.                        *)
LEMMA CumIs ==
  ASSUME PolyTyped
  PROVE  /\ \A n \in DOMAIN poly : Split!Cum[n] \in Nat
         /\ \A n \in DOMAIN poly : n + 1 \in DOMAIN poly => Split!Cum[n] <= Split!Cum[n + 1]
<1> DEFINE D(n) == Split!Distance(poly[n - 1], poly[n])
           Adds(g, m) == g \in [1..m -> Nat]
                         /\ \A k \in 1..m : g[k] = IF k = 1 THEN 0 ELSE g[k - 1] + D(k)
           Bad == {m \in DOMAIN poly : \A g \in [1..m -> Nat] : ~Adds(g, m)}
<1>1. DOMAIN poly = 1..Len(poly) /\ Len(poly) \in Nat /\ Len(poly) \in DOMAIN poly
  BY DEF PolyTyped
<1>2. \A n \in DOMAIN poly : n # 1 => D(n) \in Nat
  <2> TAKE n \in DOMAIN poly
  <2>1. n # 1 => n - 1 \in DOMAIN poly
    BY <1>1
  <2>2. poly[n] \in Nat /\ (n # 1 => poly[n - 1] \in Nat)
    BY <1>1, <2>1 DEF PolyTyped
  <2> QED
    BY <2>2 DEF Split!Distance
<1> HIDE DEF D
<1>3. Bad = {}
  <2> SUFFICES ASSUME Bad # {} PROVE FALSE
    OBVIOUS
  <2>0. Bad \in SUBSET Nat
    BY <1>1
  <2>1. PICK m \in Bad : \A y \in Bad : m <= y
    <3> HIDE DEF Bad
    <3> QED
      BY <2>0, LeastNat
  <2>2. m \in Nat /\ m >= 1 /\ m \in DOMAIN poly
    BY <2>1, <1>1
  <2>3. CASE m = 1
    <3>1. Adds([k \in 1..1 |-> 0], 1)
      OBVIOUS
    <3> QED
      BY <3>1, <2>1, <2>3
  <2>4. CASE m # 1
    <3>1. m - 1 \in DOMAIN poly /\ m - 1 \notin Bad
      BY <2>1, <2>2, <2>4, <1>1
    <3>2. PICK g \in [1..(m - 1) -> Nat] : Adds(g, m - 1)
      BY <3>1
    <3> DEFINE h == [k \in 1..m |-> IF k = m THEN g[m - 1] + D(m) ELSE g[k]]
    <3>3. h \in [1..m -> Nat]
      BY <2>2, <2>4, <1>2
    <3>4. \A k \in 1..m : h[k] = IF k = 1 THEN 0 ELSE h[k - 1] + D(k)
      BY <3>2, <2>2, <2>4
    <3> QED
      BY <3>3, <3>4, <2>1
  <2> QED
    BY <2>3, <2>4
<1>4. PICK g \in [DOMAIN poly -> Nat] :
          \A k \in DOMAIN poly : g[k] = IF k = 1 THEN 0 ELSE g[k - 1] + D(k)
  BY <1>1, <1>3
<1>5. g = [k \in DOMAIN poly |-> IF k = 1 THEN 0 ELSE g[k - 1] + D(k)]
  BY <1>4
<1>6. Split!Cum = [k \in DOMAIN poly |-> IF k = 1 THEN 0 ELSE Split!Cum[k - 1] + D(k)]
  <2> HIDE DEF Bad, Adds
  <2> QED BY <1>5 DEF Split!Cum, D
<1> DEFINE Odd == {n \in DOMAIN poly : Split!Cum[n] \notin Nat}
<1>7. Odd = {}
  <2> SUFFICES ASSUME Odd # {} PROVE FALSE
    OBVIOUS
  <2>0. Odd \in SUBSET Nat
    BY <1>1
  <2>1. PICK n \in Odd : \A y \in Odd : n <= y
    <3> HIDE DEF Odd
    <3> QED
      BY <2>0, LeastNat
  <2>2. CASE n = 1
    BY <2>1, <2>2, <1>6
  <2>3. CASE n # 1
    <3>1. n - 1 \in DOMAIN poly /\ n - 1 \notin Odd
      BY <2>1, <2>3, <1>1
    <3>2. Split!Cum[n] = Split!Cum[n - 1] + D(n)
      BY <1>6, <2>1, <2>3
    <3> QED
      BY <3>1, <3>2, <1>2, <2>1, <2>3
  <2> QED
    BY <2>2, <2>3
<1>8. \A n \in DOMAIN poly : Split!Cum[n] \in Nat
  BY <1>7
<1>9. ASSUME NEW n \in DOMAIN poly, n + 1 \in DOMAIN poly
      PROVE  Split!Cum[n] <= Split!Cum[n + 1]
  <2>1. n + 1 # 1 /\ (n + 1) - 1 = n
    BY <1>1
  <2>2. Split!Cum[n + 1] = Split!Cum[n] + D(n + 1)
    BY <1>6, <1>9, <2>1
  <2> QED
    BY <2>1, <2>2, <1>2, <1>8, <1>9
<1> QED
  BY <1>8, <1>9

(* Further along is never less far.                                         *)
LEMMA CumGrows ==
  ASSUME PolyTyped, NEW m \in DOMAIN poly, NEW n \in DOMAIN poly, m <= n
  PROVE  Split!Cum[m] <= Split!Cum[n]
<1> DEFINE Bad == {k \in DOMAIN poly : m <= k /\ ~(Split!Cum[m] <= Split!Cum[k])}
<1>1. DOMAIN poly = 1..Len(poly) /\ Len(poly) \in Nat
  BY DEF PolyTyped
<1>2. Bad = {}
  <2> SUFFICES ASSUME Bad # {} PROVE FALSE
    OBVIOUS
  <2>0. Bad \in SUBSET Nat
    BY <1>1
  <2>1. PICK k \in Bad : \A y \in Bad : k <= y
    <3> HIDE DEF Bad
    <3> QED
      BY <2>0, LeastNat
  <2>2. k # m
    BY <2>1, CumIs
  <2>3. k - 1 \in DOMAIN poly /\ k - 1 \notin Bad /\ (k - 1) + 1 = k /\ m <= k - 1
    BY <2>1, <2>2, <1>1
  <2>4. Split!Cum[k - 1] <= Split!Cum[k]
    BY <2>3, CumIs
  <2>5. Split!Cum[m] <= Split!Cum[k - 1]
    BY <2>3
  <2> QED
    BY <2>1, <2>3, <2>4, <2>5, CumIs
<1> QED
  BY <1>2

(* The days of a segment: one at least.                                     *)
LEMMA DaysIs ==
  ASSUME SplitTyped, pc = "split"
  PROVE  /\ Split!StopIdx(seg) \in DOMAIN poly
         /\ Split!StopIdx(seg + 1) \in DOMAIN poly
         /\ Split!Days \in Nat \ {0}
<1>0. PolyTyped
  BY DEF SplitTyped
<1>1. stops[seg] \in Nat /\ stops[seg + 1] \in Nat
  <2>1. seg \in 1..Len(stops) /\ seg + 1 \in 1..Len(stops)
    BY DEF SplitTyped
  <2> QED
    BY <2>1 DEF SplitTyped
<1>2. Split!StopIdx(seg) \in DOMAIN poly /\ Split!StopIdx(seg + 1) \in DOMAIN poly
  BY <1>0, <1>1, VertexIs DEF Split!StopIdx
<1>3. Split!SegKm \in Int
  BY <1>0, <1>2, CumIs DEF Split!SegKm
<1>4. Split!RoundRatio(Split!SegKm, target) \in Int
  <2>1. Split!SegKm \div target \in Int
    BY <1>3 DEF SplitTyped
  <2> QED
    BY <2>1 DEF Split!RoundRatio
<1>5. Split!Days \in Nat \ {0}
  BY <1>4 DEF Split!Days
<1> QED
  BY <1>2, <1>5

(* A cut falls on the polyline, no later than the end of its segment.       *)
LEMMA CutIs ==
  ASSUME SplitTyped, pc = "split", ~Split!Degenerate,
         NEW d \in Nat \ {0}, NEW c \in Nat, c < d
  PROVE  Split!IdxAtCut(c, d) \in DOMAIN poly /\ Split!IdxAtCut(c, d) <= Split!StopIdx(seg + 1)
<1> DEFINE s == Split!StopIdx(seg)
           t == Split!StopIdx(seg + 1)
           at == d * Split!Cum[s] + c * Split!SegKm
           reached == {n \in 2..Len(poly) : d * Split!Cum[n] >= at}
<1>1. PolyTyped /\ DOMAIN poly = 1..Len(poly) /\ Len(poly) \in Nat
  BY DEF SplitTyped, PolyTyped
<1>2. s \in DOMAIN poly /\ t \in DOMAIN poly /\ s < t /\ t \in 2..Len(poly)
  BY <1>1, DaysIs DEF Split!Degenerate
<1>3. Split!Cum[s] \in Nat /\ Split!Cum[t] \in Nat /\ Split!Cum[s] <= Split!Cum[t]
  BY <1>2, <1>1, CumIs, CumGrows
<1>4. Split!SegKm = Split!Cum[t] - Split!Cum[s]
  BY DEF Split!SegKm
<1>5. d * Split!Cum[t] >= at
  <2> DEFINE x == Split!Cum[s]
             y == Split!Cum[t]
  <2>1. \A u, v \in Nat : u <= v => d * v >= d * u + c * (v - u)
    <3> SUFFICES ASSUME NEW u \in Nat, NEW v \in Nat, u <= v
                 PROVE  d * v >= d * u + c * (v - u)
      OBVIOUS
    <3>1. (d - c) * (v - u) >= 0
      OBVIOUS
    <3>2. d * v - (d * u + c * (v - u)) = (d - c) * (v - u)
      OBVIOUS
    <3>3. d * v \in Int /\ d * u + c * (v - u) \in Int
      OBVIOUS
    <3> QED
      BY <3>1, <3>2, <3>3
  <2> QED
    BY <2>1, <1>3, <1>4
<1>6. t \in reached
  BY <1>2, <1>5
<1>7. reached \in SUBSET Nat /\ reached # {}
  BY <1>6
<1> HIDE DEF reached
<1>8. Split!Least(reached) \in reached /\ Split!Least(reached) <= t
  BY <1>6, <1>7, LeastNat DEF Split!Least
<1>9. Split!Least(reached) \in 2..Len(poly)
  BY <1>8 DEF reached
<1>10. Split!IdxAtCut(c, d) \in {Split!Least(reached), Split!Least(reached) - 1}
  BY <1>7 DEF Split!IdxAtCut, reached
<1> QED
  BY <1>1, <1>2, <1>8, <1>9, <1>10

(* What is computed from the route and its stops stays.                     *)
LEMMA SameRoute ==
  ASSUME UNCHANGED <<poly, stops>>
  PROVE  /\ \A k : Split!StopIdx(k)' = Split!StopIdx(k)
         /\ Split!Cum' = Split!Cum
  BY DEF Split!StopIdx, Split!VertexNear, Split!Near, Split!Cum

(* A night is at a vertex of the polyline.                                  *)
LEMMA NightAt ==
  ASSUME SplitTyped
  PROVE  /\ Len(overnights) \in 1..Len(overnights)
         /\ \A n \in 1..Len(overnights) :
              overnights[n].idx \in DOMAIN poly /\ overnights[n].idx \in Nat
<1> DEFINE Night == [ref : Nat, idx : DOMAIN poly]
<1>1. overnights \in Seq(Night) /\ overnights # <<>>
  BY DEF SplitTyped
<1>2. \A w \in Night : w.idx \in DOMAIN poly
  OBVIOUS
<1>3. DOMAIN poly \subseteq Nat
  BY SMTT(30) DEF SplitTyped, PolyTyped
<1> HIDE DEF Night
<1>4. Len(overnights) \in 1..Len(overnights) /\ \A n \in 1..Len(overnights) : overnights[n] \in Night
  BY <1>1
<1> QED
  BY <1>2, <1>3, <1>4

(* A night that is added leaves the earlier ones where they are.            *)
LEMMA NightAdded ==
  ASSUME SplitTyped, NEW w \in [ref : Nat, idx : DOMAIN poly],
         overnights' = Append(overnights, w)
  PROVE  /\ overnights' \in Seq([ref : Nat, idx : DOMAIN poly]) /\ overnights' # <<>>
         /\ Len(overnights') = Len(overnights) + 1 /\ Len(overnights) \in Nat \ {0}
         /\ \A n \in 1..Len(overnights) : overnights'[n] = overnights[n]
         /\ overnights'[Len(overnights) + 1] = w
         /\ Split!LastNight' = w
<1> DEFINE Night == [ref : Nat, idx : DOMAIN poly]
<1>1. overnights \in Seq(Night) /\ overnights # <<>> /\ w \in Night
  BY DEF SplitTyped
<1> HIDE DEF Night
<1>2. /\ Append(overnights, w) \in Seq(Night) /\ Append(overnights, w) # <<>>
      /\ Len(Append(overnights, w)) = Len(overnights) + 1 /\ Len(overnights) \in Nat \ {0}
      /\ \A n \in 1..Len(overnights) : Append(overnights, w)[n] = overnights[n]
      /\ Append(overnights, w)[Len(overnights) + 1] = w
  BY <1>1
<1> QED
  BY <1>2 DEF Split!LastNight, Night

(* It is no earlier than the last, or leads back to a stop.                 *)
LEMMA NightsInOrder ==
  ASSUME SplitTyped, NEW w \in [ref : Nat, idx : DOMAIN poly],
         overnights' = Append(overnights, w), UNCHANGED <<poly, stops>>,
         \A n \in 1..(Len(overnights) - 1) :
            overnights[n].idx <= overnights[n + 1].idx \/ Split!TurnsBack(n),
         \/ Split!LastNight.idx <= w.idx
         \/ \E k \in 1..(Len(stops) - 1) : w.ref = stops[k + 1]
                                         /\ Split!StopIdx(k + 1) < Split!StopIdx(k)
  PROVE  /\ overnights'[1] = overnights[1]
         /\ \A n \in 1..(Len(overnights') - 1) :
              overnights'[n].idx <= overnights'[n + 1].idx \/ Split!TurnsBack(n)'
<1>1. overnights'[1] = overnights[1]
  BY NightAdded
<1>2. ASSUME NEW n \in 1..(Len(overnights') - 1)
      PROVE  overnights'[n].idx <= overnights'[n + 1].idx \/ Split!TurnsBack(n)'
  <2>0. Split!TurnsBack(n)' <=> \E k \in 1..(Len(stops) - 1) :
            overnights'[n + 1].ref = stops[k + 1] /\ Split!StopIdx(k + 1) < Split!StopIdx(k)
    BY SameRoute DEF Split!TurnsBack
  <2>1. CASE n = Len(overnights)
    <3>1. overnights'[n] = Split!LastNight /\ overnights'[n + 1] = w
      BY <2>1, NightAdded DEF Split!LastNight
    <3> QED
      BY <2>0, <3>1
  <2>2. CASE n # Len(overnights)
    <3>1. n \in 1..(Len(overnights) - 1) /\ n + 1 \in 1..Len(overnights) /\ n \in 1..Len(overnights)
      BY <2>2, NightAdded
    <3>2. overnights'[n] = overnights[n] /\ overnights'[n + 1] = overnights[n + 1]
      BY <3>1, NightAdded
    <3>3. overnights[n].idx <= overnights[n + 1].idx \/ Split!TurnsBack(n)
      BY <3>1
    <3> QED
      BY <2>0, <3>2, <3>3 DEF Split!TurnsBack
  <2> QED
    BY <2>1, <2>2
<1> QED
  BY <1>1, <1>2

(* A route to split has its first night where it starts.                    *)
LEMMA SplitInit == Split!StageSplitAssumption /\ Split!Init => SplitInv
<1> SUFFICES ASSUME Split!StageSplitAssumption, Split!Init PROVE SplitInv
  OBVIOUS
<1>1. PICK m \in 2..MaxLen : poly \in [1..m -> Places]
  BY DEF Split!Init
<1>2. poly \in Seq(Nat) /\ Len(poly) >= 2 /\ DOMAIN poly = 1..Len(poly) /\ Len(poly) \in Nat
  <2>1. m \in Nat /\ Places \subseteq Nat
    BY DEF Split!StageSplitAssumption
  <2>2. poly \in [1..m -> Nat]
    BY <1>1, <2>1
  <2> QED
    BY <2>1, <2>2, <1>1
<1>3. PICK n \in 2..MaxStops : stops \in [1..n -> Anchors]
  BY DEF Split!Init
<1>4. stops \in Seq(Nat) /\ Len(stops) >= 2 /\ stops[1] \in Nat
  <2>1. n \in Nat /\ Anchors \subseteq Nat
    BY DEF Split!StageSplitAssumption
  <2>2. stops \in [1..n -> Nat]
    BY <1>3, <2>1
  <2> QED
    BY <2>1, <2>2, <1>3
<1> DEFINE first == [ref |-> stops[1], idx |-> Split!StopIdx(1)]
<1>5. pc = "split" /\ seg = 1 /\ cut = 1 /\ target \in Nat \ {0} /\ overnights = <<first>>
  BY DEF Split!Init, Split!StageSplitAssumption
<1>6. SplitTyped
  <2>1. PolyTyped
    BY <1>2 DEF PolyTyped
  <2>2. first \in [ref : Nat, idx : DOMAIN poly]
    BY <1>4, <2>1, VertexIs DEF Split!StopIdx
  <2> HIDE DEF first
  <2>3. <<first>> \in Seq([ref : Nat, idx : DOMAIN poly]) /\ <<first>> # <<>>
    BY <2>2
  <2> QED
    BY <1>4, <1>5, <2>1, <2>3 DEF SplitTyped
<1>7. StopsInv
  <2> DEFINE f == [k \in 1..1 |-> 1]
  <2>1. f \in [1..seg -> DOMAIN overnights] /\ overnights[1].ref = stops[1]
    BY <1>4, <1>5
  <2>2. \A k \in 1..seg : overnights[f[k]].ref = stops[k]
    BY <1>5, <2>1
  <2>3. \A j, k \in 1..seg : j < k => f[j] < f[k]
    BY <1>5
  <2> HIDE DEF f
  <2> QED
    BY <2>1, <2>2, <2>3 DEF StopsInv
<1>8. DaysInv
  <2>1. Split!LastNight.idx = Split!StopIdx(1) /\ overnights[1].idx = Split!StopIdx(1)
        /\ Len(overnights) = 1
    BY <1>5 DEF Split!LastNight
  <2>2. ~Split!Degenerate => Split!StopIdx(1) <= Split!StopIdx(2)
    <3>1. DOMAIN poly \subseteq Nat
      BY <1>2
    <3> QED
      BY <1>5, <1>6, <3>1, DaysIs DEF Split!Degenerate
  <2> QED
    BY <1>5, <2>1, <2>2 DEF DaysInv
<1> QED
  BY <1>6, <1>7, <1>8 DEF SplitInv

(* Another cut is looked at.                                                *)
LEMMA CutKeepsStops ==
  ASSUME SplitInv, UNCHANGED <<pc, poly, stops, seg>>,
         Len(overnights') >= Len(overnights), overnights' \in Seq([ref : Nat, idx : DOMAIN poly]),
         \A n \in 1..Len(overnights) : overnights'[n] = overnights[n]
  PROVE  StopsInv'
<1>1. PICK f \in [1..seg -> DOMAIN overnights] :
        /\ \A k \in 1..seg : overnights[f[k]].ref = stops[k]
        /\ \A j, k \in 1..seg : j < k => f[j] < f[k]
  BY DEF SplitInv, StopsInv
<1>2. DOMAIN overnights = 1..Len(overnights) /\ DOMAIN overnights' = 1..Len(overnights')
      /\ Len(overnights) \in Nat /\ Len(overnights') \in Nat
  BY DEF SplitInv, SplitTyped
<1>3. f \in [1..seg -> DOMAIN overnights']
  BY <1>2
<1>4. \A k \in 1..seg : overnights'[f[k]].ref = stops[k]
  BY <1>1, <1>2
<1> QED
  BY <1>1, <1>3, <1>4 DEF StopsInv

(* A cut is turned into a night, or is none.                                *)
LEMMA CutKeeps ==
  ASSUME Split!StageSplitAssumption, SplitInv, Split!AddCut \/ Split!DropCut
  PROVE  SplitInv'
<1>1. /\ pc = "split" /\ UNCHANGED <<pc, poly, stops, target, seg>>
      /\ ~Split!Degenerate /\ cut < Split!Days /\ cut' = cut + 1
  BY DEF Split!AddCut, Split!DropCut
<1>2. SplitTyped /\ cut \in Nat \ {0} /\ cut' # 1 /\ cut' \in Nat \ {0}
  BY <1>1 DEF SplitInv, SplitTyped
<1> DEFINE at == Split!IdxAtCut(cut, Split!Days)
<1>3. at \in DOMAIN poly /\ at <= Split!StopIdx(seg + 1)
  BY <1>1, <1>2, DaysIs, CutIs
<1>4. CASE Split!DropCut
  <2>1. overnights' = overnights
    BY <1>4 DEF Split!DropCut
  <2>2. SplitTyped'
    BY <1>1, <1>2, <2>1 DEF SplitTyped, PolyTyped
  <2>3. StopsInv'
    BY <1>1, <2>1 DEF SplitInv, StopsInv
  <2>4. DaysInv'
    BY <1>1, <1>2, <2>1, SameRoute
       DEF SplitInv, DaysInv, Split!LastNight, Split!TurnsBack, Split!Degenerate
  <2> QED
    BY <2>2, <2>3, <2>4 DEF SplitInv
<1>5. CASE Split!AddCut
  <2>1. PICK a \in Split!NearestAnchors(poly[at]) :
            overnights' = Append(overnights, [ref |-> a, idx |-> at])
    BY <1>5 DEF Split!AddCut
  <2> DEFINE w == [ref |-> a, idx |-> at]
  <2>2. w \in [ref : Nat, idx : DOMAIN poly]
    BY <1>3 DEF Split!NearestAnchors, Split!StageSplitAssumption
  <2>3. Split!LastNight.idx <= w.idx
    <3>1. at > Split!LastNight.idx
      BY <1>5 DEF Split!AddCut, Split!CutAdvances
    <3>2. Split!LastNight.idx \in Nat /\ at \in Nat
      <4>0. poly \in Seq(Nat)
        BY <1>2 DEF SplitTyped, PolyTyped
      <4>1. DOMAIN poly \subseteq Nat
        <5> HIDE DEF at
        <5> QED
          BY <4>0
      <4> QED
        BY <1>2, <1>3, <4>1, NightAt DEF Split!LastNight
    <3> QED
      BY <3>1, <3>2
  <2>4. w.idx = at
    OBVIOUS
  <2>5. overnights' = Append(overnights, w)
    BY <2>1
  <2> HIDE DEF w, at
  <2>6. SplitTyped'
    BY <1>1, <1>2, <2>2, <2>5, NightAdded DEF SplitTyped, PolyTyped
  <2>7. StopsInv'
    BY <1>1, <1>2, <2>2, <2>5, NightAdded, CutKeepsStops
  <2>8. DaysInv'
    <3>1. \A n \in 1..(Len(overnights) - 1) :
            overnights[n].idx <= overnights[n + 1].idx \/ Split!TurnsBack(n)
      BY DEF SplitInv, DaysInv
    <3>2. Split!LastNight' = w
      BY <1>2, <2>2, <2>5, NightAdded
    <3>3. /\ overnights'[1] = overnights[1]
          /\ \A n \in 1..(Len(overnights') - 1) :
                overnights'[n].idx <= overnights'[n + 1].idx \/ Split!TurnsBack(n)'
      BY <1>1, <1>2, <2>2, <2>3, <2>5, <3>1, NightsInOrder
    <3>4. Split!LastNight'.idx <= Split!StopIdx(seg + 1)
      BY <1>3, <2>4, <3>2 DEF at
    <3>5. ~Split!Degenerate'
      BY <1>1, SameRoute DEF Split!Degenerate
    <3> QED
      BY <1>1, <1>2, <3>3, <3>4, <3>5, SameRoute DEF SplitInv, DaysInv
  <2> QED
    BY <2>6, <2>7, <2>8 DEF SplitInv
<1> QED
  BY <1>4, <1>5

(* A segment ends with a night at its stop.                                 *)
LEMMA CloseKeeps ==
  ASSUME Split!StageSplitAssumption, SplitInv, Split!CloseSegment
  PROVE  SplitInv'
<1> DEFINE w == Split!NextStop
<1>1. /\ pc = "split" /\ UNCHANGED <<poly, stops, target>>
      /\ overnights' = Append(overnights, w) /\ seg' = seg + 1 /\ cut' = 1
      /\ pc' = IF seg + 1 = Len(stops) THEN "done" ELSE pc
  BY DEF Split!CloseSegment
<1>2. SplitTyped /\ seg \in Nat \ {0} /\ seg < Len(stops) /\ Len(stops) \in Nat
  BY <1>1 DEF SplitInv, SplitTyped
<1>3. stops[seg + 1] \in Nat
  <2>1. seg + 1 \in 1..Len(stops)
    BY <1>2
  <2> QED
    BY <1>2, <2>1 DEF SplitTyped
<1>4. w \in [ref : Nat, idx : DOMAIN poly]
      /\ w.ref = stops[seg + 1] /\ w.idx = Split!StopIdx(seg + 1)
  BY <1>1, <1>2, <1>3, DaysIs DEF Split!NextStop
<1> HIDE DEF w
<1>5. SplitTyped'
  <2>1. pc' \in {"split", "done"} /\ (pc' = "split" => seg' < Len(stops'))
        /\ (pc' = "done" => seg' = Len(stops') /\ cut' = 1)
    BY <1>1, <1>2
  <2> QED
    <3>1. overnights' \in Seq([ref : Nat, idx : DOMAIN poly]) /\ overnights' # <<>>
      BY <1>1, <1>2, <1>4, NightAdded
    <3>2. seg' \in Nat \ {0} /\ cut' \in Nat \ {0} /\ PolyTyped'
      BY <1>1, <1>2 DEF SplitTyped, PolyTyped
    <3> QED
      BY <1>1, <1>2, <2>1, <3>1, <3>2 DEF SplitTyped
<1>6. StopsInv'
  <2>1. PICK f \in [1..seg -> DOMAIN overnights] :
          /\ \A k \in 1..seg : overnights[f[k]].ref = stops[k]
          /\ \A j, k \in 1..seg : j < k => f[j] < f[k]
    BY DEF SplitInv, StopsInv
  <2> DEFINE g == [k \in 1..(seg + 1) |-> IF k = seg + 1 THEN Len(overnights) + 1 ELSE f[k]]
  <2>2. DOMAIN overnights = 1..Len(overnights) /\ DOMAIN overnights' = 1..(Len(overnights) + 1)
        /\ Len(overnights) \in Nat
    BY <1>1, <1>2, <1>4, <1>5, NightAdded DEF SplitTyped
  <2>3. g \in [1..seg' -> DOMAIN overnights']
    BY <1>1, <1>2, <2>2
  <2>4. ASSUME NEW k \in 1..seg' PROVE overnights'[g[k]].ref = stops'[k]
    <3>0. k \in 1..(seg + 1) /\ k \in Int /\ stops' = stops
      BY <1>1, <1>2
    <3>1. CASE k = seg + 1
      <4>1. g[k] = Len(overnights) + 1
        BY <3>0, <3>1
      <4>2. overnights'[Len(overnights) + 1] = w
        BY <1>1, <1>2, <1>4, NightAdded
      <4> QED
        BY <1>4, <3>0, <3>1, <4>1, <4>2
    <3>2. CASE k # seg + 1
      <4>1. k \in 1..seg /\ g[k] = f[k]
        BY <1>2, <3>0, <3>2
      <4>2. f[k] \in 1..Len(overnights) /\ overnights[f[k]].ref = stops[k]
        BY <2>1, <2>2, <4>1
      <4>3. overnights'[f[k]] = overnights[f[k]]
        BY <1>1, <1>2, <1>4, <4>2, NightAdded
      <4> HIDE DEF g
      <4> QED
        BY <3>0, <4>1, <4>2, <4>3
    <3> QED
      BY <3>1, <3>2
  <2>5. \A j, k \in 1..seg' : j < k => g[j] < g[k]
    BY <1>1, <1>2, <2>1, <2>2
  <2> HIDE DEF g
  <2> QED
    BY <2>3, <2>4, <2>5 DEF StopsInv
<1>7. DaysInv'
  <2>1. \A n \in 1..(Len(overnights) - 1) :
          overnights[n].idx <= overnights[n + 1].idx \/ Split!TurnsBack(n)
    BY DEF SplitInv, DaysInv
  <2>2. Split!LastNight' = w
    BY <1>1, <1>2, <1>4, NightAdded
  <2>3. DOMAIN poly \subseteq Nat /\ seg \in 1..(Len(stops) - 1)
    BY <1>2 DEF SplitTyped, PolyTyped
  <2>4. \/ Split!LastNight.idx <= w.idx
        \/ \E k \in 1..(Len(stops) - 1) : w.ref = stops[k + 1]
                                        /\ Split!StopIdx(k + 1) < Split!StopIdx(k)
    <3>1. CASE ~Split!Degenerate
      <4>1. Split!LastNight.idx <= Split!StopIdx(seg + 1)
        BY <1>1, <3>1 DEF SplitInv, DaysInv
      <4> QED
        BY <1>4, <4>1
    <3>2. CASE Split!Degenerate
      <4>1. Split!LastNight.idx = Split!StopIdx(seg)
        BY <1>1, <3>2 DEF SplitInv, DaysInv
      <4>2. Split!StopIdx(seg + 1) <= Split!StopIdx(seg)
        BY <3>2 DEF Split!Degenerate
      <4>3. Split!StopIdx(seg) \in Nat /\ Split!StopIdx(seg + 1) \in Nat
        BY <1>1, <1>2, <2>3, DaysIs
      <4>4. CASE Split!StopIdx(seg + 1) = Split!StopIdx(seg)
        BY <1>4, <4>1, <4>3, <4>4
      <4>5. CASE Split!StopIdx(seg + 1) < Split!StopIdx(seg)
        BY <1>4, <2>3, <4>5
      <4> QED
        BY <4>2, <4>3, <4>4, <4>5
    <3> QED
      BY <3>1, <3>2
  <2>5. /\ overnights'[1] = overnights[1]
        /\ \A n \in 1..(Len(overnights') - 1) :
              overnights'[n].idx <= overnights'[n + 1].idx \/ Split!TurnsBack(n)'
    BY <1>1, <1>2, <1>4, <2>1, <2>4, NightsInOrder
  <2>6. pc' = "split" /\ ~Split!Degenerate' => w.idx <= Split!StopIdx((seg + 1) + 1)
    <3> SUFFICES ASSUME pc' = "split", ~Split!Degenerate'
                 PROVE  w.idx <= Split!StopIdx((seg + 1) + 1)
      OBVIOUS
    <3>1. ~(Split!StopIdx((seg + 1) + 1) <= Split!StopIdx(seg + 1))
      BY <1>1, SameRoute DEF Split!Degenerate
    <3>2. (seg + 1) + 1 \in 1..Len(stops)
      BY <1>1, <1>2
    <3>3. stops[(seg + 1) + 1] \in Nat /\ PolyTyped
      BY <1>2, <3>2 DEF SplitTyped
    <3>4. Split!StopIdx((seg + 1) + 1) \in Nat /\ w.idx \in Nat
      BY <1>4, <2>3, <3>3, VertexIs DEF Split!StopIdx
    <3> QED
      BY <1>4, <3>1, <3>4
  <2> QED
    BY <1>1, <1>4, <2>2, <2>5, <2>6, SameRoute DEF SplitInv, DaysInv
<1> QED
  BY <1>5, <1>6, <1>7 DEF SplitInv

(* A stop that is not passed before its turn is found where the route means *)
(* it.                                                                      *)
LEMMA StopsFound ==
  ASSUME SplitTyped, NEW f \in [DOMAIN stops -> DOMAIN poly],
         Split!InOrder(f), ~Split!PassedBefore(f)
  PROVE  \A k \in DOMAIN stops : Split!StopIdx(k) = f[k]
<1> SUFFICES ASSUME NEW k \in DOMAIN stops PROVE Split!StopIdx(k) = f[k]
  OBVIOUS
<1>1. stops[k] \in Nat /\ PolyTyped
  BY DEF SplitTyped
<1>2. DOMAIN poly \subseteq Nat
  BY <1>1 DEF PolyTyped
<1>3. f[k] \in Split!Near(stops[k]) /\ \A n \in Split!Near(stops[k]) : ~(n < f[k])
  BY DEF Split!InOrder, Split!PassedBefore
<1> QED
  BY <1>1, <1>2, <1>3, VertexIs DEF Split!StopIdx

(* When the segments are through, the days tell the route.                  *)
LEMMA SplitInvSuffices == SplitInv => Split!DaysTellTheRoute
<1> SUFFICES ASSUME SplitInv, pc = "done"
             PROVE  /\ \E f \in [DOMAIN stops -> DOMAIN overnights] :
                        /\ \A k \in DOMAIN stops : overnights[f[k]].ref = stops[k]
                        /\ \A j, k \in DOMAIN stops : j < k => f[j] < f[k]
                    /\ \A n \in 1..(Len(overnights) - 1) :
                          Split!Stage(n) < 0 => Split!TurnsBack(n)
                    /\ (\E f \in [DOMAIN stops -> DOMAIN poly] :
                          Split!InOrder(f) /\ ~Split!PassedBefore(f)) =>
                        /\ \A n \in 1..(Len(overnights) - 1) : Split!Stage(n) >= 0
                        /\ overnights[1].idx = 1
                        /\ Split!LastNight.idx = Len(poly)
  BY DEF Split!DaysTellTheRoute
<1>1. SplitTyped /\ seg = Len(stops) /\ DOMAIN stops = 1..seg /\ PolyTyped /\ cut = 1
      /\ Len(stops) \in Nat /\ Len(stops) >= 2
  BY DEF SplitInv, SplitTyped
<1>2. \A n \in 1..(Len(overnights) - 1) :
        /\ Split!Stage(n) \in Int
        /\ overnights[n].idx <= overnights[n + 1].idx => Split!Stage(n) >= 0
  <2> SUFFICES ASSUME NEW n \in 1..(Len(overnights) - 1)
               PROVE  /\ Split!Stage(n) \in Int
                      /\ overnights[n].idx <= overnights[n + 1].idx => Split!Stage(n) >= 0
    OBVIOUS
  <2>1. n \in 1..Len(overnights) /\ n + 1 \in 1..Len(overnights)
    BY <1>1 DEF SplitTyped
  <2>2. overnights[n].idx \in DOMAIN poly /\ overnights[n + 1].idx \in DOMAIN poly
    BY <1>1, <2>1, NightAt
  <2> QED
    BY <1>1, <2>2, CumIs, CumGrows DEF Split!Stage
<1>3. \E f \in [DOMAIN stops -> DOMAIN overnights] :
        /\ \A k \in DOMAIN stops : overnights[f[k]].ref = stops[k]
        /\ \A j, k \in DOMAIN stops : j < k => f[j] < f[k]
  BY <1>1 DEF SplitInv, StopsInv
<1>4. \A n \in 1..(Len(overnights) - 1) :
        Split!Stage(n) >= 0 \/ Split!TurnsBack(n)
  BY <1>2 DEF SplitInv, DaysInv
<1>5. ASSUME NEW f \in [DOMAIN stops -> DOMAIN poly],
             Split!InOrder(f), ~Split!PassedBefore(f)
      PROVE  /\ \A n \in 1..(Len(overnights) - 1) : Split!Stage(n) >= 0
             /\ overnights[1].idx = 1
             /\ Split!LastNight.idx = Len(poly)
  <2>1. \A k \in 1..Len(stops) : Split!StopIdx(k) = f[k] /\ f[k] \in Nat
    <3>1. DOMAIN poly \subseteq Nat
      BY <1>1 DEF PolyTyped
    <3> QED
      BY <1>1, <1>5, <3>1, StopsFound
  <2>2. \A k \in 1..(Len(stops) - 1) : ~(Split!StopIdx(k + 1) < Split!StopIdx(k))
    <3> SUFFICES ASSUME NEW k \in 1..(Len(stops) - 1)
                 PROVE  ~(Split!StopIdx(k + 1) < Split!StopIdx(k))
      OBVIOUS
    <3>1. k \in DOMAIN stops /\ k + 1 \in DOMAIN stops /\ k <= k + 1
      BY <1>1
    <3>2. f[k] <= f[k + 1]
      BY <1>5, <3>1 DEF Split!InOrder
    <3> QED
      BY <1>1, <2>1, <3>1, <3>2
  <2>3. \A n : ~Split!TurnsBack(n)
    BY <2>2 DEF Split!TurnsBack
  <2>4. f[1] = 1 /\ f[Len(stops)] = Len(poly)
    BY <1>5 DEF Split!InOrder
  <2>5. overnights[1].idx = Split!StopIdx(1) /\ Split!LastNight.idx = Split!StopIdx(Len(stops))
    BY <1>1 DEF SplitInv, DaysInv
  <2> QED
    BY <1>1, <1>4, <2>1, <2>3, <2>4, <2>5
<1> QED
  BY <1>2, <1>3, <1>4, <1>5

\* StageSplit: whatever route is split, with whatever stops, on it or off it,
\* and however many kilometres a day, the stops are nights in their order and
\* only a day to a stop that lies behind rides backwards; and if the route
\* passes the stops in that order, none of them before its turn, the days
\* follow one another from its first vertex to its last.
THEOREM DaysAddUp ==
  Split!StageSplitAssumption => (Split!Spec => []Split!DaysTellTheRoute)
<1> SUFFICES ASSUME Split!StageSplitAssumption
             PROVE  Split!Spec => []Split!DaysTellTheRoute
  OBVIOUS
<1>1. Split!Init => SplitInv
  BY SplitInit
<1>2. SplitInv /\ [Split!Next]_(Split!vars) => SplitInv'
  <2>1. SplitInv /\ UNCHANGED Split!vars => SplitInv'
    <3> SUFFICES ASSUME SplitInv, UNCHANGED Split!vars PROVE SplitInv'
      OBVIOUS
    <3>1. UNCHANGED <<pc, poly, stops, target, seg, cut, overnights>>
      BY DEF Split!vars
    <3>2. SplitTyped' /\ StopsInv'
      BY <3>1 DEF SplitInv, SplitTyped, PolyTyped, StopsInv
    <3>3. DaysInv'
      BY <3>1, SameRoute
         DEF SplitInv, DaysInv, Split!LastNight, Split!TurnsBack, Split!Degenerate
    <3> QED
      BY <3>2, <3>3 DEF SplitInv
  <2> QED
    BY <2>1, CutKeeps, CloseKeeps DEF Split!Next
<1>3. SplitInv => Split!DaysTellTheRoute
  BY SplitInvSuffices
<1> QED
  BY <1>1, <1>2, <1>3, PTL DEF Split!Spec

---------------------------------------------------------------------------
(***************************************************************************)
(* RailSpine: whatever trains call where, the spine is a shortest chain of *)
(* anchors, and it is none only when there is no chain.                    *)
(***************************************************************************)
CONSTANTS Stations, Routes, Timetables, Trips, ShortName, Excludes, BallRadius, StationMax
VARIABLES serves, src, dst, heap, dist, parent, chain
Rail == INSTANCE RailSpine

(* A row of integers lies between two integers.                             *)
LEMMA RowBounds ==
  ASSUME NEW N \in Nat, NEW q \in [1..N -> Int]
  PROVE  \E lo, hi \in Int : \A i \in 1..N : lo <= q[i] /\ q[i] <= hi
<1> DEFINE Bounded(n) == \E lo, hi \in Int : \A i \in 1..n : lo <= q[i] /\ q[i] <= hi
           Bad == {n \in 0..N : ~Bounded(n)}
<1>1. \A n \in 0..N : n \in Bad <=> ~Bounded(n)
  OBVIOUS
<1>2. Bad \in SUBSET Nat /\ \A n \in Bad : n \in 0..N
  OBVIOUS
<1>3. Bounded(0)
  OBVIOUS
<1>4. ASSUME NEW n \in 1..N, Bounded(n - 1)  PROVE Bounded(n)
  <2>1. PICK lo, hi \in Int : \A i \in 1..(n - 1) : lo <= q[i] /\ q[i] <= hi
    BY <1>4
  <2>2. \E l \in Int : l <= lo /\ l <= q[n]
    BY <2>1
  <2>3. \E h \in Int : hi <= h /\ q[n] <= h
    BY <2>1
  <2>4. PICK l, h \in Int : l <= lo /\ l <= q[n] /\ hi <= h /\ q[n] <= h
    BY <2>2, <2>3
  <2>5. ASSUME NEW i \in 1..n  PROVE l <= q[i] /\ q[i] <= h
    <3>1. q[i] \in Int /\ (i = n \/ i \in 1..(n - 1))
      OBVIOUS
    <3> QED
      BY <2>1, <2>4, <3>1
  <2> QED
    BY <2>5
<1> HIDE DEF Bad, Bounded
<1>5. Bad = {}
  <2> SUFFICES ASSUME Bad # {} PROVE FALSE
    OBVIOUS
  <2>1. PICK n \in Bad : \A m \in Bad : n <= m
    BY <1>2, LeastNat
  <2>2. n \in 0..N /\ n # 0
    BY <2>1, <1>1, <1>2, <1>3
  <2>3. n \in 1..N /\ n - 1 \in 0..N /\ ~(n <= n - 1)
    BY <2>2
  <2>4. n - 1 \notin Bad
    BY <2>1, <2>3
  <2>5. Bounded(n - 1)
    BY <2>3, <2>4, <1>1
  <2> QED
    BY <2>1, <2>2, <2>3, <2>5, <1>1, <1>4
<1>6. Bounded(N)
  <2>1. N \in 0..N
    OBVIOUS
  <2> QED
    BY <2>1, <1>1, <1>5
<1> QED
  BY <1>6 DEF Bounded

(* A finite set of integers lies between two integers.                      *)
LEMMA FiniteBounds ==
  ASSUME NEW S \in SUBSET Int, IsFiniteSet(S)
  PROVE  \E lo, hi \in Int : \A x \in S : lo <= x /\ x <= hi
<1>1. PICK n \in Nat : ExistsSurjection(1..n, S)
  BY FS_NatSurjection
<1>2. PICK q \in [1..n -> S] : \A x \in S : \E i \in 1..n : q[i] = x
  BY <1>1 DEF ExistsSurjection, Surjection
<1>3. q \in [1..n -> Int]
  BY <1>2
<1>4. PICK lo, hi \in Int : \A i \in 1..n : lo <= q[i] /\ q[i] <= hi
  BY <1>3, RowBounds
<1>5. ASSUME NEW x \in S  PROVE lo <= x /\ x <= hi
  <2>1. PICK i \in 1..n : q[i] = x
    BY <1>2
  <2> QED
    BY <2>1, <1>4
<1> QED
  BY <1>5

(* A finite set of integers has a least one.                                *)
LEMMA LeastInt ==
  ASSUME NEW S \in SUBSET Int, IsFiniteSet(S), S # {}
  PROVE  \E x \in S : \A y \in S : x <= y
<1>1. PICK lo \in Int : \A x \in S : lo <= x
  BY FiniteBounds
<1> DEFINE T == {n \in Nat : lo + n \in S}
<1>2. T # {}
  <2>1. PICK x \in S : TRUE
    OBVIOUS
  <2>2. x - lo \in Nat /\ lo + (x - lo) = x
    BY <1>1, <2>1
  <2> QED
    BY <2>1, <2>2
<1>3. PICK n \in T : \A m \in T : n <= m
  <2>1. T \in SUBSET Nat
    OBVIOUS
  <2> HIDE DEF T
  <2> QED
    BY <1>2, <2>1, LeastNat
<1>4. ASSUME NEW y \in S  PROVE lo + n <= y
  <2>1. y - lo \in Nat /\ lo + (y - lo) = y
    BY <1>1
  <2>2. n <= y - lo
    BY <2>1, <1>3
  <2> QED
    BY <2>1, <2>2, <1>3
<1> QED
  BY <1>3, <1>4

(* The numbers of a row can be added up, in one way.                        *)
LEMMA SumsAre ==
  ASSUME NEW m \in Nat \ {0}, NEW d \in [1..m -> Nat]
  PROVE  \E g \in [1..m -> Nat] :
            /\ \A n \in 1..m : g[n] = IF n = 1 THEN 0 ELSE g[n - 1] + d[n]
            /\ \A u : u = [n \in 1..m |-> IF n = 1 THEN 0 ELSE u[n - 1] + d[n]] => u = g
<1> DEFINE Adds(g, k) == \A n \in 1..k : g[n] = IF n = 1 THEN 0 ELSE g[n - 1] + d[n]
           Sums(k) == \E g \in [1..k -> Nat] : Adds(g, k)
           Bad == {k \in 1..m : ~Sums(k)}
<1>1. \A k \in 1..m : k \in Bad <=> ~Sums(k)
  OBVIOUS
<1>2. Bad \in SUBSET Nat /\ \A k \in Bad : k \in 1..m
  OBVIOUS
<1>3. Sums(1)
  <2>1. [n \in 1..1 |-> 0] \in [1..1 -> Nat] /\ Adds([n \in 1..1 |-> 0], 1)
    OBVIOUS
  <2> QED
    BY <2>1
<1>4. ASSUME NEW k \in 1..m, k # 1, Sums(k - 1)  PROVE Sums(k)
  <2>1. PICK g \in [1..(k - 1) -> Nat] : Adds(g, k - 1)
    BY <1>4
  <2> DEFINE h == [n \in 1..k |-> IF n = k THEN g[k - 1] + d[k] ELSE g[n]]
  <2>2. k - 1 \in 1..(k - 1) /\ d[k] \in Nat /\ g[k - 1] \in Nat
    BY <1>4
  <2>3. \A n \in 1..k : n = k \/ n \in 1..(k - 1)
    OBVIOUS
  <2>4. h \in [1..k -> Nat]
    BY <2>2, <2>3
  <2>5. ASSUME NEW n \in 1..k  PROVE h[n] = IF n = 1 THEN 0 ELSE h[n - 1] + d[n]
    <3>1. CASE n = k
      BY <3>1, <1>4, <2>2
    <3>2. CASE n # k
      <4>1. n \in 1..(k - 1) /\ (n # 1 => n - 1 \in 1..k /\ n - 1 # k)
        BY <3>2
      <4>2. g[n] = IF n = 1 THEN 0 ELSE g[n - 1] + d[n]
        BY <4>1, <2>1
      <4> QED
        BY <3>2, <4>1, <4>2
    <3> QED
      BY <3>1, <3>2
  <2> QED
    BY <2>4, <2>5
<1> HIDE DEF Bad, Sums
<1>5. Bad = {}
  <2> SUFFICES ASSUME Bad # {} PROVE FALSE
    OBVIOUS
  <2>1. PICK k \in Bad : \A j \in Bad : k <= j
    BY <1>2, LeastNat
  <2>2. k \in 1..m /\ k # 1
    BY <2>1, <1>1, <1>2, <1>3
  <2>3. k - 1 \in 1..m /\ ~(k <= k - 1)
    BY <2>2
  <2>4. Sums(k - 1)
    BY <2>1, <2>3, <1>1
  <2> QED
    BY <2>1, <2>2, <2>4, <1>1, <1>4
<1>6. Sums(m)
  <2>1. m \in 1..m
    OBVIOUS
  <2> QED
    BY <2>1, <1>1, <1>5
<1>7. PICK g \in [1..m -> Nat] : Adds(g, m)
  BY <1>6 DEF Sums
<1>8. SUFFICES ASSUME NEW u, u = [n \in 1..m |-> IF n = 1 THEN 0 ELSE u[n - 1] + d[n]]
              PROVE  u = g
  <2> HIDE DEF Bad, Sums
  <2> QED
    BY <1>7
<1>9. u = [n \in 1..m |-> IF n = 1 THEN 0 ELSE u[n - 1] + d[n]]
  BY <1>8
<1>10. \A n \in 1..m : u[n] = IF n = 1 THEN 0 ELSE u[n - 1] + d[n]
  <2> TAKE n \in 1..m
  <2> DEFINE v == u
             w == [k \in 1..m |-> IF k = 1 THEN 0 ELSE v[k - 1] + d[k]]
  <2>1. w[n] = IF n = 1 THEN 0 ELSE v[n - 1] + d[n]
    <3> HIDE DEF v
    <3> QED OBVIOUS
  <2>2. u = w
    BY <1>9
  <2> HIDE DEF w
  <2> QED
    BY <2>1, <2>2
<1>11. DOMAIN u = 1..m
  BY <1>9
<1> DEFINE Same(n) == u[n] = g[n]
           Odd == {n \in 1..m : ~Same(n)}
<1>12. \A n \in 1..m : n \in Odd <=> ~Same(n)
  OBVIOUS
<1>13. Odd \in SUBSET Nat /\ \A n \in Odd : n \in 1..m
  OBVIOUS
<1>14. ASSUME NEW n \in 1..m, n = 1 \/ Same(n - 1)  PROVE Same(n)
  <2>1. g[n] = IF n = 1 THEN 0 ELSE g[n - 1] + d[n]
    BY <1>7
  <2>2. u[n] = IF n = 1 THEN 0 ELSE u[n - 1] + d[n]
    BY <1>10
  <2> QED
    BY <1>14, <2>1, <2>2
<1> HIDE DEF Odd, Same
<1>15. Odd = {}
  <2> SUFFICES ASSUME Odd # {} PROVE FALSE
    OBVIOUS
  <2>1. PICK n \in Odd : \A k \in Odd : n <= k
    BY <1>13, LeastNat
  <2>2. n \in 1..m /\ n # 1
    BY <2>1, <1>12, <1>13, <1>14
  <2>3. n - 1 \in 1..m /\ ~(n <= n - 1)
    BY <2>2
  <2>4. Same(n - 1)
    BY <2>1, <2>3, <1>12
  <2> QED
    BY <2>1, <2>2, <2>4, <1>12, <1>14
<1>16. \A n \in 1..m : u[n] = g[n]
  BY <1>12, <1>15 DEF Same
<1> QED
  BY <1>9, <1>11, <1>16

---------------------------------------------------------------------------
(* Anchors that the search has done with.                                   *)
Open == {v \in DOMAIN dist : <<dist[v], v>> \in heap}
Closed == DOMAIN dist \ Open

AskTyped ==
    /\ pc \in {"ask", "search", "done"}
    /\ serves \in Timetables /\ src \in Anchors /\ dst \in Anchors
    /\ pc = "ask" => parent = <<>>

SearchTyped ==
    /\ DOMAIN dist \subseteq Anchors /\ src \in DOMAIN dist /\ dist[src] = 0
    /\ \A v \in DOMAIN dist : dist[v] \in Nat
    /\ DOMAIN parent = DOMAIN dist \ {src}
    /\ src # dst
    /\ heap \subseteq Nat \X Anchors
    /\ \A e \in heap : e[2] \in DOMAIN dist /\ dist[e[2]] <= e[1]

(* What is done with was not the goal, is no farther than what is still to  *)
(* do, and its neighbours are known by the way through it or a shorter one. *)
ClosedInv ==
    \A u \in Closed :
        /\ u # dst
        /\ \A v \in Anchors : Rail!Adjacent(u, v) =>
                v \in DOMAIN dist /\ dist[v] <= dist[u] + Rail!Distance(u, v)
        /\ \A e \in heap : dist[u] <= e[1]

(* A parent is done with: its distance is settled.                          *)
ParentInv ==
    \A v \in DOMAIN parent : \E u \in Closed :
        /\ parent[v] = u /\ Rail!Adjacent(u, v)
        /\ dist[v] = dist[u] + Rail!Distance(u, v)

SearchInv == SearchTyped /\ ClosedInv /\ ParentInv
RailInv == AskTyped /\ (pc = "search" => SearchInv) /\ Rail!SpineIsShortest

LEMMA DistanceIs ==
  ASSUME NEW u \in Int, NEW v \in Int
  PROVE  Rail!Distance(u, v) \in Nat /\ (u # v => Rail!Distance(u, v) > 0)
BY DEF Rail!Distance

LEMMA AnchorsAre ==
  ASSUME Rail!RailSpineAssumption
  PROVE  /\ IsFiniteSet(Anchors) /\ Cardinality(Anchors) \in Nat
         /\ \A a \in Anchors : a \in Int
<1>1. IsFiniteSet(Anchors)
  BY Zenon DEF Rail!RailSpineAssumption, Rail!IsFiniteSet, IsFiniteSet
<1> QED
  BY <1>1, FS_CardinalityType DEF Rail!RailSpineAssumption

(* The top of the heap is one of its least entries.                         *)
LEMMA TopIs ==
  ASSUME Rail!RailSpineAssumption, heap \subseteq Nat \X Anchors, heap # {}
  PROVE  Rail!Top \in heap /\ \A e \in heap : Rail!Top[1] <= e[1]
<1> DEFINE Key == {e[1] : e \in heap}
<1>1. Key \in SUBSET Nat /\ Key # {}
  OBVIOUS
<1>2. PICK d \in Key : \A k \in Key : d <= k
  <2> HIDE DEF Key
  <2> QED BY <1>1, LeastNat
<1>3. \A e \in heap : e = <<e[1], e[2]>> /\ e[1] \in Nat /\ e[2] \in Anchors /\ d <= e[1]
  BY <1>2
<1> DEFINE A == {a \in Anchors : <<d, a>> \in heap}
<1>4. A # {}
  BY <1>2, <1>3
<1>5. A \in SUBSET Int /\ IsFiniteSet(A)
  <2>1. A \in SUBSET Anchors /\ A \in SUBSET Int
    BY AnchorsAre
  <2> HIDE DEF A
  <2> QED
    BY <2>1, AnchorsAre, FS_Subset
<1>6. PICK a \in A : \A b \in A : a <= b
  <2> HIDE DEF A
  <2> QED BY <1>4, <1>5, LeastInt
<1>7. <<d, a>> \in heap /\ d \in Nat
  BY <1>6, <1>1, <1>2
<1> DEFINE Best(e) == \A f \in heap : e[1] < f[1] \/ (e[1] = f[1] /\ e[2] <= f[2])
<1>8. Best(<<d, a>>)
  <2> SUFFICES ASSUME NEW f \in heap PROVE d < f[1] \/ (d = f[1] /\ a <= f[2])
    OBVIOUS
  <2>1. d <= f[1] /\ f[1] \in Nat
    BY <1>3
  <2>2. d = f[1] => f[2] \in A
    BY <1>3
  <2> QED
    BY <2>1, <2>2, <1>6, <1>7
<1>9. Rail!Top \in heap /\ Best(Rail!Top)
  <2>1. Rail!Top = CHOOSE e \in heap : Best(e)
    BY DEF Rail!Top
  <2> HIDE DEF Best
  <2> QED
    BY <2>1, <1>7, <1>8
<1>10. \A e \in heap : Rail!Top[1] <= e[1]
  BY <1>9, <1>3
<1> QED
  BY <1>9, <1>10

LEMMA SameTrains ==
  ASSUME serves' = serves
  PROVE  \A a, b \in Anchors : Rail!Adjacent(a, b)' <=> Rail!Adjacent(a, b)
BY DEF Rail!Adjacent, Rail!Calls, Rail!AnchorRoutes, Rail!StationRoutes

LEMMA StartKeeps ==
  ASSUME Rail!RailSpineAssumption, AskTyped, Rail!Start
  PROVE  SearchInv'
<1>1. /\ src # dst /\ heap' = {<<0, src>>} /\ dist' = [v \in {src} |-> 0]
      /\ parent' = parent /\ src' = src /\ dst' = dst
  BY DEF Rail!Start
<1>2. DOMAIN dist' = {src} /\ dist'[src] = 0
  BY <1>1
<1>3. Closed' = {}
  BY <1>1, <1>2 DEF Open, Closed
<1>4. DOMAIN parent' = {}
  BY <1>1 DEF AskTyped, Rail!Start
<1>5. src' \in Anchors /\ SearchTyped'
  BY <1>1, <1>2, <1>4 DEF SearchTyped, AskTyped
<1>6. ClosedInv' /\ ParentInv'
  BY <1>3, <1>4 DEF ClosedInv, ParentInv
<1> QED
  BY <1>5, <1>6 DEF SearchInv

(* An overtaken entry can go.                                               *)
LEMMA PopKeeps ==
  ASSUME Rail!RailSpineAssumption, AskTyped, SearchInv, Rail!PopStale
  PROVE  SearchInv'
<1>1. /\ heap' = heap \ {Rail!Top} /\ Rail!Top[1] > dist[Rail!Top[2]]
      /\ dist' = dist /\ parent' = parent /\ src' = src /\ dst' = dst /\ serves' = serves
      /\ Rail!Top \in heap
  BY TopIs DEF Rail!PopStale, Rail!Stale, SearchInv, SearchTyped
<1>2. \A v \in DOMAIN dist : <<dist[v], v>> # Rail!Top
  <2>1. \A v \in DOMAIN dist : dist[v] \in Nat
    BY DEF SearchInv, SearchTyped
  <2> QED
    BY <1>1, <2>1
<1>3. Open' = Open /\ Closed' = Closed
  BY <1>1, <1>2 DEF Open, Closed
<1>4. SearchTyped'
  BY <1>1 DEF SearchInv, SearchTyped
<1>5. \A u \in Closed : u \in Anchors
  BY DEF Closed, SearchInv, SearchTyped
<1>6. ClosedInv'
  BY <1>1, <1>3, <1>5, SameTrains DEF SearchInv, ClosedInv, Rail!Distance
<1>7. ParentInv'
  <2>1. \A v \in DOMAIN parent : v \in Anchors
    BY DEF SearchInv, SearchTyped
  <2> QED
    BY <1>1, <1>3, <1>5, <2>1, SameTrains DEF SearchInv, ParentInv, Rail!Distance
<1> QED
  BY <1>4, <1>6, <1>7 DEF SearchInv

(* The neighbours get their ways through the anchor, which is done with.    *)
LEMMA RelaxKeeps ==
  ASSUME Rail!RailSpineAssumption, AskTyped, SearchInv, Rail!Relax
  PROVE  SearchInv'
<1> DEFINE u == Rail!Top[2]
           better == Rail!Improved(u)
           far == [v \in better |-> Rail!Top[1] + Rail!Distance(u, v)]
<1>1. /\ heap # {} /\ u # dst /\ ~(Rail!Top[1] > dist[u])
      /\ dist' = [v \in DOMAIN dist \cup better |-> IF v \in better THEN far[v] ELSE dist[v]]
      /\ parent' = [v \in DOMAIN parent \cup better |-> IF v \in better THEN u ELSE parent[v]]
      /\ heap' = (heap \ {Rail!Top}) \cup {<<far[v], v>> : v \in better}
      /\ src' = src /\ dst' = dst /\ serves' = serves
  BY DEF Rail!Relax, Rail!Stale
<1>2. Rail!Top \in heap /\ \A e \in heap : Rail!Top[1] <= e[1]
  BY <1>1, TopIs DEF SearchInv, SearchTyped
<1>3. /\ u \in DOMAIN dist /\ u \in Anchors /\ dist[u] \in Nat
      /\ Rail!Top[1] = dist[u] /\ Rail!Top = <<dist[u], u>>
  <2>1. Rail!Top[1] \in Nat /\ Rail!Top = <<Rail!Top[1], Rail!Top[2]>>
    BY <1>2 DEF SearchInv, SearchTyped
  <2>2. u \in DOMAIN dist /\ dist[u] <= Rail!Top[1]
    BY <1>2 DEF SearchInv, SearchTyped
  <2>3. dist[u] \in Nat /\ u \in Anchors
    BY <2>2 DEF SearchInv, SearchTyped
  <2> QED
    BY <1>1, <2>1, <2>2, <2>3
<1>4. \A v \in better : v \in Anchors /\ v # u /\ Rail!Adjacent(u, v)
          /\ (v \in DOMAIN dist => dist[u] + Rail!Distance(u, v) < dist[v])
  BY <1>3 DEF Rail!Improved, Rail!Adjacent
<1>5. \A v \in Anchors : Rail!Adjacent(u, v) /\ v \notin better =>
          v \in DOMAIN dist /\ ~(dist[u] + Rail!Distance(u, v) < dist[v])
  BY DEF Rail!Improved
<1>6. \A v \in Anchors : Rail!Distance(u, v) \in Nat
  BY <1>3, DistanceIs, AnchorsAre
<1>7. \A v \in better : far[v] = dist[u] + Rail!Distance(u, v) /\ far[v] \in Nat /\ far[v] >= dist[u]
  BY <1>3, <1>4, <1>6
<1>8. /\ DOMAIN dist' = DOMAIN dist \cup better
      /\ DOMAIN parent' = DOMAIN parent \cup better
      /\ \A v \in DOMAIN dist : v \notin better => dist'[v] = dist[v]
      /\ \A v \in better : dist'[v] = far[v] /\ parent'[v] = u
      /\ \A v \in DOMAIN parent : v \notin better => parent'[v] = parent[v]
  BY <1>1
<1>9. \A v \in DOMAIN dist : dist[v] \in Nat /\ v \in Anchors
  BY DEF SearchInv, SearchTyped
<1>10. \A v \in DOMAIN dist : dist'[v] \in Nat /\ dist'[v] <= dist[v]
  BY <1>4, <1>7, <1>8, <1>9
<1>11. \A e \in heap' : (e \in heap /\ e # Rail!Top) \/ (e[2] \in better /\ e = <<far[e[2]], e[2]>>)
  BY <1>1
<1>12. \A e \in heap : e # Rail!Top => e \in heap'
  BY <1>1
<1>13. \A v \in better : <<far[v], v>> \in heap'
  BY <1>1
<1> HIDE DEF u, better, far
<1>14. src \in DOMAIN dist /\ dist[src] = 0 /\ src \notin better /\ DOMAIN parent = DOMAIN dist \ {src}
       /\ src # dst
  BY <1>4, <1>6, <1>3 DEF SearchInv, SearchTyped
<1>15. SearchTyped'
  <2>1. DOMAIN dist' \subseteq Anchors /\ src' \in DOMAIN dist' /\ dist'[src'] = 0 /\ src' # dst'
    BY <1>1, <1>4, <1>8, <1>9, <1>14
  <2>2. \A v \in DOMAIN dist' : dist'[v] \in Nat
    BY <1>7, <1>8, <1>9
  <2>3. DOMAIN parent' = DOMAIN dist' \ {src'}
    BY <1>1, <1>8, <1>14
  <2>4. \A e \in heap' : e \in Nat \X Anchors /\ e[2] \in DOMAIN dist' /\ dist'[e[2]] <= e[1]
    <3> TAKE e \in heap'
    <3>1. CASE e \in heap
      <4>1. e \in Nat \X Anchors /\ e[2] \in DOMAIN dist /\ dist[e[2]] <= e[1] /\ e[1] \in Nat
        BY <3>1 DEF SearchInv, SearchTyped
      <4>2. dist'[e[2]] \in Nat /\ dist'[e[2]] <= dist[e[2]] /\ dist[e[2]] \in Nat
        BY <4>1, <1>9, <1>10
      <4> QED
        BY <4>1, <4>2, <1>8
    <3>2. CASE e[2] \in better /\ e = <<far[e[2]], e[2]>>
      BY <3>2, <1>4, <1>7, <1>8
    <3> QED
      BY <3>1, <3>2, <1>11
  <2>5. heap' \subseteq Nat \X Anchors
    BY <2>4
  <2> QED
    BY <2>1, <2>2, <2>3, <2>4, <2>5 DEF SearchTyped
<1>16. \A x \in Closed : x \in DOMAIN dist /\ x \notin better /\ x # u /\ dist[x] <= dist[u]
  <2> TAKE x \in Closed
  <2>1. x \in DOMAIN dist /\ <<dist[x], x>> \notin heap
    BY DEF Closed, Open
  <2>2. x # u
    BY <2>1, <1>2, <1>3
  <2>3. dist[x] <= dist[u]
    BY <1>2, <1>3 DEF SearchInv, ClosedInv
  <2>4. x \notin better
    BY <2>1, <2>3, <1>3, <1>4, <1>6, <1>9
  <2> QED
    BY <2>1, <2>2, <2>3, <2>4
<1>17. \A x \in Closed \cup {u} : x \in Closed' /\ dist'[x] = dist[x]
  <2> TAKE x \in Closed \cup {u}
  <2>1. x \in DOMAIN dist /\ x \notin better
    BY <1>3, <1>4, <1>16
  <2>2. x \in DOMAIN dist' /\ dist'[x] = dist[x]
    BY <2>1, <1>8
  <2>3. <<dist[x], x>> \notin heap'
    <3> SUFFICES ASSUME <<dist[x], x>> \in heap' PROVE FALSE
      OBVIOUS
    <3>1. <<dist[x], x>> \in heap /\ <<dist[x], x>> # Rail!Top
      BY <1>11, <2>1
    <3>2. x # u
      BY <3>1, <1>3
    <3>3. x \in Open
      BY <3>1, <2>1 DEF Open
    <3> QED
      BY <3>2, <3>3 DEF Closed
  <2> QED
    BY <2>2, <2>3 DEF Closed, Open
<1>18. \A x \in Closed' : x \in Closed \cup {u} /\ x \in Anchors
  <2> TAKE x \in Closed'
  <2>1. x \in DOMAIN dist' /\ <<dist'[x], x>> \notin heap'
    BY DEF Closed, Open
  <2>2. x \notin better
    BY <2>1, <1>8, <1>13
  <2>3. x \in DOMAIN dist /\ dist'[x] = dist[x]
    BY <2>1, <2>2, <1>8
  <2>4. ASSUME x # u  PROVE <<dist[x], x>> \notin heap
    BY <2>1, <2>3, <2>4, <1>3, <1>12
  <2>5. x # u => x \in Closed
    BY <2>3, <2>4 DEF Closed, Open
  <2> QED
    BY <2>3, <2>5, <1>9
<1>19. \A e \in heap' : e[1] \in Nat /\ dist[u] <= e[1]
  BY <1>2, <1>3, <1>7, <1>11 DEF SearchInv, SearchTyped
<1>20. ClosedInv'
  <2> SUFFICES ASSUME NEW x \in Closed'
               PROVE  /\ x # dst'
                      /\ \A v \in Anchors : Rail!Adjacent(x, v)' =>
                            v \in DOMAIN dist' /\ dist'[v] <= dist'[x] + Rail!Distance(x, v)
                      /\ \A e \in heap' : dist'[x] <= e[1]
    BY DEF ClosedInv, Rail!Distance
  <2>1. x \in Closed \cup {u} /\ x \in Anchors /\ dist'[x] = dist[x] /\ x \in DOMAIN dist
    BY <1>16, <1>17, <1>18, <1>3
  <2>2. x # dst'
    <3>1. x \in Closed => x # dst
      BY DEF SearchInv, ClosedInv
    <3> QED
      BY <2>1, <3>1, <1>1 DEF u
  <2>3. dist[x] \in Nat /\ dist[x] <= dist[u]
    BY <2>1, <1>3, <1>9, <1>16
  <2>4. \A e \in heap' : dist'[x] <= e[1]
    BY <2>1, <2>3, <1>3, <1>19
  <2>5. ASSUME NEW v \in Anchors, Rail!Adjacent(x, v)'
        PROVE  v \in DOMAIN dist' /\ dist'[v] <= dist'[x] + Rail!Distance(x, v)
    <3>1. Rail!Adjacent(x, v)
      BY <2>1, <2>5, <1>1, SameTrains
    <3>2. Rail!Distance(x, v) \in Nat
      BY <2>1, DistanceIs, AnchorsAre
    <3>3. CASE x \in Closed
      <4>1. v \in DOMAIN dist /\ dist[v] <= dist[x] + Rail!Distance(x, v)
        BY <3>1, <3>3 DEF SearchInv, ClosedInv
      <4> QED
        BY <4>1, <3>2, <2>1, <2>3, <1>8, <1>9, <1>10
    <3>4. CASE x = u /\ v \in better
      BY <3>4, <2>1, <2>3, <3>2, <1>7, <1>8
    <3>5. CASE x = u /\ v \notin better
      <4>1. v \in DOMAIN dist /\ ~(dist[u] + Rail!Distance(u, v) < dist[v])
        BY <3>1, <3>5, <1>5
      <4> QED
        BY <4>1, <3>5, <3>2, <2>1, <2>3, <1>8, <1>9
    <3> QED
      BY <2>1, <3>3, <3>4, <3>5
  <2> QED
    BY <2>2, <2>4, <2>5
<1>21. ParentInv'
  <2> SUFFICES ASSUME NEW v \in DOMAIN parent'
               PROVE  \E w \in Closed' : /\ parent'[v] = w /\ Rail!Adjacent(w, v)'
                                         /\ dist'[v] = dist'[w] + Rail!Distance(w, v)
    BY DEF ParentInv, Rail!Distance
  <2>1. CASE v \in better
    <3>1. PICK w \in Anchors : w = u
      BY <1>3
    <3>2. parent'[v] = w /\ w \in Closed' /\ dist'[w] = dist[w]
      BY <2>1, <3>1, <1>8, <1>17
    <3>3. v \in Anchors /\ Rail!Adjacent(w, v)
      BY <2>1, <3>1, <1>4
    <3>4. Rail!Adjacent(w, v)'
      BY <3>3, <1>1, SameTrains
    <3>5. dist'[v] = dist[w] + Rail!Distance(w, v)
      BY <2>1, <3>1, <1>7, <1>8
    <3> QED
      BY <3>2, <3>4, <3>5
  <2>2. CASE v \notin better
    <3>1. v \in DOMAIN parent /\ parent'[v] = parent[v] /\ v \in DOMAIN dist /\ v \in Anchors
      BY <2>2, <1>8, <1>9, <1>14
    <3>2. PICK w \in Closed : /\ parent[v] = w /\ Rail!Adjacent(w, v)
                              /\ dist[v] = dist[w] + Rail!Distance(w, v)
      BY <3>1 DEF SearchInv, ParentInv
    <3>3. w \in Closed' /\ dist'[w] = dist[w] /\ w \in Anchors
      BY <3>2, <1>9, <1>16, <1>17
    <3>4. Rail!Adjacent(w, v)'
      BY <3>1, <3>2, <3>3, <1>1, SameTrains
    <3>5. dist'[v] = dist'[w] + Rail!Distance(w, v)
      BY <2>2, <3>1, <3>2, <3>3, <1>8
    <3> QED
      BY <3>1, <3>2, <3>3, <3>4, <3>5
  <2> QED
    BY <2>1, <2>2
<1> QED
  BY <1>15, <1>20, <1>21 DEF SearchInv

(* The length of a way is what its hops add up to.                          *)
LEMMA LengthIs ==
  ASSUME Rail!RailSpineAssumption, NEW m \in Nat \ {0}, NEW p \in [1..m -> Anchors]
  PROVE  \E g \in [1..m -> Nat] :
            /\ g[1] = 0
            /\ \A n \in 2..m : g[n] = g[n - 1] + Rail!Distance(p[n - 1], p[n])
            /\ Rail!Length(p) = g[m]
<1> DEFINE d == [n \in 1..m |-> IF n = 1 THEN 0 ELSE Rail!Distance(p[n - 1], p[n])]
           Adds(u) == u = [n \in 1..m |-> IF n = 1 THEN 0
                                          ELSE u[n - 1] + Rail!Distance(p[n - 1], p[n])]
<1>1. \A n \in 1..m : p[n] \in Int
  BY AnchorsAre
<1>2. \A n \in 2..m : n - 1 \in 1..m /\ n \in 1..m
  OBVIOUS
<1>3. \A n \in 2..m : Rail!Distance(p[n - 1], p[n]) \in Nat
  BY <1>1, <1>2, DistanceIs
<1>4. \A n \in 1..m : n = 1 \/ n \in 2..m
  OBVIOUS
<1>5. d \in [1..m -> Nat]
  BY <1>3, <1>4
<1>6. \A n \in 1..m : n # 1 => d[n] = Rail!Distance(p[n - 1], p[n])
  OBVIOUS
<1> HIDE DEF d
<1>7. PICK g \in [1..m -> Nat] :
        /\ \A n \in 1..m : g[n] = IF n = 1 THEN 0 ELSE g[n - 1] + d[n]
        /\ \A u : u = [n \in 1..m |-> IF n = 1 THEN 0 ELSE u[n - 1] + d[n]] => u = g
  BY <1>5, SumsAre
<1>8. \A u : [n \in 1..m |-> IF n = 1 THEN 0 ELSE u[n - 1] + d[n]] =
             [n \in 1..m |-> IF n = 1 THEN 0 ELSE u[n - 1] + Rail!Distance(p[n - 1], p[n])]
  BY <1>6
<1>9. \A u : Adds(u) => u = g
  BY <1>7, <1>8
<1>10. Adds(g)
  <2>1. g = [n \in 1..m |-> IF n = 1 THEN 0 ELSE g[n - 1] + d[n]]
    BY <1>7
  <2> QED
    BY <2>1, <1>8
<1>11. Len(p) = m
  OBVIOUS
<1> DEFINE upTo == CHOOSE u : Adds(u)
<1>12. upTo = g
  <2> HIDE DEF Adds
  <2> QED
    BY <1>9, <1>10
<1>13. Rail!Length(p) = upTo[m]
  BY <1>11 DEF Rail!Length
<1> HIDE DEF upTo
<1>14. \A n \in 2..m : g[n] = g[n - 1] + Rail!Distance(p[n - 1], p[n])
  BY <1>2, <1>6, <1>7
<1>15. g[1] = 0
  BY <1>4, <1>7
<1> QED
  BY <1>12, <1>13, <1>14, <1>15

Traced(u, w) == IF u \in DOMAIN parent THEN Append(w, u) ELSE <<u>>

(* Going back by the parents comes to an end.                               *)
LEMMA TraceIs ==
  ASSUME Rail!RailSpineAssumption, SearchInv
  PROVE  \E g : /\ g = [u \in DOMAIN dist |-> IF u \in DOMAIN parent
                                               THEN Append(g[parent[u]], u) ELSE <<u>>]
                /\ \A v \in DOMAIN dist : Rail!Back(v) = g[v]
<1> DEFINE D == DOMAIN dist
           Known(k) == {u \in D : dist[u] < k}
           Row(g, k) == \A u \in Known(k) : g[u] = Traced(u, g[parent[u]])
           Rows(k) == \E g : Row(g, k)
           Bad == {k \in Nat : ~Rows(k)}
<1>1. \A u \in D : dist[u] \in Nat
  BY DEF SearchInv, SearchTyped
<1>2. \A u \in DOMAIN parent : u \in D /\ parent[u] \in D /\ dist[parent[u]] < dist[u]
  <2> TAKE u \in DOMAIN parent
  <2>1. PICK w \in Closed : /\ parent[u] = w /\ Rail!Adjacent(w, u)
                            /\ dist[u] = dist[w] + Rail!Distance(w, u)
    BY DEF SearchInv, ParentInv
  <2>2. u \in D /\ w \in D /\ D \subseteq Anchors
    BY DEF SearchInv, SearchTyped, Closed
  <2>3. w # u
    BY <2>1 DEF Rail!Adjacent
  <2>4. Rail!Distance(w, u) \in Nat /\ Rail!Distance(w, u) > 0
    BY <2>2, <2>3, AnchorsAre, DistanceIs
  <2> QED
    BY <2>1, <2>2, <2>4, <1>1
<1>3. Rows(0)
  BY <1>1
<1>4. ASSUME NEW k \in Nat, Rows(k)  PROVE Rows(k + 1)
  <2>1. PICK g : Row(g, k)
    BY <1>4
  <2> DEFINE h == [u \in D |-> IF u \in Known(k) THEN g[u] ELSE Traced(u, g[parent[u]])]
  <2>2. ASSUME NEW u \in Known(k + 1)  PROVE h[u] = Traced(u, h[parent[u]])
    <3>1. u \in D /\ h[u] = Traced(u, g[parent[u]])
      BY <2>1
    <3>2. ASSUME u \in DOMAIN parent  PROVE parent[u] \in D /\ h[parent[u]] = g[parent[u]]
      <4>1. parent[u] \in Known(k)
        BY <3>2, <1>1, <1>2
      <4> QED
        BY <4>1
    <3> QED
      BY <3>1, <3>2 DEF Traced
  <2> QED
    BY <2>2
<1>5. \A k \in Nat : k \in Bad <=> ~Rows(k)
  OBVIOUS
<1>6. Bad \in SUBSET Nat
  OBVIOUS
<1> HIDE DEF Bad, Rows
<1>7. Bad = {}
  <2> SUFFICES ASSUME Bad # {} PROVE FALSE
    OBVIOUS
  <2>1. PICK k \in Bad : \A j \in Bad : k <= j
    BY <1>6, LeastNat
  <2>2. k \in Nat /\ k # 0
    BY <2>1, <1>3, <1>5, <1>6
  <2>3. k - 1 \in Nat /\ ~(k <= k - 1) /\ (k - 1) + 1 = k
    BY <2>2
  <2>4. Rows(k - 1)
    BY <2>1, <2>3, <1>5
  <2> QED
    BY <2>1, <2>2, <2>3, <2>4, <1>4, <1>5
<1>8. PICK K \in Nat : \A u \in D : dist[u] < K
  <2> DEFINE Far == {dist[u] : u \in D}
             f == [u \in D |-> dist[u]]
  <2>1. IsFiniteSet(D)
    BY AnchorsAre, FS_Subset DEF SearchInv, SearchTyped
  <2>2. f \in Surjection(D, Far)
    BY DEF Surjection
  <2>3. IsFiniteSet(Far)
    <3> HIDE DEF Far, f, D
    <3> QED BY <2>1, <2>2, FS_Surjection
  <2>4. Far \in SUBSET Int
    BY <1>1
  <2>5. PICK lo, hi \in Int : \A x \in Far : lo <= x /\ x <= hi
    <3> HIDE DEF Far
    <3> QED BY <2>3, <2>4, FiniteBounds
  <2>6. \A u \in D : dist[u] <= hi
    BY <2>5
  <2> DEFINE K == IF hi < 0 THEN 0 ELSE hi + 1
  <2>7. K \in Nat /\ \A u \in D : dist[u] < K
    BY <2>6, <1>1
  <2> QED
    BY <2>7
<1>9. PICK g : Row(g, K)
  BY <1>5, <1>7 DEF Rows
<1> DEFINE h == [u \in D |-> g[u]]
<1>10. \A u \in D : h[u] = Traced(u, h[parent[u]])
  <2> TAKE u \in D
  <2>1. h[u] = Traced(u, g[parent[u]])
    BY <1>8, <1>9
  <2>2. u \in DOMAIN parent => h[parent[u]] = g[parent[u]]
    BY <1>2
  <2> QED
    BY <2>1, <2>2 DEF Traced
<1>11. DOMAIN h = D /\ h = [u \in D |-> h[u]]
  OBVIOUS
<1> HIDE DEF h
<1> DEFINE Goes(q) == q = [u \in DOMAIN dist |-> IF u \in DOMAIN parent
                                THEN Append(q[parent[u]], u) ELSE <<u>>]
<1>12. Goes(h)
  BY <1>10, <1>11 DEF Traced
<1> DEFINE path == CHOOSE q : Goes(q)
<1>13. Goes(path)
  <2> HIDE DEF Goes
  <2> QED
    BY <1>12
<1>14. \A v \in DOMAIN dist : Rail!Back(v) = path[v]
  BY DEF Rail!Back
<1> HIDE DEF path
<1> QED
  BY <1>13, <1>14

(* The way back is a chain of trains, as long as the distance says.         *)
ChainTo(p, u) ==
    /\ p \in Seq(Anchors) /\ Len(p) >= 1 /\ p[1] = src /\ p[Len(p)] = u
    /\ \A n \in 1..Len(p) : p[n] \in DOMAIN dist
    /\ \A n \in 2..Len(p) : /\ Rail!Adjacent(p[n - 1], p[n])
                            /\ dist[p[n]] = dist[p[n - 1]] + Rail!Distance(p[n - 1], p[n])

LEMMA BackIsChain ==
  ASSUME Rail!RailSpineAssumption, AskTyped, SearchInv, NEW v \in DOMAIN dist
  PROVE  ChainTo(Rail!Back(v), v)
<1>1. PICK g : /\ g = [u \in DOMAIN dist |-> IF u \in DOMAIN parent
                                               THEN Append(g[parent[u]], u) ELSE <<u>>]
               /\ \A u \in DOMAIN dist : Rail!Back(u) = g[u]
  BY TraceIs
<1>2. \A u \in DOMAIN dist : g[u] = IF u \in DOMAIN parent THEN Append(g[parent[u]], u) ELSE <<u>>
  <2> TAKE u \in DOMAIN dist
  <2> DEFINE q == g
             w == [x \in DOMAIN dist |-> IF x \in DOMAIN parent
                                               THEN Append(q[parent[x]], x) ELSE <<x>>]
  <2>1. w[u] = IF u \in DOMAIN parent THEN Append(q[parent[u]], u) ELSE <<u>>
    <3> HIDE DEF q
    <3> QED OBVIOUS
  <2>2. q = w
    BY <1>1
  <2> HIDE DEF w
  <2> QED
    BY <2>1, <2>2
<1>3. \A u \in DOMAIN dist : dist[u] \in Nat /\ u \in Anchors
  BY DEF SearchInv, SearchTyped
<1>4. \A u \in DOMAIN dist : u = src \/ u \in DOMAIN parent
  BY DEF SearchInv, SearchTyped
<1>5. \A u \in DOMAIN parent : \E w \in DOMAIN dist :
        /\ parent[u] = w /\ Rail!Adjacent(w, u) /\ dist[u] = dist[w] + Rail!Distance(w, u)
        /\ dist[w] < dist[u]
  <2> TAKE u \in DOMAIN parent
  <2>1. PICK w \in Closed : /\ parent[u] = w /\ Rail!Adjacent(w, u)
                            /\ dist[u] = dist[w] + Rail!Distance(w, u)
    BY DEF SearchInv, ParentInv
  <2>2. u \in DOMAIN dist /\ w \in DOMAIN dist
    BY DEF SearchInv, SearchTyped, Closed
  <2>3. w # u
    BY <2>1 DEF Rail!Adjacent
  <2>4. Rail!Distance(w, u) \in Nat /\ Rail!Distance(w, u) > 0
    BY <2>2, <2>3, <1>3, AnchorsAre, DistanceIs
  <2> QED
    BY <2>1, <2>2, <2>4, <1>3
<1>6. src \in DOMAIN dist /\ src \notin DOMAIN parent
  BY DEF SearchInv, SearchTyped
<1> DEFINE Good(u) == ChainTo(g[u], u)
<1>7. Good(src)
  <2>1. g[src] = <<src>>
    BY <1>2, <1>6
  <2> QED
    BY <2>1, <1>3, <1>6 DEF ChainTo
<1>8. ASSUME NEW u \in DOMAIN parent, NEW w \in DOMAIN dist, parent[u] = w, Rail!Adjacent(w, u),
             dist[u] = dist[w] + Rail!Distance(w, u), Good(w)
      PROVE  Good(u)
  <2> DEFINE p == g[w]
             q == g[u]
  <2>1. u \in DOMAIN dist /\ u \in Anchors
    BY <1>3 DEF SearchInv, SearchTyped
  <2>2. p \in Seq(Anchors) /\ Len(p) \in Nat /\ Len(p) >= 1 /\ p[1] = src /\ p[Len(p)] = w
        /\ \A n \in 1..Len(p) : p[n] \in DOMAIN dist
    BY <1>8 DEF ChainTo
  <2>3. q = Append(p, u)
    BY <1>2, <1>8, <2>1
  <2> HIDE DEF p, q
  <2>4. q \in Seq(Anchors) /\ Len(q) = Len(p) + 1 /\ q[Len(p) + 1] = u
        /\ \A n \in 1..Len(p) : q[n] = p[n]
    BY <2>1, <2>2, <2>3
  <2>5. \A n \in 1..Len(q) : q[n] \in DOMAIN dist
    BY <2>1, <2>2, <2>4
  <2>6. ASSUME NEW n \in 2..Len(q)
        PROVE  /\ Rail!Adjacent(q[n - 1], q[n])
               /\ dist[q[n]] = dist[q[n - 1]] + Rail!Distance(q[n - 1], q[n])
    <3>1. CASE n = Len(p) + 1
      <4>1. q[n - 1] = w /\ q[n] = u
        BY <2>2, <2>4, <3>1
      <4> QED
        BY <4>1, <1>8
    <3>2. CASE n # Len(p) + 1
      <4>1. n \in 2..Len(p) /\ n - 1 \in 1..Len(p) /\ n \in 1..Len(p)
        BY <2>2, <2>4, <3>2
      <4>2. q[n - 1] = p[n - 1] /\ q[n] = p[n]
        BY <2>4, <4>1
      <4>3. /\ Rail!Adjacent(p[n - 1], p[n])
            /\ dist[p[n]] = dist[p[n - 1]] + Rail!Distance(p[n - 1], p[n])
        BY <1>8, <4>1 DEF ChainTo, p
      <4> QED
        BY <4>2, <4>3
    <3> QED
      BY <3>1, <3>2
  <2>7. Len(q) >= 1 /\ q[1] = src /\ q[Len(q)] = u
    BY <2>2, <2>4
  <2>8. ChainTo(q, u)
    BY <2>4, <2>5, <2>6, <2>7 DEF ChainTo
  <2> QED
    BY <2>8 DEF q
<1> DEFINE Bad == {k \in Nat : \E u \in DOMAIN dist : dist[u] = k /\ ~Good(u)}
<1>9. \A k \in Nat : k \in Bad <=> \E u \in DOMAIN dist : dist[u] = k /\ ~Good(u)
  OBVIOUS
<1>10. Bad \in SUBSET Nat
  OBVIOUS
<1> HIDE DEF Bad, Good
<1>11. Bad = {}
  <2> SUFFICES ASSUME Bad # {} PROVE FALSE
    OBVIOUS
  <2>1. PICK k \in Bad : \A j \in Bad : k <= j
    BY <1>10, LeastNat
  <2>2. PICK u \in DOMAIN dist : dist[u] = k /\ ~Good(u)
    BY <2>1, <1>9, <1>10
  <2>3. u \in DOMAIN parent
    BY <2>2, <1>4, <1>7
  <2>4. PICK w \in DOMAIN dist :
        /\ parent[u] = w /\ Rail!Adjacent(w, u) /\ dist[u] = dist[w] + Rail!Distance(w, u)
        /\ dist[w] < dist[u]
    BY <2>3, <1>5
  <2>5. ~Good(w)
    BY <2>2, <2>3, <2>4, <1>8
  <2>6. dist[w] \in Nat /\ dist[w] \in Bad
    BY <2>5, <1>3, <1>9
  <2> QED
    BY <2>1, <2>2, <2>4, <2>6, <1>10
<1>12. Good(v)
  BY <1>3, <1>9, <1>11
<1> QED
  BY <1>1, <1>12 DEF Good

(* A row that never falls.                                                  *)
LEMMA RowGrows ==
  ASSUME NEW m \in Nat, NEW g \in [1..m -> Int], \A n \in 2..m : g[n - 1] <= g[n],
         NEW i \in 1..m
  PROVE  \A j \in i..m : g[i] <= g[j]
<1> DEFINE Up(j) == g[i] <= g[j]
           Bad == {j \in i..m : ~Up(j)}
<1>1. \A j \in i..m : j \in Bad <=> ~Up(j)
  OBVIOUS
<1>2. Bad \in SUBSET Nat /\ \A j \in Bad : j \in i..m
  OBVIOUS
<1>3. Up(i)
  OBVIOUS
<1>4. ASSUME NEW j \in i..m, j # i, Up(j - 1)  PROVE Up(j)
  <2>1. j \in 2..m /\ j \in 1..m /\ j - 1 \in 1..m
    BY <1>4
  <2>2. g[j - 1] <= g[j] /\ g[j - 1] \in Int /\ g[j] \in Int /\ g[i] \in Int
    BY <2>1
  <2> QED
    BY <1>4, <2>2
<1> HIDE DEF Bad, Up
<1>5. Bad = {}
  <2> SUFFICES ASSUME Bad # {} PROVE FALSE
    OBVIOUS
  <2>1. PICK j \in Bad : \A k \in Bad : j <= k
    BY <1>2, LeastNat
  <2>2. j \in i..m /\ j # i
    BY <2>1, <1>1, <1>2, <1>3
  <2>3. j - 1 \in i..m /\ ~(j <= j - 1)
    BY <2>2
  <2>4. Up(j - 1)
    BY <2>1, <2>3, <1>1
  <2> QED
    BY <2>1, <2>2, <2>4, <1>1, <1>4
<1> QED
  BY <1>1, <1>5 DEF Up

LEMMA PathIs ==
  ASSUME NEW n \in 1..Cardinality(Anchors), Rail!RailSpineAssumption, NEW p \in [1..n -> Anchors]
  PROVE  p \in Rail!RailPaths <=>
            /\ p[1] = src /\ p[n] = dst
            /\ \A k \in 2..n : Rail!Adjacent(p[k - 1], p[k])
<1>1. Rail!Cardinality(Anchors) = Cardinality(Anchors)
  BY Zenon DEF Rail!Cardinality, Cardinality
<1>2. n \in Nat /\ Len(p) = n
  BY AnchorsAre
<1>3. p \in UNION {[1..k -> Anchors] : k \in 1..Rail!Cardinality(Anchors)}
  BY <1>1
<1>4. p \in Rail!RailPaths <=>
            /\ p[1] = src /\ p[n] = dst
            /\ \A k \in 1..(n - 1) : Rail!Adjacent(p[k], p[k + 1])
  BY <1>2, <1>3 DEF Rail!RailPaths
<1>5. \A k \in 1..(n - 1) : k + 1 \in 2..n /\ (k + 1) - 1 = k
  BY <1>2
<1>6. \A k \in 2..n : k - 1 \in 1..(n - 1) /\ (k - 1) + 1 = k
  BY <1>2
<1> QED
  BY <1>4, <1>5, <1>6

LEMMA PathsAre ==
  ASSUME NEW p \in Rail!RailPaths
  PROVE  \E n \in 1..Cardinality(Anchors) : p \in [1..n -> Anchors]
<1>1. Rail!Cardinality(Anchors) = Cardinality(Anchors)
  BY Zenon DEF Rail!Cardinality, Cardinality
<1> QED
  BY <1>1 DEF Rail!RailPaths

(* Every way to the goal leaves what is done with, where it is at least as  *)
(* long as an open anchor is far.                                           *)
LEMMA WaysLeave ==
  ASSUME Rail!RailSpineAssumption, SearchInv, NEW p \in Rail!RailPaths
  PROVE  \E v \in Open : dist[v] <= Rail!Length(p) /\ dist[v] \in Nat
<1>1. PICK m \in 1..Cardinality(Anchors) : p \in [1..m -> Anchors]
  BY PathsAre
<1>2. m \in Nat \ {0} /\ m \in 1..m /\ 1 \in 1..m
  BY AnchorsAre
<1>3. /\ p[1] = src /\ p[m] = dst
      /\ \A k \in 2..m : Rail!Adjacent(p[k - 1], p[k])
  BY <1>1, PathIs
<1>4. PICK g \in [1..m -> Nat] :
            /\ g[1] = 0
            /\ \A n \in 2..m : g[n] = g[n - 1] + Rail!Distance(p[n - 1], p[n])
            /\ Rail!Length(p) = g[m]
  BY <1>1, <1>2, LengthIs
<1>5. \A n \in 2..m : n - 1 \in 1..m /\ n \in 1..m
  BY <1>2
<1>6. \A n \in 2..m : Rail!Distance(p[n - 1], p[n]) \in Nat
  BY <1>1, <1>5, AnchorsAre, DistanceIs
<1>7. \A n \in 2..m : g[n - 1] <= g[n]
  <2> TAKE n \in 2..m
  <2>1. g[n - 1] \in Nat /\ g[n] = g[n - 1] + Rail!Distance(p[n - 1], p[n])
    BY <1>4, <1>5
  <2> QED
    BY <2>1, <1>6
<1>8. \A k \in 1..m : g[k] <= g[m]
  <2> TAKE k \in 1..m
  <2>1. g \in [1..m -> Int] /\ m \in k..m
    BY <1>2
  <2> QED
    BY <2>1, <1>7, <1>2, RowGrows
<1>9. \A v \in DOMAIN dist : dist[v] \in Nat
  BY DEF SearchInv, SearchTyped
<1> DEFINE Known(k) == p[k] \in DOMAIN dist /\ dist[p[k]] <= g[k]
           Left == {k \in 1..m : p[k] \notin Closed}
<1>10. m \in Left
  BY <1>2, <1>3 DEF SearchInv, ClosedInv
<1>11. PICK k \in Left : \A j \in Left : k <= j
  <2>1. Left \in SUBSET Nat
    OBVIOUS
  <2> HIDE DEF Left
  <2> QED
    BY <2>1, <1>10, LeastNat
<1>12. k \in 1..m /\ p[k] \notin Closed /\ \A j \in 1..m : j < k => p[j] \in Closed
  BY <1>11
<1> DEFINE Bad == {j \in 1..k : ~Known(j)}
<1>13. \A j \in 1..k : j \in Bad <=> ~Known(j)
  OBVIOUS
<1>14. Bad \in SUBSET Nat /\ \A j \in Bad : j \in 1..k
  BY <1>12
<1>15. Known(1)
  BY <1>3, <1>4 DEF SearchInv, SearchTyped
<1>16. ASSUME NEW j \in 2..k, Known(j - 1)  PROVE Known(j)
  <2>1. j \in 2..m /\ j - 1 \in 1..m /\ j - 1 < k /\ j \in 1..m
    BY <1>12
  <2>2. p[j - 1] \in Closed /\ Rail!Adjacent(p[j - 1], p[j]) /\ p[j] \in Anchors
    BY <2>1, <1>1, <1>3, <1>12
  <2>3. p[j] \in DOMAIN dist /\ dist[p[j]] <= dist[p[j - 1]] + Rail!Distance(p[j - 1], p[j])
    BY <2>2 DEF SearchInv, ClosedInv
  <2>4. dist[p[j - 1]] \in Nat /\ dist[p[j]] \in Nat /\ dist[p[j - 1]] <= g[j - 1]
    BY <2>3, <1>16, <1>9
  <2>5. g[j] = g[j - 1] + Rail!Distance(p[j - 1], p[j]) /\ g[j - 1] \in Nat
        /\ Rail!Distance(p[j - 1], p[j]) \in Nat
    BY <2>1, <1>4, <1>6
  <2> QED
    BY <2>3, <2>4, <2>5, SMTT(30)
<1> HIDE DEF Bad, Known, Left
<1>17. Bad = {}
  <2> SUFFICES ASSUME Bad # {} PROVE FALSE
    OBVIOUS
  <2>1. PICK j \in Bad : \A i \in Bad : j <= i
    BY <1>14, LeastNat
  <2>2. j \in 2..k
    BY <2>1, <1>12, <1>13, <1>14, <1>15
  <2>3. j - 1 \in 1..k /\ ~(j <= j - 1)
    BY <2>2, <1>12
  <2>4. Known(j - 1)
    BY <2>1, <2>3, <1>13
  <2> QED
    BY <2>1, <2>2, <2>4, <1>13, <1>14, <1>16
<1>18. p[k] \in DOMAIN dist /\ dist[p[k]] <= g[k]
  <2>1. k \in 1..k
    BY <1>12
  <2> QED
    BY <2>1, <1>13, <1>17 DEF Known
<1>19. p[k] \in Open
  BY <1>12, <1>18 DEF Closed
<1>20. dist[p[k]] <= g[m] /\ dist[p[k]] \in Nat
  BY <1>2, <1>4, <1>8, <1>9, <1>12, <1>18
<1> QED
  BY <1>4, <1>19, <1>20

(* A train that calls near both ends is a direct service.                   *)
LEMMA HopIsDirect ==
  ASSUME Rail!RailSpineAssumption, AskTyped, NEW a \in Anchors, NEW b \in Anchors,
         Rail!AnchorRoutes(a) \cap Rail!AnchorRoutes(b) # {}
  PROVE  Rail!DirectService(a, b)
<1>1. ASSUME NEW s \in Stations, NEW r \in Rail!StationRoutes(s)
      PROVE  Rail!Cardinality(serves[s]) >= 1
  <2>1. serves[s] \in SUBSET Routes /\ r \in serves[s]
    BY <1>1 DEF AskTyped, Rail!RailSpineAssumption, Rail!StationRoutes
  <2>2. IsFiniteSet(Routes)
    BY Zenon DEF Rail!RailSpineAssumption, Rail!IsFiniteSet, IsFiniteSet
  <2>3. IsFiniteSet(serves[s])
    BY <2>1, <2>2, FS_Subset
  <2>4. Cardinality(serves[s]) \in Nat /\ Cardinality(serves[s]) # 0
    BY <2>1, <2>3, FS_CardinalityType, FS_EmptySet
  <2>5. Cardinality(serves[s]) >= 1
    BY <2>4
  <2> QED
    BY <2>5, Zenon DEF Rail!Cardinality, Cardinality
<1>2. ASSUME NEW x \in Anchors, NEW r \in Rail!AnchorRoutes(x)
      PROVE  Rail!StationsForAnchor(x) # {} /\ r \in Rail!UnionRoutes(x)
  <2>1. PICK s \in Stations : Rail!Distance(x, s) <= StationMax /\ r \in Rail!StationRoutes(s)
    BY <1>2 DEF Rail!AnchorRoutes
  <2>2. s \in Rail!StationsForAnchor(x)
    BY <2>1, <1>1 DEF Rail!StationsForAnchor
  <2> QED
    BY <2>1, <2>2 DEF Rail!UnionRoutes
<1>3. PICK r : r \in Rail!AnchorRoutes(a) /\ r \in Rail!AnchorRoutes(b)
  OBVIOUS
<1> QED
  BY <1>2, <1>3 DEF Rail!DirectService

LEMMA SamePaths ==
  ASSUME serves' = serves, src' = src, dst' = dst
  PROVE  Rail!RailPaths' = Rail!RailPaths
<1> DEFINE U == UNION {[1..n -> Anchors] : n \in 1..Rail!Cardinality(Anchors)}
           In(p) == /\ p[1] = src /\ p[Len(p)] = dst
                    /\ \A n \in 1..(Len(p) - 1) : Rail!Adjacent(p[n], p[n + 1])
<1>1. \A p : In(p)' <=> In(p)
  BY DEF Rail!Adjacent, Rail!Calls, Rail!AnchorRoutes, Rail!StationRoutes
<1>2. Rail!RailPaths = {p \in U : In(p)}
  BY Zenon DEF Rail!RailPaths
<1>3. Rail!RailPaths' = {p \in U : In(p)'}
  BY Zenon DEF Rail!RailPaths
<1> HIDE DEF U, In
<1> QED
  BY <1>1, <1>2, <1>3

(* What is to be said of the answer c.                                      *)
IsSpine(c) ==
    /\ c \in Rail!RailPaths
    /\ \A p \in Rail!RailPaths : Rail!Length(c) <= Rail!Length(p)

(* An answer with these two does.                                           *)
LEMMA AnswerIs ==
  ASSUME Rail!RailSpineAssumption, AskTyped, NEW c, chain' = c,
         serves' = serves, src' = src, dst' = dst,
         c = None => src = dst \/ Rail!RailPaths = {},
         c # None => IsSpine(c)
  PROVE  Rail!SpineIsShortest'
<1>1. Rail!RailPaths' = Rail!RailPaths
  BY SamePaths
<1>2. CASE c = None
  BY <1>1, <1>2 DEF Rail!SpineIsShortest
<1>3. CASE c # None
  <2>1. PICK n \in 1..Cardinality(Anchors) : c \in [1..n -> Anchors]
    BY <1>3, PathsAre DEF IsSpine
  <2>2. n \in Nat /\ Len(c) = n
    BY <2>1, AnchorsAre
  <2>3. \A k \in 1..(Len(c) - 1) : c[k] \in Anchors /\ c[k + 1] \in Anchors
    BY <2>1, <2>2
  <2>5. \A k \in 1..(Len(c) - 1) :
            Rail!AnchorRoutes(c[k]) \cap Rail!AnchorRoutes(c[k + 1]) # {}
                => Rail!DirectService(c[k], c[k + 1])
    BY <2>3, HopIsDirect
  <2>7. \A p \in Rail!RailPaths' : Rail!Length(c) <= Rail!Length(p)
    BY <1>1, <1>3 DEF IsSpine
  <2>8. c \in Rail!RailPaths'
    BY <1>1, <1>3 DEF IsSpine
  <2> QED
    <3>1. \A k \in 1..(Len(c) - 1) :
            (Rail!AnchorRoutes(c[k]) \cap Rail!AnchorRoutes(c[k + 1]) # {}
                => Rail!DirectService(c[k], c[k + 1]))'
      <4> TAKE k \in 1..(Len(c) - 1)
      <4> DEFINE Confirms(x, y) == Rail!AnchorRoutes(x) \cap Rail!AnchorRoutes(y) # {}
                                      => Rail!DirectService(x, y)
      <4>1. \A x, y : Confirms(x, y)' <=> Confirms(x, y)
        BY DEF Rail!AnchorRoutes, Rail!DirectService, Rail!StationRoutes,
           Rail!StationsForAnchor, Rail!UnionRoutes
      <4>2. Confirms(c[k], c[k + 1])
        BY <2>5
      <4> HIDE DEF Confirms
      <4>3. Confirms(c[k], c[k + 1])'
        BY <4>1, <4>2
      <4> QED
        BY <4>3 DEF Confirms
    <3> QED
      BY <1>3, <3>1, <2>7, <2>8 DEF Rail!SpineIsShortest
<1> QED
  BY <1>2, <1>3

LEMMA ArriveKeeps ==
  ASSUME Rail!RailSpineAssumption, AskTyped, SearchInv, Rail!Arrive
  PROVE  Rail!SpineIsShortest'
<1>1. PICK c : c = Rail!Back(dst)
  OBVIOUS
<1>2. /\ heap # {} /\ Rail!Top[2] = dst /\ chain' = c
      /\ serves' = serves /\ src' = src /\ dst' = dst
  BY <1>1 DEF Rail!Arrive, Rail!Return
<1>3. Rail!Top \in heap /\ \A e \in heap : Rail!Top[1] <= e[1]
  BY <1>2, TopIs DEF SearchInv, SearchTyped
<1>4. dst \in DOMAIN dist /\ dist[dst] <= Rail!Top[1] /\ Rail!Top[1] \in Nat
  BY <1>2, <1>3 DEF SearchInv, SearchTyped
<1>5. ChainTo(c, dst)
  BY <1>1, <1>4, BackIsChain
<1> DEFINE m == Len(c)
<1>6. /\ c \in [1..m -> Anchors] /\ m \in Nat \ {0} /\ c[1] = src /\ c[m] = dst
      /\ \A n \in 1..m : c[n] \in DOMAIN dist
      /\ \A n \in 2..m : /\ Rail!Adjacent(c[n - 1], c[n])
                         /\ dist[c[n]] = dist[c[n - 1]] + Rail!Distance(c[n - 1], c[n])
  BY <1>5 DEF ChainTo
<1> HIDE DEF m
<1>7. \A v \in DOMAIN dist : dist[v] \in Nat /\ v \in Anchors
  BY DEF SearchInv, SearchTyped
<1>8. \A n \in 2..m : n - 1 \in 1..m /\ n \in 1..m
  BY <1>6
<1>9. \A n \in 2..m : /\ Rail!Distance(c[n - 1], c[n]) \in Nat
                      /\ Rail!Distance(c[n - 1], c[n]) > 0
  <2> TAKE n \in 2..m
  <2>1. c[n - 1] \in Int /\ c[n] \in Int
    BY <1>6, <1>8, AnchorsAre
  <2>2. c[n - 1] # c[n]
    BY <1>6 DEF Rail!Adjacent
  <2> QED
    BY <2>1, <2>2, DistanceIs
(* No anchor comes twice.                                                   *)
<1>10. m <= Cardinality(Anchors)
  <2> DEFINE h == [n \in 1..m |-> dist[c[n]] - n]
  <2>1. h \in [1..m -> Int]
    BY <1>6, <1>7
  <2>2. \A n \in 2..m : h[n - 1] <= h[n]
    <3> TAKE n \in 2..m
    <3>1. h[n - 1] = dist[c[n - 1]] - (n - 1) /\ h[n] = dist[c[n]] - n
      BY <1>8
    <3>2. dist[c[n]] = dist[c[n - 1]] + Rail!Distance(c[n - 1], c[n]) /\ dist[c[n - 1]] \in Nat
      BY <1>6, <1>7, <1>8
    <3> HIDE DEF h
    <3> QED
      BY <3>1, <3>2, <1>9
  <2>3. \A i, j \in 1..m : i < j => c[i] # c[j]
    <3> SUFFICES ASSUME NEW i \in 1..m, NEW j \in 1..m, i < j PROVE c[i] # c[j]
      OBVIOUS
    <3>1. h[i] = dist[c[i]] - i /\ h[j] = dist[c[j]] - j
      OBVIOUS
    <3> HIDE DEF h
    <3>2. j \in i..m /\ m \in Nat
      BY <1>6
    <3>3. h[i] <= h[j]
      BY <2>1, <2>2, <3>2, RowGrows
    <3>4. dist[c[i]] \in Nat /\ dist[c[j]] \in Nat
      BY <1>6, <1>7
    <3> QED
      BY <3>1, <3>3, <3>4
  <2>4. \A i, j \in 1..m : c[i] = c[j] => i = j
    <3> SUFFICES ASSUME NEW i \in 1..m, NEW j \in 1..m, i # j PROVE c[i] # c[j]
      OBVIOUS
    <3>1. i < j \/ j < i
      OBVIOUS
    <3> QED
      BY <2>3, <3>1
  <2>5. c \in Injection(1..m, Anchors)
    BY <1>6, <2>4 DEF Injection, IsInjective
  <2>6. Cardinality(1..m) = m
    BY <1>6, FS_Interval
  <2> QED
    BY <2>5, <2>6, AnchorsAre, FS_Injection
<1>11. m \in 1..Cardinality(Anchors)
  BY <1>6, <1>10, AnchorsAre
<1>12. c \in Rail!RailPaths
  BY <1>6, <1>11, PathIs
(* It is as long as the goal is far.                                        *)
<1>13. Rail!Length(c) = dist[dst]
  <2>1. PICK g \in [1..m -> Nat] :
            /\ g[1] = 0
            /\ \A n \in 2..m : g[n] = g[n - 1] + Rail!Distance(c[n - 1], c[n])
            /\ Rail!Length(c) = g[m]
    BY <1>6, LengthIs
  <2> DEFINE Same(n) == g[n] = dist[c[n]]
             Bad == {n \in 1..m : ~Same(n)}
  <2>2. \A n \in 1..m : n \in Bad <=> ~Same(n)
    OBVIOUS
  <2>3. Bad \in SUBSET Nat /\ \A n \in Bad : n \in 1..m
    OBVIOUS
  <2>4. Same(1)
    BY <2>1, <1>6 DEF SearchInv, SearchTyped
  <2>5. ASSUME NEW n \in 2..m, Same(n - 1)  PROVE Same(n)
    BY <2>1, <2>5, <1>6
  <2> HIDE DEF Bad, Same
  <2>6. Bad = {}
    <3> SUFFICES ASSUME Bad # {} PROVE FALSE
      OBVIOUS
    <3>1. PICK n \in Bad : \A k \in Bad : n <= k
      BY <2>3, LeastNat
    <3>2. n \in 2..m
      BY <3>1, <2>2, <2>3, <2>4
    <3>3. n - 1 \in 1..m /\ ~(n <= n - 1)
      BY <3>2, <1>8
    <3>4. Same(n - 1)
      BY <3>1, <3>3, <2>2
    <3> QED
      BY <3>1, <3>2, <3>4, <2>2, <2>3, <2>5
  <2>7. Same(m)
    BY <2>2, <2>6, <1>6
  <2> QED
    BY <2>1, <2>7, <1>6 DEF Same
<1>14. ASSUME NEW p \in Rail!RailPaths  PROVE Rail!Length(c) <= Rail!Length(p)
  <2>1. PICK v \in Open : dist[v] <= Rail!Length(p) /\ dist[v] \in Nat
    BY WaysLeave
  <2>2. <<dist[v], v>> \in heap
    BY DEF Open
  <2>3. Rail!Top[1] <= dist[v]
    <3>1. <<dist[v], v>>[1] = dist[v]
      OBVIOUS
    <3> QED
      BY <2>2, <1>3, <3>1
  <2>4. Rail!Length(p) \in Nat
    <3>1. PICK k \in 1..Cardinality(Anchors) : p \in [1..k -> Anchors]
      BY PathsAre
    <3>2. k \in Nat \ {0} /\ k \in 1..k
      BY AnchorsAre
    <3> QED
      BY <3>1, <3>2, LengthIs
  <2> QED
    BY <2>1, <2>3, <2>4, <1>4, <1>7, <1>13
<1>15. c # None
  <2>1. None \notin [1..m -> Anchors]
    <3>1. Rail!Cardinality(Anchors) = Cardinality(Anchors)
      BY Zenon DEF Rail!Cardinality, Cardinality
    <3> QED
      BY <1>11, <3>1 DEF Rail!RailSpineAssumption
  <2> QED
    BY <2>1, <1>6
<1>16. IsSpine(c)
  BY <1>12, <1>14 DEF IsSpine
<1> QED
  BY <1>2, <1>15, <1>16, AnswerIs

LEMMA UnreachableKeeps ==
  ASSUME Rail!RailSpineAssumption, AskTyped, SearchInv, Rail!Unreachable
  PROVE  Rail!SpineIsShortest'
<1>1. heap = {} /\ chain' = None /\ serves' = serves /\ src' = src /\ dst' = dst
  BY DEF Rail!Unreachable, Rail!Return
<1>2. Open = {}
  BY <1>1 DEF Open
<1>3. Rail!RailPaths = {}
  BY <1>2, WaysLeave
<1> QED
  BY <1>1, <1>3, AnswerIs

(* Who is on a way is on the graph.                                         *)
LEMMA NotOnGraphKeeps ==
  ASSUME Rail!RailSpineAssumption, AskTyped, Rail!NotOnGraph
  PROVE  Rail!SpineIsShortest'
<1>1. /\ ~({src, dst} \subseteq Rail!OnGraph)
      /\ chain' = None /\ serves' = serves /\ src' = src /\ dst' = dst
  BY DEF Rail!NotOnGraph, Rail!Return
<1>2. ASSUME NEW p \in Rail!RailPaths, src # dst  PROVE FALSE
  <2>1. PICK m \in 1..Cardinality(Anchors) : p \in [1..m -> Anchors]
    BY PathsAre
  <2>2. p[1] = src /\ p[m] = dst /\ \A k \in 2..m : Rail!Adjacent(p[k - 1], p[k])
    BY <2>1, PathIs
  <2>3. m # 1 /\ m \in Nat
    BY <2>2, <1>2, AnchorsAre
  <2>4. Rail!Adjacent(p[1], p[2]) /\ Rail!Adjacent(p[m - 1], p[m])
        /\ p[2] \in Anchors /\ p[m - 1] \in Anchors
    <3>1. 2 \in 2..m /\ m \in 2..m /\ m - 1 \in 1..m /\ 2 \in 1..m /\ 2 - 1 = 1
      BY <2>1, <2>3
    <3> QED
      BY <2>1, <2>2, <3>1
  <2>5. Rail!Adjacent(dst, p[m - 1]) /\ Rail!Adjacent(src, p[2])
    BY <2>2, <2>4 DEF Rail!Adjacent
  <2> QED
    BY <2>4, <2>5, <1>1 DEF Rail!OnGraph, AskTyped
<1>3. src = dst \/ Rail!RailPaths = {}
  BY <1>2
<1> QED
  BY <1>1, <1>3, AnswerIs

LEMMA SameAnchorKeeps ==
  ASSUME Rail!RailSpineAssumption, AskTyped, Rail!SameAnchor
  PROVE  Rail!SpineIsShortest'
<1>1. PICK c : c = <<src>>
  OBVIOUS
<1>2. src = dst /\ chain' = c /\ serves' = serves /\ src' = src /\ dst' = dst /\ src \in Anchors
  BY <1>1 DEF Rail!SameAnchor, Rail!Return, AskTyped
<1>3. 1 \in 1..Cardinality(Anchors)
  <2>1. Cardinality(Anchors) # 0
    BY <1>2, AnchorsAre, FS_EmptySet
  <2> QED
    BY <2>1, AnchorsAre
<1>4. c \in [1..1 -> Anchors] /\ c[1] = src
  BY <1>1, <1>2
<1>5. c \in Rail!RailPaths
  <2>1. \A k \in 2..1 : Rail!Adjacent(c[k - 1], c[k])
    OBVIOUS
  <2>2. c[1] = dst
    BY <1>2, <1>4
  <2> QED
    BY <1>3, <1>4, <2>1, <2>2, PathIs
<1>6. Rail!Length(c) = 0
  <2>1. \E g \in [1..1 -> Nat] : g[1] = 0 /\ Rail!Length(c) = g[1]
    <3>1. 1 \in Nat \ {0}
      OBVIOUS
    <3> QED
      BY <1>4, <3>1, LengthIs
  <2> QED
    BY <2>1
<1>7. ASSUME NEW p \in Rail!RailPaths  PROVE Rail!Length(p) \in Nat
  <2>1. PICK k \in 1..Cardinality(Anchors) : p \in [1..k -> Anchors]
    BY PathsAre
  <2>2. k \in Nat \ {0} /\ k \in 1..k
    BY AnchorsAre
  <2> QED
    BY <2>1, <2>2, LengthIs
<1>8. IsSpine(c)
  BY <1>5, <1>6, <1>7 DEF IsSpine
<1> QED
  BY <1>2, <1>8, AnswerIs

\* RailSpine: whatever routes call at whatever stations, under whatever names, the
\* spine is a shortest chain of anchors joined by trains, none only when there is
\* no chain, and where two anchors share one feed's train the question for a
\* direct service says so too.
THEOREM SpinesAreShortest ==
  Rail!RailSpineAssumption => (Rail!Spec => []Rail!SpineIsShortest)
<1> SUFFICES ASSUME Rail!RailSpineAssumption
             PROVE  Rail!Spec => []Rail!SpineIsShortest
  OBVIOUS
<1>1. Rail!Init => RailInv
  <2> SUFFICES ASSUME Rail!Init PROVE RailInv
    OBVIOUS
  <2>1. pc = "ask" /\ AskTyped
    BY DEF Rail!Init, AskTyped, Rail!RailSpineAssumption
  <2> QED
    BY <2>1 DEF RailInv, Rail!SpineIsShortest
<1>2. RailInv /\ [Rail!Next]_(Rail!vars) => RailInv'
  <2> SUFFICES ASSUME RailInv, [Rail!Next]_(Rail!vars) PROVE RailInv'
    OBVIOUS
  <2>1. AskTyped /\ (pc = "search" => SearchInv)
    BY DEF RailInv
  <2>2. ASSUME pc' = "done", AskTyped', Rail!SpineIsShortest'  PROVE RailInv'
    BY <2>2 DEF RailInv
  <2>3. ASSUME pc' = "search", AskTyped', SearchInv'  PROVE RailInv'
    BY <2>3 DEF RailInv, Rail!SpineIsShortest
  <2>4. CASE Rail!NotOnGraph
    BY <2>1, <2>2, <2>4, NotOnGraphKeeps DEF Rail!NotOnGraph, Rail!Return, AskTyped
  <2>5. CASE Rail!SameAnchor
    BY <2>1, <2>2, <2>5, SameAnchorKeeps DEF Rail!SameAnchor, Rail!Return, AskTyped
  <2>6. CASE Rail!Start
    BY <2>1, <2>3, <2>6, StartKeeps DEF Rail!Start, AskTyped
  <2>7. CASE Rail!Arrive
    BY <2>1, <2>2, <2>7, ArriveKeeps DEF Rail!Arrive, Rail!Return, AskTyped
  <2>8. CASE Rail!PopStale
    BY <2>1, <2>3, <2>8, PopKeeps DEF Rail!PopStale, AskTyped
  <2>9. CASE Rail!Relax
    BY <2>1, <2>3, <2>9, RelaxKeeps DEF Rail!Relax, AskTyped
  <2>10. CASE Rail!Unreachable
    BY <2>1, <2>2, <2>10, UnreachableKeeps DEF Rail!Unreachable, Rail!Return, AskTyped
  <2>11. CASE UNCHANGED Rail!vars
    <3>1. UNCHANGED <<pc, serves, src, dst, heap, dist, parent, chain>>
      BY <2>11 DEF Rail!vars
    <3>2. AskTyped'
      BY <2>1, <3>1 DEF AskTyped
    <3>3. ASSUME SearchInv  PROVE SearchInv'
      <4>1. Open' = Open /\ Closed' = Closed
        BY <3>1 DEF Open, Closed
      <4>2. SearchTyped'
        BY <3>1, <3>3 DEF SearchInv, SearchTyped
      <4>3. \A u \in Closed : u \in Anchors
        BY <3>3 DEF Closed, SearchInv, SearchTyped
      <4>4. ClosedInv'
        BY <3>1, <3>3, <4>1, <4>3, SameTrains DEF SearchInv, ClosedInv, Rail!Distance
      <4>5. \A v \in DOMAIN parent : v \in Anchors
        BY <3>3 DEF SearchInv, SearchTyped
      <4>6. ParentInv'
        BY <3>1, <3>3, <4>1, <4>3, <4>5, SameTrains DEF SearchInv, ParentInv, Rail!Distance
      <4> QED
        BY <4>2, <4>4, <4>6 DEF SearchInv
    <3>4. Rail!SpineIsShortest'
      <4>1. CASE pc = "done"
        <5>1. PICK c : c = chain
          OBVIOUS
        <5>2. /\ c = None => src = dst \/ Rail!RailPaths = {}
              /\ c # None => IsSpine(c)
          BY <4>1, <5>1 DEF RailInv, Rail!SpineIsShortest, IsSpine
        <5> QED
          BY <2>1, <3>1, <5>1, <5>2, AnswerIs
      <4>2. CASE pc # "done"
        BY <3>1, <4>2 DEF Rail!SpineIsShortest
      <4> QED
        BY <4>1, <4>2
    <3> QED
      BY <2>1, <3>1, <3>2, <3>3, <3>4 DEF RailInv
  <2> QED
    BY <2>4, <2>5, <2>6, <2>7, <2>8, <2>9, <2>10, <2>11 DEF Rail!Next
<1>3. RailInv => Rail!SpineIsShortest
  BY DEF RailInv
<1> QED
  BY <1>1, <1>2, <1>3, PTL DEF Rail!Spec

---------------------------------------------------------------------------
(***************************************************************************)
(* RoadCost: what a full run leaves in its columns, whatever the edges,    *)
(* profiles and elevations, and however many runs were killed before.      *)
(***************************************************************************)
CONSTANTS Priceable, Longitude, Surveys, Tanh(_), Asked, TILE_SIZE, MaxKills, MaxRuns
VARIABLES profile, tiles, column, elev, current, kills, runs
Price == INSTANCE RoadCost WITH Edges <- Priceable, Place <- Longitude

\* Where a run stands: an edge is at its price or in a tile that is left.
TilesLeft ==
    pc = "tiles" =>
        /\ profile \in Asked
        /\ \A e \in Priceable : Price!Priced(e, profile) # None =>
                \/ column[profile][e] = Price!Priced(e, profile)
                \/ \E t \in tiles : e \in Price!EdgesOf(t)

ColumnsInv ==
    /\ pc \in {"idle", "tiles"}
    /\ \E V : column \in [Asked -> [Priceable -> V]]
    /\ current \subseteq Asked
    /\ TilesLeft
    /\ Price!ColumnsArePriced

(* Whole parts, and what is left of a number.                               *)
LEMMA WholeParts ==
  ASSUME NEW a \in Int, NEW s \in Nat, s > 0
  PROVE  /\ a \div s \in Int /\ a % s \in 0..(s - 1)
         /\ a = (a \div s) * s + (a % s)
<1>1. a \div s \in Int
  OBVIOUS
<1>2. a % s \in 0..(s - 1)
  OBVIOUS
<1>3. a = (a \div s) * s + (a % s)
  OBVIOUS
<1> QED
  BY <1>1, <1>2, <1>3

LEMMA PartsInOrder ==
  ASSUME NEW q \in Int, NEW n \in Int, NEW s \in Nat, q * s < n * s
  PROVE  q < n
<1>1. SUFFICES ASSUME n <= q PROVE FALSE
  OBVIOUS
<1>2. PICK d \in Nat : q = n + d
  BY <1>1
<1>3. q * s = n * s + d * s
  BY <1>2
<1>4. d * s \in Nat
  OBVIOUS
<1> QED
  BY <1>3, <1>4

LEMMA NothingLeft ==
  ASSUME NEW k \in Int, NEW s \in Nat, s > 0
  PROVE  (k * s) % s = 0
<1> DEFINE q == (k * s) \div s
           r == (k * s) % s
<1>1. q \in Int /\ r \in 0..(s - 1) /\ k * s = q * s + r
  <2>1. k * s \in Int
    OBVIOUS
  <2> QED
    BY <2>1, WholeParts
<1> HIDE DEF q, r
<1>2. (k - q) * s = r /\ k - q \in Int
  <2>1. (k - q) * s = k * s - q * s
    BY <1>1
  <2> QED
    BY <2>1, <1>1
<1>3. ~(r > 0)
  <2> SUFFICES ASSUME r > 0 PROVE FALSE
    OBVIOUS
  <2>1. 0 * s < (k - q) * s /\ (k - q) * s < 1 * s
    BY <1>1, <1>2
  <2>2. 0 < k - q /\ k - q < 1
    BY <2>1, <1>2, PartsInOrder
  <2> QED
    BY <2>2, <1>2
<1> QED
  BY <1>1, <1>3 DEF r

LEMMA GreatestOf ==
  ASSUME NEW T \in SUBSET Nat, IsFiniteSet(T), T # {}
  PROVE  \E x \in T : \A y \in T : y <= x
<1> DEFINE Has(U) == \E x \in U : \A y \in U : y <= x
           Bad == {k \in Nat : \E U \in SUBSET T : Cardinality(U) = k /\ U # {} /\ ~Has(U)}
<1>1. ASSUME NEW k \in Bad, \A j \in Bad : k <= j  PROVE FALSE
  <2>1. PICK U \in SUBSET T : Cardinality(U) = k /\ U # {} /\ ~Has(U)
    OBVIOUS
  <2>2. PICK u \in U : TRUE
    BY <2>1
  <2>3. IsFiniteSet(U) /\ IsFiniteSet(U \ {u})
    BY FS_Subset
  <2>4. Cardinality(U \ {u}) = k - 1 /\ Cardinality(U \ {u}) \in Nat
    BY <2>1, <2>3, FS_RemoveElement, FS_CardinalityType
  <2>5. U \ {u} # {} => Has(U \ {u})
    <3>1. k \in Nat /\ ~(k <= k - 1)
      OBVIOUS
    <3>2. k - 1 \notin Bad
      BY <1>1, <3>1
    <3> QED
      BY <2>4, <3>2
  <2>6. U \ {u} = {} => U = {u}
    BY <2>2
  <2>7. \A y \in U : y \in Nat /\ (y = u \/ y \in U \ {u})
    OBVIOUS
  <2>8. Has(U)
    BY <2>2, <2>5, <2>6, <2>7
  <2> QED
    BY <2>1, <2>8
<1>2. Bad = {}
  <2>1. Bad \in SUBSET Nat
    OBVIOUS
  <2> HIDE DEF Bad
  <2> QED
    BY <1>1, <2>1, LeastNat
<1>3. Cardinality(T) \in Nat
  BY FS_CardinalityType
<1> QED
  BY <1>2, <1>3

(* Every edge lies in a tile.                                               *)
LEMMA TilesCover ==
  ASSUME Price!RoadCostAssumption, Price!NoneOnTheRim, NEW e \in Priceable
  PROVE  \E t \in Price!IterTiles : e \in Price!EdgesOf(t)
<1> DEFINE lon == Price!Range(Longitude)
           S == TILE_SIZE
           west == Price!Min(lon)
           east == Price!Max(lon)
           first == (west \div S) * S
           count == (east - first + S - 1) \div S
           x == Longitude[e.src]
           i == (x - first) \div S
           t == first + i * S
<1>1. S \in Nat /\ S > 0 /\ lon \in SUBSET Nat /\ IsFiniteSet(lon) /\ x \in lon
  <2>1. /\ S \in Nat \ {0} /\ e.src \in DOMAIN Longitude
        /\ Longitude \in [DOMAIN Longitude -> Nat] /\ Price!IsFiniteSet(DOMAIN Longitude)
    BY DEF Price!RoadCostAssumption
  <2>2. IsFiniteSet(DOMAIN Longitude)
    BY <2>1, Zenon DEF Price!IsFiniteSet, IsFiniteSet
  <2>3. lon = {Longitude[v] : v \in DOMAIN Longitude}
    BY DEF Price!Range
  <2>4. Longitude \in Surjection(DOMAIN Longitude, lon)
    BY <2>1, <2>3 DEF Surjection
  <2>5. IsFiniteSet(lon)
    BY <2>2, <2>4, FS_Surjection
  <2> QED
    BY <2>1, <2>3, <2>5
<1> HIDE DEF S, lon
<1>2. west \in lon /\ \A y \in lon : west <= y
  <2>1. \E z \in lon : \A y \in lon : z <= y
    BY <1>1, LeastNat
  <2> QED
    BY <2>1 DEF Price!Min
<1>3. east \in lon /\ \A y \in lon : y <= east
  <2>1. PICK z \in lon : \A y \in lon : y <= z
    BY <1>1, GreatestOf
  <2>2. \A y \in lon : z >= y
    BY <2>1, <1>1
  <2>3. east \in lon /\ \A y \in lon : east >= y
    BY <2>2 DEF Price!Max
  <2> QED
    BY <2>3, <1>1
<1>4. west \in Nat /\ east \in Nat /\ x \in Nat /\ west <= x /\ x <= east
  BY <1>1, <1>2, <1>3
<1>5. east % S # 0
  BY DEF Price!NoneOnTheRim, S, lon
<1> HIDE DEF x, west, east
<1>6. PICK w \in Int : w = west \div S
  BY <1>1, <1>4, WholeParts
<1>7. first = w * S /\ first \in Int /\ first <= west
  <2>1. west = w * S + (west % S) /\ west % S \in 0..(S - 1)
    BY <1>1, <1>4, <1>6, WholeParts
  <2>2. first = w * S
    BY <1>6
  <2>3. w * S \in Int
    BY <1>1
  <2> HIDE DEF first
  <2> QED
    BY <2>1, <2>2, <2>3, <1>1, <1>4
<1> HIDE DEF first
<1>8. i \in Int /\ i * S <= x - first /\ x - first < i * S + S
  <2>1. x - first \in Int
    BY <1>4, <1>7
  <2>2. i \in Int /\ x - first = i * S + ((x - first) % S) /\ (x - first) % S \in 0..(S - 1)
    BY <2>1, <1>1, WholeParts
  <2> HIDE DEF i
  <2> QED
    BY <2>1, <2>2, <1>1
<1>9. count \in Int /\ east - first <= count * S
  <2>1. east - first + S - 1 \in Int
    BY <1>1, <1>4, <1>7
  <2>2. /\ count \in Int /\ (east - first + S - 1) % S \in 0..(S - 1)
        /\ east - first + S - 1 = count * S + ((east - first + S - 1) % S)
    BY <2>1, <1>1, WholeParts
  <2> HIDE DEF count
  <2> QED
    BY <2>1, <2>2, <1>1, <1>4, <1>7
<1> HIDE DEF i, count
<1>10. i >= 0
  <2>1. (-1) * S < i * S
    BY <1>1, <1>4, <1>7, <1>8
  <2>2. -1 < i
    BY <2>1, <1>1, <1>8, PartsInOrder
  <2> QED
    BY <2>2, <1>8
<1>11. i < count
  <2>1. i * S \in Int /\ count * S \in Int /\ i * S <= east - first
    BY <1>1, <1>4, <1>7, <1>8, <1>9
  <2>2. ASSUME i * S = count * S  PROVE FALSE
    <3>1. east = first + i * S
      BY <2>1, <2>2, <1>4, <1>7, <1>9
    <3>2. east = (w + i) * S
      BY <3>1, <1>7, <1>1, <1>8
    <3>3. w + i \in Int
      BY <1>8
    <3> QED
      BY <3>2, <3>3, <1>1, <1>5, NothingLeft
  <2>3. i * S < count * S
    BY <2>1, <2>2, <1>4, <1>7, <1>9
  <2> QED
    BY <2>3, <1>1, <1>8, <1>9, PartsInOrder
<1>12. e \in Price!EdgesOf(t)
  <2>1. Longitude[e.src] >= t /\ Longitude[e.src] < t + TILE_SIZE
    BY <1>1, <1>4, <1>7, <1>8 DEF x, S
  <2> HIDE DEF t
  <2> QED
    BY <2>1 DEF Price!EdgesOf
<1>13. t \in {first + j * S : j \in 0..(count - 1)}
  BY <1>8, <1>9, <1>10, <1>11
<1> HIDE DEF t
<1>14. t \in Price!IterTiles
  BY <1>12, <1>13 DEF Price!IterTiles, first, count, west, east, lon, S
<1> QED
  BY <1>12, <1>14

\* Prices depend on the elevations alone.
LEMMA PricesStay ==
  ASSUME elev' = elev
  PROVE  \A e, p : Price!Priced(e, p)' = Price!Priced(e, p)
<1>1. \A e : Price!GradeOf(e)' = Price!GradeOf(e)
  BY DEF Price!GradeOf
<1> QED
  BY <1>1 DEF Price!Priced

LEMMA PricingBegins ==
  ASSUME Price!Init
  PROVE  ColumnsInv
<1>1. column \in [Asked -> [Priceable -> {None}]]
  BY DEF Price!Init
<1>2. \E V : column \in [Asked -> [Priceable -> V]]
  BY <1>1
<1> QED
  BY <1>2 DEF Price!Init, ColumnsInv, TilesLeft, Price!ColumnsArePriced

LEMMA OtherStepsKeep ==
  ASSUME Price!RoadCostAssumption, Price!NoneOnTheRim, ColumnsInv,
         \/ Price!Recompute \/ Price!Done \/ Price!Kill \/ Price!IngestDem \/ UNCHANGED Price!vars
  PROVE  ColumnsInv'
<1>1. column' = column
  BY DEF Price!Recompute, Price!Done, Price!Kill, Price!IngestDem, Price!vars
<1>2. CASE Price!Recompute
  <2>1. pc' = "tiles" /\ profile' \in Asked /\ tiles' = Price!IterTiles /\ elev' = elev /\ current' = current
    BY <1>2 DEF Price!Recompute
  <2>2. TilesLeft'
    <3>1. \A e \in Priceable : \E t \in tiles' : e \in Price!EdgesOf(t)
      BY <2>1, TilesCover
    <3> QED
      BY <2>1, <3>1 DEF TilesLeft
  <2> QED
    BY <2>1, <2>2, <1>1, PricesStay DEF ColumnsInv, Price!ColumnsArePriced
<1>3. CASE Price!Done
  <2>1. /\ pc = "tiles" /\ tiles = {} /\ pc' = "idle" /\ elev' = elev
        /\ current' = current \cup {profile}
    BY <1>3 DEF Price!Done
  <2>2. PICK p : p = profile
    OBVIOUS
  <2>3. p \in Asked /\ \A e \in Priceable :
            Price!Priced(e, p) # None => column[p][e] = Price!Priced(e, p)
    BY <2>1, <2>2 DEF ColumnsInv, TilesLeft
  <2>4. Price!ColumnsArePriced'
    BY <2>1, <2>2, <2>3, <1>1, PricesStay DEF ColumnsInv, Price!ColumnsArePriced
  <2> QED
    BY <2>1, <2>2, <2>3, <2>4, <1>1 DEF ColumnsInv, TilesLeft
<1>4. CASE Price!Kill
  <2>1. pc' = "idle" /\ elev' = elev /\ current' = current
    BY <1>4 DEF Price!Kill
  <2> QED
    BY <2>1, <1>1, PricesStay DEF ColumnsInv, TilesLeft, Price!ColumnsArePriced
<1>5. CASE Price!IngestDem
  <2>1. pc' = "idle" /\ current' = {}
    BY <1>5 DEF Price!IngestDem
  <2> QED
    BY <2>1, <1>1 DEF ColumnsInv, TilesLeft, Price!ColumnsArePriced
<1>6. CASE UNCHANGED Price!vars
  <2>1. pc' = pc /\ profile' = profile /\ tiles' = tiles /\ elev' = elev /\ current' = current
    BY <1>6 DEF Price!vars
  <2> QED
    BY <2>1, <1>1, PricesStay DEF ColumnsInv, TilesLeft, Price!ColumnsArePriced, Price!EdgesOf
<1> QED
  BY <1>2, <1>3, <1>4, <1>5, <1>6

LEMMA RecomputeTileKeeps ==
  ASSUME ColumnsInv, Price!RecomputeTile
  PROVE  ColumnsInv'
<1>1. PICK p, m : p = profile /\ m = Price!Min(tiles)
  OBVIOUS
<1>2. /\ pc = "tiles" /\ pc' = pc /\ profile' = p /\ elev' = elev /\ current' = current
      /\ tiles' = tiles \ {m}
      /\ column' = [column EXCEPT ![p] =
            [e \in Priceable |-> IF e \in Price!EdgesOf(m) /\ Price!Priced(e, p) # None
                                THEN Price!Priced(e, p) ELSE column[p][e]]]
  BY <1>1 DEF Price!RecomputeTile
<1>3. PICK V : column \in [Asked -> [Priceable -> V]]
  BY DEF ColumnsInv
<1>4. p \in Asked
  BY <1>1, <1>2 DEF ColumnsInv, TilesLeft
<1>5. /\ \A q \in Asked : q # p => column'[q] = column[q]
      /\ \A e \in Priceable : column'[p][e] =
            IF e \in Price!EdgesOf(m) /\ Price!Priced(e, p) # None
            THEN Price!Priced(e, p) ELSE column[p][e]
  BY <1>2, <1>3, <1>4
<1>6. \E W : column' \in [Asked -> [Priceable -> W]]
  <2> DEFINE W == V \cup {Price!Priced(e, p) : e \in Priceable}
             row == [e \in Priceable |-> IF e \in Price!EdgesOf(m) /\ Price!Priced(e, p) # None
                                        THEN Price!Priced(e, p) ELSE column[p][e]]
  <2>1. row \in [Priceable -> W]
    BY <1>3, <1>4
  <2>2. \A q \in Asked : column[q] \in [Priceable -> W]
    BY <1>3
  <2>3. column' = [column EXCEPT ![p] = row]
    BY <1>2
  <2> HIDE DEF row, W
  <2>4. column' \in [Asked -> [Priceable -> W]]
    BY <2>1, <2>2, <2>3, <1>3
  <2> QED
    BY <2>4
<1>7. \A e, q : Price!Priced(e, q)' = Price!Priced(e, q)
  BY <1>2, PricesStay
<1>8. TilesLeft'
  <2>1. \A e \in Priceable : Price!Priced(e, p) # None =>
            \/ column[p][e] = Price!Priced(e, p)
            \/ \E t \in tiles : e \in Price!EdgesOf(t)
    BY <1>1, <1>2 DEF ColumnsInv, TilesLeft
  <2>2. \A e \in Priceable : Price!Priced(e, p) # None =>
            \/ column'[p][e] = Price!Priced(e, p)
            \/ \E t \in tiles' : e \in Price!EdgesOf(t)
    BY <2>1, <1>2, <1>5
  <2>3. \A e, t : e \in Price!EdgesOf(t)' <=> e \in Price!EdgesOf(t)
    BY DEF Price!EdgesOf
  <2> QED
    BY <2>2, <2>3, <1>2, <1>4, <1>7 DEF TilesLeft
<1>9. Price!ColumnsArePriced'
  <2> SUFFICES ASSUME NEW q \in current', NEW e \in Priceable, Price!Priced(e, q) # None
               PROVE  column'[q][e] = Price!Priced(e, q)
    BY <1>7 DEF Price!ColumnsArePriced
  <2>1. q \in current /\ q \in Asked /\ column[q][e] = Price!Priced(e, q)
    BY <1>2 DEF ColumnsInv, Price!ColumnsArePriced
  <2>2. CASE q = p
    BY <2>1, <2>2, <1>5
  <2>3. CASE q # p
    BY <2>1, <2>3, <1>5
  <2> QED
    BY <2>2, <2>3
<1> QED
  BY <1>2, <1>6, <1>8, <1>9 DEF ColumnsInv

(* ColumnsArePriced: however often runs were killed in a tile, other        *)
(* profiles were priced or elevations came in between, the last full run    *)
(* for a profile leaves every edge that has a price at the one the          *)
(* elevations of today give (recompute_cost.py: recompute, _recompute_tile),*)
(* unless the easternmost vertex lies on a border between tiles.            *)
THEOREM FullRunsPrice ==
  Price!RoadCostAssumption /\ Price!NoneOnTheRim => (Price!Spec => []Price!ColumnsArePriced)
<1> SUFFICES ASSUME Price!RoadCostAssumption, Price!NoneOnTheRim
             PROVE  Price!Spec => []Price!ColumnsArePriced
  OBVIOUS
<1>1. Price!Init => ColumnsInv
  BY PricingBegins
<1>2. ColumnsInv /\ [Price!Next]_(Price!vars) => ColumnsInv'
  BY RecomputeTileKeeps, OtherStepsKeep DEF Price!Next
<1>3. ColumnsInv => Price!ColumnsArePriced
  BY DEF ColumnsInv
<1> QED
  BY <1>1, <1>2, <1>3, PTL DEF Price!Spec
=============================================================================
