---------------------------- MODULE RouteTools ----------------------------
(***************************************************************************)
(* The route cache of api/app/tools.py and the tools that share it, called *)
(* by clients at the same time, through the MCP server's choice of a       *)
(* backend (mcp_server/mcp_bike_planner/dispatcher.py).  Every backend is  *)
(* a process with a cache of its own; with no regions there is one.        *)
(*                                                                         *)
(* A request names a pair of cities and the stops between them.  A         *)
(* polyline is known by the request it answers, the way it was computed    *)
(* and the backend that computed it; dictionaries are sequences of entries *)
(* in the order of their insertion.                                        *)
(***************************************************************************)
EXTENDS Integers, Sequences, FiniteSets, SequencesExt

CONSTANTS
    Clients,
    Requests,   \* [from_ref, to_ref, via_refs]
    Default,    \* the backend of whatever no region takes
    Regions,    \* [backend, bbox] in the order of the file, a bbox as its cities
    Placed,     \* the cities whose place the dispatcher can look up
    MaxCalls,   \* bound on the calls made
    None

RouteToolsAssumption ==
    /\ MaxCalls \in Nat
    /\ Requests \subseteq [from_ref : {r.from_ref : r \in Requests},
                          to_ref : {r.to_ref : r \in Requests},
                          via_refs : {r.via_refs : r \in Requests}]
    /\ Regions \in Seq([backend : {Regions[n].backend : n \in DOMAIN Regions},
                        bbox : {Regions[n].bbox : n \in DOMAIN Regions}])

Backends == {Default} \cup {Regions[n].backend : n \in DOMAIN Regions}

VARIABLES
    routes,     \* _ROUTE_CACHE of each backend: [key, poly]
    kms,        \* the keys of its _ROUTE_KM_CACHE
    call,       \* what each client's call is doing
    answered,   \* the routes answered so far: [request, backend]
    calls

vars == <<routes, kms, call, answered, calls>>

Tools == {"route", "split_into_stages", "pois_along_route", "stations_along_route"}
REGION_AWARE_TOOLS == {"route", "stations_along_route", "pois_along_route"}

---------------------------------------------------------------------------
(* The dispatcher *)

\* The place of the first city that can be looked up stands for the request.
Coord(r) ==
    IF r.from_ref \in Placed THEN r.from_ref
    ELSE IF r.to_ref \in Placed THEN r.to_ref ELSE None

BackendFor(tool, r) ==
    LET holding == {n \in DOMAIN Regions : Coord(r) \in Regions[n].bbox} IN
    IF tool \notin REGION_AWARE_TOOLS \/ Coord(r) = None \/ holding = {} THEN Default
    ELSE Regions[CHOOSE n \in holding : \A m \in holding : n <= m].backend

---------------------------------------------------------------------------
(* The cache *)

KeyOfEnds(r) == <<r.from_ref, r.to_ref, <<>>>>   \* Slip: no stops
RouteCacheKey(r) == <<r.from_ref, r.to_ref, r.via_refs>>

EntryOf(b, key) == {n \in DOMAIN routes[b] : routes[b][n].key = key}
Put(b, key, poly) ==
    LET at == EntryOf(b, key) IN
    routes' = [routes EXCEPT ![b] =
        IF at = {} THEN Append(@, [key |-> key, poly |-> poly])
        ELSE [@ EXCEPT ![CHOOSE n \in at : TRUE].poly = poly]]

NoCall == [pc |-> "idle"]
Answer(c, reply) ==
    call' = [call EXCEPT ![c] = [pc |-> "answered", tool |-> @.tool,
                request |-> @.request, owed |-> @.owed, reply |-> reply]]
Failed == [ok |-> FALSE]
Step(c, pc) == call' = [call EXCEPT ![c].pc = pc]

Init ==
    /\ routes = [b \in Backends |-> <<>>]
    /\ kms = [b \in Backends |-> {}]
    /\ call = [c \in Clients |-> NoCall]
    /\ answered = {}
    /\ calls = 0

\* "owed" remembers who has already answered a route for the same request.
CallTool(c, tool, r, precise) ==
    /\ call[c].pc = "idle" /\ calls < MaxCalls
    /\ precise => tool = "route"
    /\ calls' = calls + 1
    /\ call' = [call EXCEPT ![c] =
            [pc |-> IF tool # "route" THEN "lookup"
                    ELSE IF precise THEN "precise" ELSE "fast",
             tool |-> tool, request |-> r, backend |-> BackendFor(tool, r),
             owed |-> {a.backend : a \in {x \in answered : x.request = r}},
             seen |-> 0, at |-> 0, poly |-> None]]
    /\ UNCHANGED <<routes, kms, answered>>

Return(c) ==
    /\ call[c].pc = "answered"
    /\ call' = [call EXCEPT ![c] = NoCall]
    /\ UNCHANGED <<routes, kms, answered, calls>>

---------------------------------------------------------------------------
(* The route tool *)

Polyline(c, mode) ==
    [request |-> call[c].request, mode |-> mode, backend |-> call[c].backend]

\* The fast route is drawn from city to city: from a city to itself it is one
\* point.  The precise one has the start and the end.
StaysPut(r) == r.from_ref = r.to_ref /\ \A n \in DOMAIN r.via_refs : r.via_refs[n] = r.to_ref
OnePoint(poly) == poly.mode = "fast" /\ StaysPut(poly.request)

\* An unknown city, no path between the cities, or route() raises.  For the
\* tools that asked for a route themselves that is the end, too.
RouteFails(c) ==
    /\ call[c].pc \in {"fast", "precise"}
    /\ Answer(c, Failed)
    /\ UNCHANGED <<routes, kms, answered, calls>>

\* The fast route fills two dictionaries, one after the other.
RouteFast(c) ==
    /\ call[c].pc = "fast"
    /\ Put(call[c].backend, RouteCacheKey(call[c].request), Polyline(c, "fast"))
    /\ Step(c, "fast_km")
    /\ UNCHANGED <<kms, answered, calls>>

Answered(c) == answered' = answered \cup
    {[request |-> call[c].request, backend |-> call[c].backend]}

RouteFastKm(c) ==
    LET b == call[c].backend IN
    /\ call[c].pc = "fast_km"
    /\ kms' = [kms EXCEPT ![b] = @ \cup {RouteCacheKey(call[c].request)}]
    /\ IF call[c].tool = "route"
       THEN Answer(c, [ok |-> TRUE, poly |-> Polyline(c, "fast")]) /\ Answered(c)
       ELSE /\ call' = [call EXCEPT ![c].pc = "use", ![c].poly = Polyline(c, "fast")]
            /\ UNCHANGED answered
    /\ UNCHANGED <<routes, calls>>

\* The precise one fills the first only.
RoutePrecise(c) ==
    /\ call[c].pc = "precise"
    /\ Put(call[c].backend, RouteCacheKey(call[c].request), Polyline(c, "precise"))
    /\ Answer(c, [ok |-> TRUE, poly |-> Polyline(c, "precise")])
    /\ Answered(c)
    /\ UNCHANGED <<kms, calls>>

---------------------------------------------------------------------------
(* The tools that need a route *)

Lookup(c) ==
    LET b == call[c].backend  hit == EntryOf(b, RouteCacheKey(call[c].request)) IN
    /\ call[c].pc = "lookup"
    /\ call' = [call EXCEPT ![c] =
            IF hit # {} THEN [@ EXCEPT !.pc = "use",
                                !.poly = routes[b][CHOOSE n \in hit : TRUE].poly]
            ELSE [@ EXCEPT !.pc = "scan", !.seen = Len(routes[b]), !.at = 1]]
    /\ UNCHANGED <<routes, kms, answered, calls>>

\* Any route between the same cities will do.
SameEnds(entry, r) == entry.key[1] = r.from_ref /\ entry.key[2] = r.to_ref

\* The loop runs over the live dictionary.
Scan(c) ==
    LET me == call[c]  entries == routes[me.backend] IN
    /\ me.pc = "scan" /\ Len(entries) = me.seen
    /\ call' = [call EXCEPT ![c] =
            IF me.at > Len(entries) THEN [me EXCEPT !.pc = "fast"]
            ELSE IF SameEnds(entries[me.at], me.request)
                 THEN [me EXCEPT !.pc = "use", !.poly = entries[me.at].poly]
                 ELSE [me EXCEPT !.at = @ + 1]]
    /\ UNCHANGED <<routes, kms, answered, calls>>

\* dictionary changed size during iteration; call_tool makes it an error.
ScanRaises(c) ==
    /\ call[c].pc = "scan" /\ Len(routes[call[c].backend]) # call[c].seen
    /\ Answer(c, Failed)
    /\ UNCHANGED <<routes, kms, answered, calls>>

\* Could not compute a route; no cached route for that endpoint pair.
RouteTooShort(c) ==
    /\ call[c].pc = "use" /\ OnePoint(call[c].poly)
    /\ Answer(c, Failed)
    /\ UNCHANGED <<routes, kms, answered, calls>>

\* Only the stages are scaled to the kilometres kept for the request.
UseRoute(c) ==
    /\ call[c].pc = "use" /\ ~OnePoint(call[c].poly)
    /\ Answer(c, [ok |-> TRUE, poly |-> call[c].poly,
                  hint |-> /\ call[c].tool = "split_into_stages"
                           /\ RouteCacheKey(call[c].request) \in kms[call[c].backend]])
    /\ UNCHANGED <<routes, kms, answered, calls>>

Next == \E c \in Clients :
    \/ \E tool \in Tools, r \in Requests, precise \in BOOLEAN :
            CallTool(c, tool, r, precise)
    \/ RouteFails(c) \/ RouteFast(c) \/ RouteFastKm(c) \/ RoutePrecise(c)
    \/ Lookup(c) \/ Scan(c) \/ ScanRaises(c) \/ RouteTooShort(c) \/ UseRoute(c)
    \/ Return(c)

Spec == Init /\ [][Next]_vars

---------------------------------------------------------------------------
\* A request goes to one backend, whichever tool it is for: there are no
\* regions, or those its tools would choose between are one server's.
OneBackend ==
    \A r \in Requests, tool \in Tools : BackendFor(tool, r) = BackendFor("route", r)

\* "Reads the polyline from the last matching route call": once a route for a
\* request was answered, every later call that builds on it answers, with a
\* polyline of that very request, computed where the route was, whatever the
\* other clients are asking at the same time.  Not so for a city to itself: the
\* fast route answers with one point, and calls that find this one fail.
ReadYourRoutes ==
    \A c \in Clients :
        call[c].pc = "answered" /\ call[c].tool # "route" /\ call[c].owed # {} =>
            \/ /\ call[c].reply.ok
               /\ call[c].reply.poly.request = call[c].request
               /\ call[c].reply.poly.backend \in call[c].owed
            \/ StaysPut(call[c].request) /\ ~call[c].reply.ok
=============================================================================
