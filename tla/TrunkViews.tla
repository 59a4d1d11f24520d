---------------------------- MODULE TrunkViews ----------------------------
(***************************************************************************)
(* The debugging views of a trunk in api/app/main.py: /trunk/blob draws    *)
(* every vertex and every successor edge, /trunk/chains draws the same     *)
(* trunk as a few long lines, one for each leaf.                           *)
(***************************************************************************)
EXTENDS Integers, Sequences, FiniteSets

CONSTANTS Vertices, None

TrunkViewsAssumption ==
    None \notin Vertices /\ Vertices \subseteq Nat /\ IsFiniteSet(Vertices)

VARIABLES
    pc,
    succ,       \* the rows of the blob: the successor of each vertex
    leaf,       \* leaf_i, or None between two chains
    cur,        \* where the chain has come to
    coords,     \* the chain so far
    visited,
    chains      \* the features

vars == <<pc, succ, leaf, cur, coords, visited, chains>>

Least(S) == CHOOSE x \in S : \A y \in S : x <= y

\* A successor outside the trunk ends it as a root does.
NextPos(v) == IF succ[v] \in DOMAIN succ THEN succ[v] ELSE None

\* /trunk/blob
VertexFeatures == {[vid |-> v, is_frontier |-> succ[v] = None] : v \in DOMAIN succ}
EdgeFeatures == {<<v, succ[v]>> : v \in {u \in DOMAIN succ : NextPos(u) # None}}

Leaves == {v \in DOMAIN succ : \A u \in DOMAIN succ : NextPos(u) # v}

\* Successors lie on a shortest-path tree and never run in a circle.
Acyclic(f) ==
    \A S \in SUBSET DOMAIN f : S # {} => \E v \in S : f[v] \notin S

Init ==
    /\ pc = "draw"
    /\ succ \in UNION {[S -> Vertices \cup {None}] : S \in SUBSET Vertices}
    /\ Acyclic(succ)
    /\ leaf = None /\ cur = None
    /\ coords = <<>> /\ visited = {} /\ chains = <<>>

\* The leaves still to come, in the order of the rows.
Coming == {v \in Leaves : v \notin visited}

NextLeaf ==
    /\ pc = "draw" /\ leaf = None /\ Coming # {}
    /\ leaf' = Least(Coming) /\ cur' = leaf' /\ coords' = <<>>
    /\ UNCHANGED <<pc, succ, visited, chains>>

Extend ==
    /\ pc = "draw" /\ leaf # None /\ cur # None /\ cur \notin visited
    /\ visited' = visited \cup {cur}
    /\ coords' = Append(coords, cur)
    /\ cur' = NextPos(cur)
    /\ UNCHANGED <<pc, succ, leaf, chains>>

\* Slip: a chain stops short of the one it joins.
LeaveApart == coords

\* Touch the vertex where an earlier chain is met.
Touch == IF cur # None /\ coords # <<>> THEN Append(coords, cur) ELSE coords

EndChain ==
    /\ pc = "draw" /\ leaf # None /\ (cur = None \/ cur \in visited)
    /\ chains' = IF Len(Touch) >= 2 THEN Append(chains, Touch) ELSE chains
    /\ leaf' = None /\ cur' = None /\ coords' = <<>>
    /\ UNCHANGED <<pc, succ, visited>>

Finish ==
    /\ pc = "draw" /\ leaf = None /\ Coming = {}
    /\ pc' = "done"
    /\ UNCHANGED <<succ, leaf, cur, coords, visited, chains>>

Next == NextLeaf \/ Extend \/ EndChain \/ Finish

Spec == Init /\ [][Next]_vars

---------------------------------------------------------------------------
EdgesOf(c) == {<<c[n], c[n + 1]>> : n \in 1..(Len(c) - 1)}

\* Both views draw the same trunk: every edge of /trunk/blob lies on exactly
\* one of the chains, no chain has an edge of its own, and a vertex no chain
\* passes stands alone in the blob, too.
ChainsDrawTheTrunk ==
    pc = "done" =>
        /\ \A e \in EdgeFeatures :
            Cardinality({n \in DOMAIN chains : e \in EdgesOf(chains[n])}) = 1
        /\ \A n \in DOMAIN chains : EdgesOf(chains[n]) \subseteq EdgeFeatures
        /\ {f.vid : f \in VertexFeatures} = visited
=============================================================================
