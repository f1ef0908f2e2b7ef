--------------------------- MODULE MCSessionCache ---------------------------
(* SessionCache on small instances: requests, updates and processes are     *)
(* interchangeable.                                                         *)
EXTENDS SessionCache, FiniteSets, TLC

CONSTANTS
    MaxBegun,      \* bound: requests and updates that begin
    CrowdedTime,   \* bound: the clock when more than two calls begin
    CrowdedPaths   \* bound: their paths then, each once

Begun == {r \in Requests : ~At(r, "idle")} \cup {u \in Updates : ~UpdateAt(u, "idle")}

\* With three calls begun: which updates, and the clock to the end of L1Ttl beside
\* a logout and to CrowdedTime otherwise; a fault only beside a single logout, the
\* user is not deleted, and nothing follows what the properties except (a delete was
\* lost, a copy cached late).
CrowdBound ==
    /\ now <= IF \E u \in Updates \cap Begun : Logout(u) THEN L1Ttl ELSE CrowdedTime
    /\ \A u, v \in Updates \cap Begun :
          update[u].path \in CrowdedPaths /\ (update[u].path = update[v].path => u = v)
    /\ faults < MaxFaults =>
          ~(Updates \subseteq Begun) /\ \A u \in Updates \cap Begun : Logout(u)
    /\ user /\ ~lostDelete /\ ~lateFill
    /\ slowFill => \E u \in Updates \cap Begun : Logout(u)

\* The idle deadline moves with a refresh only.  The node of a call that never
\* begins means nothing: one of them is enough.
BegunBound ==
    /\ now <= IdleTimeout \/ \E u \in Updates \cap Begun : ~Revokes(u)
    /\ Cardinality(Begun) <= MaxBegun
    /\ Cardinality(Begun) > 2 => CrowdBound
    /\ Cardinality(Begun) = MaxBegun =>
          /\ \A r \in Requests \ Begun, q \in Requests : request[r].node = request[q].node
          /\ \A u \in Updates \ Begun, v \in Updates : update[u].node = update[v].node

Symmetry == Permutations(Requests) \cup Permutations(Updates) \cup Permutations(Nodes)
=============================================================================
