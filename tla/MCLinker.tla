------------------------------ MODULE MCLinker ------------------------------
(****************************************************************************)
(* Linker on two services: A makes the calls a1 and a2 and offers ea, B     *)
(* makes b1 and offers eb and eb2; f1 calls a function of A's own, as the   *)
(* extraction says.  The graphs differ in what decides the outcome of a     *)
(* call: how its route is written, how many endpoints offer it, who owns    *)
(* them, and which properties and dependencies the load left.               *)
(****************************************************************************)
EXTENDS Linker

CONSTANTS sA, sB, a1, a2, b1, ea, eb, eb2, f1, r0

R == INSTANCE RoutePath
        WITH Literal <- {"users", "orders"}, Placeholder <- {":_", ":id", "{id}"}

MCURN == {sA, sB, a1, a2, b1, ea, eb, eb2, f1}
MCService == {sA, sB}
MCSlugOf == [u \in MCURN |-> IF u \in {sA, a1, a2, ea, f1} THEN sA ELSE sB]
MCMethod == {"GET", "get", "POST"}
MCUpper == [m \in MCMethod |-> IF m = "get" THEN "GET" ELSE m]

\* /users/:id, users/{id}/, /orders
UserColon == <<"", "users", ":id">>
UserBraces == <<"users", "{id}", "">>
Orders == <<"", "orders">>
MCPath == {UserColon, UserBraces, Orders}
MCNorm == [p \in MCPath |-> R!NormalizePath(p)]

Plain(kind) == [kind |-> kind, method |-> Absent, path |-> Absent,
                serviceURN |-> Absent, resolved |-> Absent,
                targetURN |-> Absent, rev |-> r0]
Route(kind, m, p) == [Plain(kind) EXCEPT !.method = m, !.path = p]
Call(m, p) == [Route("CallHTTP", m, p) EXCEPT !.resolved = FALSE]

\* The graph every instance varies: a1 asks for eb, a2 for eb written another
\* way, b1 for ea.
BaseNodes ==
    [u \in MCURN |->
        CASE u \in MCService -> Plain("Service")
          [] u = a1 -> Call("GET", UserColon)
          [] u = a2 -> Call("get", UserBraces)
          [] u = b1 -> Call("POST", Orders)
          [] u = ea -> Route("Endpoint", "POST", Orders)
          [] u = eb -> Route("Endpoint", "GET", UserColon)
          [] u = f1 -> Plain("CallFunction")
          [] u = eb2 -> Route("Endpoint", "GET", Orders)]

NoDeps == [p \in MCService \X MCService |-> <<>>]
Graph(ns, ds) ==
    [nodes |-> ns, edges |-> [k \in {<<f1, ea, "EXPANDS_TO">>} |-> Absent], deps |-> ds]

Without(ns, u) == [v \in DOMAIN ns \ {u} |-> ns[v]]

InitNodes == {
    BaseNodes,
    \* the route is offered twice, and twice by one service in two methods
    [BaseNodes EXCEPT ![eb2].path = UserBraces],
    [BaseNodes EXCEPT ![eb2].path = UserColon, ![eb2].method = "POST"],
    \* an endpoint stored in lower case, and one without a path
    [BaseNodes EXCEPT ![eb].method = "get"],
    [BaseNodes EXCEPT ![eb2].path = Absent, ![a2].method = Absent],
    \* a call to the service's own endpoint
    [BaseNodes EXCEPT ![b1] = Call("GET", UserBraces)],
    \* service B was never loaded
    Without(BaseNodes, sB),
    \* serviceURN given explicitly, as the fixtures do; resolved left out of a
    \* payload, which the decoder reads as true
    [BaseNodes EXCEPT ![a1].serviceURN = sA, ![eb].serviceURN = sB],
    [BaseNodes EXCEPT ![a2].resolved = TRUE]}

\* Dependencies a load may have written: none, an event one, one without via.
InitDeps == {
    NoDeps,
    [NoDeps EXCEPT ![<<sA, sB>>] = <<[via |-> "event", weight |-> 3]>>],
    [NoDeps EXCEPT ![<<sA, sB>>] = <<[via |-> Absent, weight |-> Absent]>>]}

MCInitGraphs == {Graph(ns, ds) : ns \in InitNodes, ds \in InitDeps}

\* Fewer graphs for the runs whose question is about the schedule.
FewInitGraphs == {Graph(ns, NoDeps) : ns \in InitNodes}
=============================================================================
