----------------------------- MODULE MCPipeline -----------------------------
(****************************************************************************)
(* Pipeline on two services: A makes the calls c1 and c2, B offers e1 and   *)
(* e2.  A is extracted again with the route of c1 changed, and again with   *)
(* an endpoint of its own that offers the route of c1 and is called by f1,  *)
(* a database and a broker; or with an event that B consumes.               *)
(****************************************************************************)
EXTENDS Pipeline

CONSTANTS sA, sB, c1, c2, e1, e2, e3, f1, db, mq, r0

R == INSTANCE RoutePath
        WITH Literal <- {"users", "orders"}, Placeholder <- {":_", ":id", "{id}"}

MCURN == {sA, sB, c1, c2, e1, e2, e3, f1, db, mq}
MCService == {sA, sB}
MCSlugOf == [u \in MCURN |-> IF u \in {sA, c1, c2, e3, f1} THEN sA ELSE sB]
MCMethod == {"GET", "get"}
MCUpper == [m \in MCMethod |-> "GET"]

\* /users/:id, users/{id}/, /orders
UserColon == <<"", "users", ":id">>
UserBraces == <<"users", "{id}", "">>
Orders == <<"", "orders">>
MCPath == {UserColon, UserBraces, Orders}
MCNorm == [p \in MCPath |-> R!NormalizePath(p)]

In(u, kind) ==
    [urn |-> u, kind |-> kind, method |-> Absent, path |-> Absent,
     serviceURN |-> Absent, resolved |-> Absent, targetURN |-> Absent, rev |-> r0]
Endpoint(u, path) == [In(u, "Endpoint") EXCEPT !.method = "GET", !.path = path]
Call(u, method, path) ==
    [In(u, "CallHTTP") EXCEPT !.method = method, !.path = path, !.resolved = FALSE]
Edge(type, from, to) ==
    [from |-> from, to |-> to, type |-> type,
     prop |-> Absent, via |-> Absent, weight |-> Absent]

ExtractionA(pathOfC1) == [
    nodes |-> <<In(sA, "Service"), Call(c1, "get", pathOfC1), Call(c2, "GET", UserBraces)>>,
    edges |-> <<Edge("structural", sA, c1)>>]

ExtractionB == [
    nodes |-> <<In(sB, "Service"), Endpoint(e1, Orders), Endpoint(e2, UserColon)>>,
    edges |-> <<Edge("EXPOSES", sB, e1), Edge("EXPOSES", sB, e2)>>]

SelfOffer == [
    nodes |-> <<In(sA, "Service"), Call(c1, "GET", Orders), Endpoint(e3, Orders),
                In(f1, "CallFunction"), In(db, "Database"), In(mq, "Broker")>>,
    edges |-> <<Edge("EXPOSES", sA, e3), Edge("EXPANDS_TO", f1, e3),
                Edge("USES_DB", sA, db), Edge("PUBLISHES_TO", sA, mq)>>]

\* A publishes what B consumes.
WithEvent == [
    nodes |-> <<In(sA, "Service"), Call(c1, "GET", Orders)>>,
    edges |-> <<[Edge("DEPENDS_ON", sA, sB) EXCEPT !.via = "event", !.weight = 1]>>]

TwoServices == {ExtractionA(Orders), ExtractionA(UserColon), ExtractionB}
Unchanged == {ExtractionA(Orders), ExtractionB}
EventBetween == {WithEvent, ExtractionB}
WithSelfOffer == TwoServices \cup {SelfOffer}
=============================================================================
