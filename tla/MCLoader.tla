------------------------------ MODULE MCLoader ------------------------------
(****************************************************************************)
(* Loader on two services that share a database: two extractions of A and   *)
(* one of B, and payloads with what the core does not know or the graph     *)
(* refuses.                                                                 *)
(****************************************************************************)
EXTENDS Loader

CONSTANTS sA, sB, ea, ca, eb, db, rev1, rev2, user, order

MCURN == {sA, sB, ea, ca, eb, db}
MCService == {sA, sB}
MCSlugOf == [u \in MCURN |-> IF u \in {sB, eb} THEN sB ELSE sA]

In(u, kind, rev) ==
    [urn |-> u, kind |-> kind, method |-> Absent, path |-> Absent,
     serviceURN |-> Absent, resolved |-> Absent, targetURN |-> Absent, rev |-> rev]
Routed(u, kind, m, p, rev) == [In(u, kind, rev) EXCEPT !.method = m, !.path = p]
Unresolved(n) == [n EXCEPT !.resolved = FALSE]

Edge(from, to, prop) ==
    [from |-> from, to |-> to, type |-> "structural",
     prop |-> prop, via |-> Absent, weight |-> Absent]
Uses(from, to) == [Edge(from, to, Absent) EXCEPT !.type = "USES_DB"]
Depends(from, to, via, weight) ==
    [from |-> from, to |-> to, type |-> "DEPENDS_ON",
     prop |-> Absent, via |-> via, weight |-> weight]
UnknownEdge(from, to) == [Edge(from, to, Absent) EXCEPT !.type = "unknown"]

FirstA == [
    nodes |-> <<In(sA, "Service", rev1), Routed(ea, "Endpoint", "GET", user, rev1),
                Unresolved(Routed(ca, "CallHTTP", "GET", order, rev1)),
                In(db, "Database", rev1)>>,
    edges |-> <<Edge(sA, ea, Absent), Edge(ea, ca, 1), Uses(sA, db)>>]

\* The route changed and lost its method, the call moved and is no longer
\* marked, the service depends on B and a node is of a kind of version 2.
SecondA == [
    nodes |-> <<In(sA, "Service", rev2), Routed(ea, "Endpoint", Absent, order, rev2),
                Routed(ca, "CallHTTP", "GET", order, rev2),
                In(eb, "unknown", rev2)>>,
    edges |-> <<Edge(ea, ca, 2), UnknownEdge(ea, ca), Depends(sA, sB, "event", 1)>>]

FirstB == [
    nodes |-> <<In(sB, "Service", rev1), In(db, "Database", rev2),
                Routed(eb, "Endpoint", "GET", order, rev1)>>,
    edges |-> <<Edge(sB, eb, Absent), Uses(sB, db)>>]

\* The handler that was an endpoint is emitted as a function, and what was a
\* database as a broker: two labels that no query here tells from others.
KindChanged == [
    nodes |-> <<In(sB, "Service", rev2), In(eb, "Function", rev2), In(db, "Broker", rev2)>>,
    edges |-> <<Edge(sB, eb, Absent)>>]

\* Both services, what joins them through two channels, and a weight without
\* its channel.
Channels == [
    nodes |-> <<In(sA, "Service", rev1), In(sB, "Service", rev1)>>,
    edges |-> <<Depends(sA, sB, "http", 2), Depends(sA, sB, "event", 1),
                Depends(sA, sB, Absent, 3)>>]

\* An edge to a node of unknown kind, and one after it.
UnknownJoined == [
    nodes |-> <<In(sA, "Service", rev2), In(ca, "unknown", rev2),
                Routed(ea, "Endpoint", "GET", user, rev2)>>,
    edges |-> <<Edge(ea, ca, 1), Edge(sA, ea, Absent)>>]

\* A node without a kind in the middle.
Broken == [
    nodes |-> <<In(sB, "Service", rev2), In(db, "missing", rev2),
                Routed(eb, "Endpoint", "GET", user, rev2)>>,
    edges |-> <<Edge(sB, eb, Absent)>>]

ReExtractions == {FirstA, SecondA, FirstB, KindChanged, Channels,
                  Broken}
WithUnknown == {FirstA, UnknownJoined}
=============================================================================
