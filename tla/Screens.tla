------------------------------- MODULE Screens -------------------------------
(****************************************************************************)
(* The first two screens, LoadServiceMap and ListEndpoints of               *)
(* infra/neo4j/reader.go with their queries and the views that render them. *)
(* Each is one read transaction, hence one state of the graph; decoding     *)
(* drops no node here (every node a load writes can be decoded).  Order     *)
(* within a list is left out: ListEndpoints sorts by method and path, the   *)
(* map comes in the order of the database.                                  *)
(****************************************************************************)
EXTENDS CodeGraph

Joined(type, from) == {u \in DOMAIN nodes : <<from, u, type>> \in DOMAIN edges}

\* MATCH (s:Service); the filter LoadServiceMap is given is not looked at.
Services == {s \in DOMAIN nodes : nodes[s].kind = "Service"}

\* Databases and brokers at the end of a USES_DB, PUBLISHES_TO, CONSUMES_FROM.
ExternalSystems ==
    UNION {{u \in Joined("USES_DB", s) : nodes[u].kind = "Database"}
            \cup {u \in Joined("PUBLISHES_TO", s) \cup Joined("CONSUMES_FROM", s) :
                    nodes[u].kind = "Broker"} : s \in Services}

\* One row per relationship of two services; coalesce(d.weight, 0).
Dependencies ==
    UNION {{[from |-> p[1], to |-> p[2], via |-> deps[p][i].via,
             weight |-> IF deps[p][i].weight = Absent THEN 0 ELSE deps[p][i].weight,
             rel |-> i] : i \in DOMAIN deps[p]} : p \in Services \X Services \cap Pairs}

ServiceMap ==
    [services |-> Services, externalSystems |-> ExternalSystems,
     dependencies |-> Dependencies]

----------------------------------------------------------------------------
(* Screen two of a service.  When the MATCH binds no row, Single returns an *)
(* error in which statusFromErr finds none of its words: the handler writes *)
(* 500, not 404. *)

\* Mutant: the endpoints whose serviceURN property names the service, which
\* the loader does not derive (loader.go:99-102).
ListByProperty(s) ==
    IF s \notin Services THEN [status |-> 500, endpoints |-> {}]
    ELSE [status |-> 200,
          endpoints |-> {e \in DOMAIN nodes : nodes[e].kind = "Endpoint" /\ nodes[e].serviceURN = s}]

ListEndpoints(s) ==
    IF s \notin Services THEN [status |-> 500, endpoints |-> {}]
    ELSE [status |-> 200,
          endpoints |-> {e \in Joined("EXPOSES", s) : nodes[e].kind = "Endpoint"}]
=============================================================================
