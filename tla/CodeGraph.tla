------------------------------ MODULE CodeGraph ------------------------------
(****************************************************************************)
(* The property graph kept in Neo4j and the write transactions of           *)
(* infra/neo4j/writer.go on it.  One operator per transaction, split into   *)
(* its guard (does the MATCH bind?) and its effect.  ExecuteWrite runs a    *)
(* transaction entirely or not at all (the driver retries one that rolled   *)
(* back), so each effect is one atomic update of the three variables.       *)
(*                                                                          *)
(* Assumed external: schema/schema.cypher has been applied, so a URN names  *)
(* at most one node whatever its label (node_urn_unique).                   *)
(****************************************************************************)
EXTENDS Naturals, Sequences, FiniteSets

CONSTANTS
    URN,        \* node identities (domain.URN, opaque)
    Service,    \* the URNs of the form urn:cg:<slug>:_:service
    SlugOf,     \* SlugOf[u]: the Service URN built from the slug inside u
    Method,     \* HTTP methods, in the spellings an extractor emits
    Path,       \* path templates
    Rev,        \* content of the properties no query below looks at
    Prop,       \* values of an edge's positional property (CONTAINS.index)
    OtherKind,  \* the kinds no query of these modules distinguishes
    Absent      \* a property that is not set

ASSUME URNAssumption ==
    /\ Service \subseteq URN
    /\ SlugOf \in [URN -> Service]
ASSUME KindAssumption ==
    OtherKind \cap {"Service", "Endpoint", "CallHTTP", "Database", "Broker",
                    "unknown", "missing"} = {}
ASSUME AbsentAssumption ==
    /\ Absent \notin URN
    /\ Absent \notin Method
    /\ Absent \notin Path
    /\ Absent \notin Prop
    /\ Absent \notin Nat
    /\ Absent \notin BOOLEAN
    /\ Absent \notin Service \X Service
    /\ Absent \notin {"http", "event", "db"}

VARIABLES
    nodes,      \* the nodes: a function from the URNs that exist
    edges,      \* every relationship but DEPENDS_ON: props by (from, to, type)
    deps        \* DEPENDS_ON: the parallel relationships of a service pair

graph == <<nodes, edges, deps>>

\* Kinds of DefaultRegistry, each the label of its nodes.
Kind == {"Service", "Endpoint", "CallHTTP", "Database", "Broker"} \cup OtherKind

Maybe(S) == S \cup {Absent}

Node == [kind: Kind, method: Maybe(Method), path: Maybe(Path),
         serviceURN: Maybe(Service), resolved: Maybe(BOOLEAN),
         targetURN: Maybe(URN), rev: Rev]

\* EXPANDS_TO is the one edge that has two writers: of a call to a function it
\* comes with the extraction (node.go:153-158, loader.go:144), of a CallHTTP it
\* is the linker's.  "structural" stands for the types that neither the linker
\* nor the first two screens follow (CONTAINS, CALLS, ...).
EdgeType == {"EXPANDS_TO", "EXPOSES", "USES_DB", "PUBLISHES_TO", "CONSUMES_FROM",
             "structural"}
EdgeKey == URN \X URN \X EdgeType

Via == {"http", "event", "db"}
DependsOn == [via: Maybe(Via), weight: Maybe(Nat)]
Pairs == Service \X Service

GraphTypeOK ==
    /\ IsFiniteSet(DOMAIN nodes)
    /\ DOMAIN nodes \subseteq URN
    /\ \A u \in DOMAIN nodes : nodes[u] \in Node
    /\ nodes = [u \in DOMAIN nodes |-> nodes[u]]
    /\ DOMAIN edges \subseteq EdgeKey
    /\ \A k \in DOMAIN edges : edges[k] \in Maybe(Prop)
    /\ deps \in [Pairs -> Seq(DependsOn)]

IsKind(u, k) == u \in DOMAIN nodes /\ nodes[u].kind = k

----------------------------------------------------------------------------
(* UpsertNode: MERGE (n:Node:<Label> {urn}) SET n = $props. *)

\* The MERGE pattern holds the label too: an existing node of another kind
\* does not match, the MERGE creates, and node_urn_unique rejects it.
CanUpsertNode(u, n) == u \in DOMAIN nodes => nodes[u].kind = n.kind

\* Mutant: SET n += $props, which keeps what the new node does not set.
MergeProps(u, n) ==
    /\ nodes' = [v \in DOMAIN nodes \cup {u} |->
                    IF v # u THEN nodes[v]
                    ELSE IF u \notin DOMAIN nodes THEN n
                    ELSE [f \in DOMAIN n |-> IF n[f] = Absent THEN nodes[u][f] ELSE n[f]]]
    /\ UNCHANGED <<edges, deps>>

\* Mutant: the node deleted and created again, its relationships with it.
DeleteAndCreate(u, n) ==
    /\ nodes' = [v \in DOMAIN nodes \cup {u} |-> IF v = u THEN n ELSE nodes[v]]
    /\ edges' = [k \in {e \in DOMAIN edges : u \notin {e[1], e[2]}} |-> edges[k]]
    /\ deps' = [p \in Pairs |-> IF u \in {p[1], p[2]} THEN <<>> ELSE deps[p]]

\* SET n = $props replaces every property of the node.
UpsertNode(u, n) ==
    /\ nodes' = [v \in DOMAIN nodes \cup {u} |-> IF v = u THEN n ELSE nodes[v]]
    /\ UNCHANGED <<edges, deps>>

----------------------------------------------------------------------------
(* UpsertEdge: MATCH both ends, MERGE (a)-[r:TYPE]->(b), SET r += $props. *)

\* Mutant: MERGE in the place of MATCH for the target.
OnlySourceMatched(from, to) == from \in DOMAIN nodes

CanUpsertEdge(from, to) == {from, to} \subseteq DOMAIN nodes

\* r += $props: a property that is not passed keeps its old value.

\* Mutant: ON CREATE SET, which leaves an existing relationship as it was.
KeepOld(old, new) == IF old = Absent THEN new ELSE old

PlusEquals(old, new) == IF new = Absent THEN old ELSE new

UpsertEdge(from, to, type, prop) ==
    LET key == <<from, to, type>>
        old == IF key \in DOMAIN edges THEN edges[key] ELSE Absent
    IN  /\ edges' = [k \in DOMAIN edges \cup {key} |->
                        IF k = key THEN PlusEquals(old, prop) ELSE edges[k]]
        /\ UNCHANGED <<nodes, deps>>

\* Mutant: CREATE in the place of MERGE.
CreateDependsOn(from, to, via, weight) ==
    /\ deps' = [deps EXCEPT ![<<from, to>>] = Append(@, [via |-> via, weight |-> weight])]
    /\ UNCHANGED <<nodes, edges>>

\* A DEPENDS_ON edge of a payload.  The MERGE names no via, so it matches
\* every DEPENDS_ON of the pair and SET rewrites each of them.
UpsertDependsOn(from, to, via, weight) ==
    LET new == [via |-> via, weight |-> weight]
        Updated(d) == [via    |-> PlusEquals(d.via, via),
                       weight |-> PlusEquals(d.weight, weight)]
        rels == deps[<<from, to>>]
    IN  /\ deps' = [deps EXCEPT ![<<from, to>>] =
                        IF rels = <<>> THEN <<new>>
                        ELSE [i \in DOMAIN rels |-> Updated(rels[i])]]
        /\ UNCHANGED <<nodes, edges>>

----------------------------------------------------------------------------
(* DeleteNode: MATCH (n {urn}) DETACH DELETE n; no row is not an error. *)

DeleteNode(u) ==
    /\ nodes' = [v \in DOMAIN nodes \ {u} |-> nodes[v]]
    /\ edges' = [k \in {e \in DOMAIN edges : u \notin {e[1], e[2]}} |-> edges[k]]
    /\ deps' = [p \in Pairs |-> IF u \in {p[1], p[2]} THEN <<>> ELSE deps[p]]

----------------------------------------------------------------------------
(* ResolveCallHTTPTarget: one transaction whose tail may bind no row. *)

\* coalesce(n.serviceURN, 'urn:cg:' + split(n.urn, ':')[2] + ':_:service')
OwnerOf(u) ==
    IF nodes[u].serviceURN = Absent THEN SlugOf[u] ELSE nodes[u].serviceURN

\* Mutant: the weight is set when the relationship is created, and left.
NeverIncremented(rels) ==
    IF \E i \in DOMAIN rels : rels[i].via = "http" THEN rels
    ELSE Append(rels, [via |-> "http", weight |-> 1])

\* Mutant: the MERGE names no via and takes any DEPENDS_ON of the pair.
MergeAnyVia(rels) ==
    IF rels = <<>> THEN <<[via |-> "http", weight |-> 1]>>
    ELSE [i \in DOMAIN rels |->
            [via |-> "http",
             weight |-> IF rels[i].weight = Absent THEN 1 ELSE rels[i].weight + 1]]

\* Mutant: WHERE sFrom <> sTo is forgotten.
EvenToItself(c, t) ==
    /\ IsKind(c, "CallHTTP") /\ IsKind(t, "Endpoint")
    /\ IsKind(OwnerOf(c), "Service")
    /\ IsKind(OwnerOf(t), "Service")

\* Both leading MATCH clauses bind: the SET and the EXPANDS_TO take effect.
CanResolve(c, t) == IsKind(c, "CallHTTP") /\ IsKind(t, "Endpoint")

\* The MATCH of the two services and sFrom <> sTo bind: the query returns a
\* row.  When they do not, the statements before still commit.
ResolveReturnsRow(c, t) ==
    /\ CanResolve(c, t)
    /\ IsKind(OwnerOf(c), "Service")
    /\ IsKind(OwnerOf(t), "Service")
    /\ OwnerOf(c) # OwnerOf(t)

\* MERGE (sFrom)-[d:DEPENDS_ON {via:'http'}]->(sTo): weight 1 on create,
\* coalesce(d.weight, 0) + 1 on every match.
AddHttpDependency(rels) ==
    IF \E i \in DOMAIN rels : rels[i].via = "http"
    THEN [i \in DOMAIN rels |->
            IF rels[i].via # "http" THEN rels[i]
            ELSE [rels[i] EXCEPT !.weight = IF @ = Absent THEN 1 ELSE @ + 1]]
    ELSE Append(rels, [via |-> "http", weight |-> 1])

ResolveCallHTTPTarget(c, t) ==
    LET key == <<c, t, "EXPANDS_TO">>
        pair == <<OwnerOf(c), OwnerOf(t)>>
    IN  /\ nodes' = IF CanResolve(c, t)
                    THEN [nodes EXCEPT ![c].targetURN = t, ![c].resolved = TRUE]
                    ELSE nodes
        /\ edges' = IF CanResolve(c, t) /\ key \notin DOMAIN edges
                    THEN [k \in DOMAIN edges \cup {key} |->
                            IF k = key THEN Absent ELSE edges[k]]
                    ELSE edges
        /\ deps' = IF ResolveReturnsRow(c, t)
                   THEN [deps EXCEPT ![pair] = AddHttpDependency(@)]
                   ELSE deps

----------------------------------------------------------------------------
(* What the graph's readers rely on. *)

\* Calls the linker attached to an endpoint, counted for the pair of services
\* that own them (the calls a DEPENDS_ON {via:'http'} stands for).
Linked(c) == IsKind(c, "CallHTTP") /\ nodes[c].targetURN # Absent

LinkedBetween(p) ==
    {c \in DOMAIN nodes : /\ Linked(c)
                          /\ nodes[c].targetURN \in DOMAIN nodes
                          /\ ResolveReturnsRow(c, nodes[c].targetURN)
                          /\ <<OwnerOf(c), OwnerOf(nodes[c].targetURN)>> = p}

HttpRels(p) == {i \in DOMAIN deps[p] : deps[p][i].via = "http"}
=============================================================================
