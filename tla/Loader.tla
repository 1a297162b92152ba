------------------------------- MODULE Loader -------------------------------
(****************************************************************************)
(* loader/loader.go, run by cmd/rhaxis-load: LoadInto writes the nodes of a *)
(* payload and then its edges, one transaction each and none around them    *)
(* all.  A load that stops leaves what it wrote; the operator runs it again *)
(* or runs the payload of a later extraction.                               *)
(****************************************************************************)
EXTENDS CodeGraph

CONSTANTS
    Loaders,        \* rhaxis-load processes
    Payloads,       \* what the extractor emitted
    MaxLoads        \* bound on the loads started

\* A node of the JSON: "unknown" is a kind DefaultRegistry does not have,
\* "missing" a node without its kind or its urn.
NodeIn == [urn: URN, kind: Kind \cup {"unknown", "missing"},
           method: Maybe(Method), path: Maybe(Path), serviceURN: Maybe(Service),
           resolved: Maybe(BOOLEAN), targetURN: Maybe(URN), rev: Rev]

\* An edge of the JSON: "unknown" is a type isKnownEdgeType does not list.
EdgeIn == [from: URN, to: URN, type: EdgeType \cup {"DEPENDS_ON", "unknown"},
           prop: Maybe(Prop), via: Maybe(Via), weight: Maybe(Nat)]

Payload == [nodes: Seq(NodeIn), edges: Seq(EdgeIn)]

ASSUME LoaderAssumption ==
    /\ MaxLoads \in Nat
    /\ Payloads \subseteq Payload
    /\ \A p \in Payloads : \A i \in DOMAIN p.edges :
            p.edges[i].type = "DEPENDS_ON" =>
                <<p.edges[i].from, p.edges[i].to>> \in Pairs

VARIABLES
    lpc,        \* where each loader is
    payload,    \* the payload it loads
    next,       \* the next of its nodes, then edges, to write
    loads       \* loads started so far

loaderVars == <<lpc, payload, next, loads>>
loadVars == <<graph, loaderVars>>

NoPayload == [nodes |-> <<>>, edges |-> <<>>]

\* "rejected" is LoadInto returning the writer's error, "failed" the deadline,
\* a driver error or the end of the process.
Ended == {"loaded", "rejected", "failed"}

----------------------------------------------------------------------------
(* The items of a payload, in the order they are written. *)

Item(what, x) == [what |-> what, item |-> x]

\* Mutant: the edges are written before the nodes they join.
EdgesFirst(p) ==
    [i \in DOMAIN p.edges |-> Item("edge", p.edges[i])]
        \o [i \in DOMAIN p.nodes |-> Item("node", p.nodes[i])]

Items(p) ==
    [i \in DOMAIN p.nodes |-> Item("node", p.nodes[i])]
        \o [i \in DOMAIN p.edges |-> Item("edge", p.edges[i])]

At(l, what) ==
    /\ lpc[l] = "loading"
    /\ next[l] \in DOMAIN Items(payload[l])
    /\ Items(payload[l])[next[l]].what = what
Current(l) == Items(payload[l])[next[l]].item

\* Mutant: the registry is not asked for the kind.
AnyKind(n) == n.kind \in Kind \cup {"unknown"}

KnownKind(n) == n.kind \in Kind
Malformed(n) == n.kind = "missing"
KnownEdgeType(e) == e.type # "unknown"

\* flattenNode, DecodeByKind and EncodeNode together: a CallHTTP always gets a
\* resolved property, true when the payload has none; only routes keep a
\* method and a path, only calls a target.
Stored(n) ==
    [kind       |-> n.kind,
     method     |-> IF n.kind \in {"Endpoint", "CallHTTP"} THEN n.method ELSE Absent,
     path       |-> IF n.kind \in {"Endpoint", "CallHTTP"} THEN n.path ELSE Absent,
     serviceURN |-> n.serviceURN,
     resolved   |-> IF n.kind # "CallHTTP" THEN Absent
                    ELSE IF n.resolved = Absent THEN TRUE ELSE n.resolved,
     targetURN  |-> IF n.kind = "CallHTTP" THEN n.targetURN ELSE Absent,
     rev        |-> n.rev]

WriteEdge(e) ==
    IF e.type = "DEPENDS_ON"
    THEN UpsertDependsOn(e.from, e.to, e.via, e.weight)
    ELSE UpsertEdge(e.from, e.to, e.type, e.prop)

----------------------------------------------------------------------------
(* One load. *)

EmptyGraph ==
    /\ nodes = <<>>
    /\ edges = <<>>
    /\ deps = [p \in Pairs |-> <<>>]

LoaderInit ==
    /\ lpc = [l \in Loaders |-> "unstarted"]
    /\ payload = [l \in Loaders |-> NoPayload]
    /\ next = [l \in Loaders |-> 1]
    /\ loads = 0

\* A payload of schema version "1" has been read and the driver is open.
StartLoad(l) == \E p \in Payloads :
    /\ lpc[l] # "loading"
    /\ loads < MaxLoads
    /\ lpc' = [lpc EXCEPT ![l] = "loading"]
    /\ payload' = [payload EXCEPT ![l] = p]
    /\ next' = [next EXCEPT ![l] = 1]
    /\ loads' = loads + 1
    /\ UNCHANGED graph

Advance(l) ==
    /\ next' = [next EXCEPT ![l] = @ + 1]
    /\ UNCHANGED <<lpc, payload, loads>>

\* A node of unknown kind, or an edge of unknown type, is counted and left.
SkipItem(l) ==
    /\ \/ At(l, "node") /\ ~Malformed(Current(l)) /\ ~KnownKind(Current(l))
       \/ At(l, "edge") /\ ~KnownEdgeType(Current(l))
    /\ Advance(l)
    /\ UNCHANGED graph

\* One transaction of the load.
WriteItem(l) ==
    \/ /\ At(l, "node")
       /\ KnownKind(Current(l))
       /\ CanUpsertNode(Current(l).urn, Current(l))
       /\ UpsertNode(Current(l).urn, Stored(Current(l)))
    \/ /\ At(l, "edge")
       /\ KnownEdgeType(Current(l))
       /\ CanUpsertEdge(Current(l).from, Current(l).to)
       /\ WriteEdge(Current(l))

LoadItem(l) == WriteItem(l) /\ Advance(l)

End(l, how) ==
    /\ lpc' = [lpc EXCEPT ![l] = how]
    /\ UNCHANGED <<payload, next, loads>>

\* The first error ends the load: a malformed node, one whose URN another kind
\* holds, an edge one of whose ends does not exist.
Reject(l) ==
    /\ \/ At(l, "node") /\ Malformed(Current(l))
       \/ At(l, "node") /\ KnownKind(Current(l))
                    /\ ~CanUpsertNode(Current(l).urn, Current(l))
       \/ At(l, "edge") /\ KnownEdgeType(Current(l))
                    /\ ~CanUpsertEdge(Current(l).from, Current(l).to)
    /\ End(l, "rejected")
    /\ UNCHANGED graph

FinishLoad(l) ==
    /\ lpc[l] = "loading"
    /\ next[l] \notin DOMAIN Items(payload[l])
    /\ End(l, "loaded")
    /\ UNCHANGED graph

\* The sixty-second deadline, a driver error or the end of the process,
\* between two transactions ...
FailLoad(l) ==
    /\ lpc[l] = "loading"
    /\ End(l, "failed")
    /\ UNCHANGED graph

\* ... or after the commit of one whose reply is lost.
FailLoadAfterCommit(l) == WriteItem(l) /\ End(l, "failed")

LoadStep(l) ==
    \/ SkipItem(l)
    \/ LoadItem(l)
    \/ Reject(l)
    \/ FinishLoad(l)

LoaderNext ==
    \E l \in Loaders :
        StartLoad(l) \/ LoadStep(l) \/ FailLoad(l) \/ FailLoadAfterCommit(l)

LoadInit == EmptyGraph /\ LoaderInit

LoadSpec == LoadInit /\ [][LoaderNext]_loadVars

----------------------------------------------------------------------------
(* Properties. *)

LoaderTypeOK ==
    /\ GraphTypeOK
    /\ lpc \in [Loaders -> {"unstarted", "loading"} \cup Ended]
    /\ payload \in [Loaders -> Payloads \cup {NoPayload}]
    /\ next \in [Loaders -> Nat]
    /\ loads \in 0 .. MaxLoads

\* Every relationship joins two nodes that exist: the edges of a payload never
\* create a node by halves, whatever part of which payload was written.
NoDanglingEdges ==
    /\ \A k \in DOMAIN edges : {k[1], k[2]} \subseteq DOMAIN nodes
    /\ \A p \in Pairs : deps[p] # <<>> => {p[1], p[2]} \subseteq DOMAIN nodes

\* What a payload says of a node and of an edge: the last time it names them.
NodeSays(p, u) ==
    LET named == {i \in DOMAIN p.nodes : p.nodes[i].urn = u /\ KnownKind(p.nodes[i])}
    IN  {Stored(p.nodes[i]) : i \in {j \in named : \A k \in named : k <= j}}
EdgeKeys(p) ==
    {<<p.edges[i].from, p.edges[i].to, p.edges[i].type>> :
        i \in {j \in DOMAIN p.edges : p.edges[j].type \in EdgeType}}
EdgeSays(p, k) ==
    LET named == {i \in DOMAIN p.edges :
                    /\ <<p.edges[i].from, p.edges[i].to, p.edges[i].type>> = k
                    /\ p.edges[i].prop # Absent}
    IN  {p.edges[i].prop : i \in {j \in named : \A m \in named : m <= j}}
PairsOf(p) ==
    {<<p.edges[i].from, p.edges[i].to>> :
        i \in {j \in DOMAIN p.edges : p.edges[j].type = "DEPENDS_ON"}}
DependsOf(p, q) ==
    {i \in DOMAIN p.edges : /\ p.edges[i].type = "DEPENDS_ON"
                            /\ <<p.edges[i].from, p.edges[i].to>> = q}
ViaSays(p, q) ==
    LET named == {i \in DependsOf(p, q) : p.edges[i].via # Absent}
    IN  {p.edges[i].via : i \in {j \in named : \A m \in named : m <= j}}
WeightSays(p, q) ==
    LET named == {i \in DependsOf(p, q) : p.edges[i].weight # Absent}
    IN  {p.edges[i].weight : i \in {j \in named : \A m \in named : m <= j}}

\* "A operação é idempotente, então rodar de novo corrige" (loader.go:25-26): a
\* load that ended well leaves what its payload says, the last time it says it
\* of a node, of an edge and of a pair of services, whatever an earlier load of
\* this payload, or of another extraction, left half written.  (One loader runs
\* its loads one after the other; the others have not begun.)  Of a pair that a
\* payload names through two channels only the last is left: the MERGE of
\* UpsertEdge names no via (writer.go:83).  That the first is lost, against
\* PLANO-SERVICEMAP-EDGES.md:209, is ChannelsAreKept of Pipeline.
LoadLeavesPayload ==
    \A l \in Loaders :
      (lpc[l] = "loaded" /\ \A k \in Loaders \ {l} : lpc[k] = "unstarted") =>
        LET p == payload[l]
        IN  /\ \A i \in DOMAIN p.nodes : KnownKind(p.nodes[i]) =>
                    /\ p.nodes[i].urn \in DOMAIN nodes
                    /\ nodes[p.nodes[i].urn] \in NodeSays(p, p.nodes[i].urn)
            /\ \A k \in EdgeKeys(p) :
                    /\ k \in DOMAIN edges
                    /\ EdgeSays(p, k) # {} => edges[k] \in EdgeSays(p, k)
            /\ \A q \in PairsOf(p) : \E i \in DOMAIN deps[q] :
                    /\ ViaSays(p, q) # {} => deps[q][i].via \in ViaSays(p, q)
                    /\ WeightSays(p, q) # {} => deps[q][i].weight \in WeightSays(p, q)

\* "rodar duas vezes sobre o mesmo payload não duplica" (rhaxis-load
\* main.go:10): loads alone, of this payload or of another, never give a pair
\* two DEPENDS_ON of one channel.
RerunsDoNotDuplicate ==
    \A q \in Pairs : \A i, j \in DOMAIN deps[q] :
        deps[q][i].via = deps[q][j].via => i = j

\* Every edge of the payload joins nodes of the payload, all of them of kinds
\* the core knows.
SelfContained(p) ==
    \A i \in DOMAIN p.edges :
        \A u \in {p.edges[i].from, p.edges[i].to} :
            \E j \in DOMAIN p.nodes : p.nodes[j].urn = u
AllKnown(p) == \A i \in DOMAIN p.nodes : KnownKind(p.nodes[i])
\* No extraction gives one of its nodes another kind.
KindsAgree(p) ==
    \A q \in Payloads : \A i \in DOMAIN p.nodes : \A j \in DOMAIN q.nodes :
        (q.nodes[j].urn = p.nodes[i].urn /\ KnownKind(q.nodes[j]))
            => q.nodes[j].kind = p.nodes[i].kind

\* "Ordem importante: nodes primeiro, edges depois" (loader.go:22-23): no
\* schedule of loads makes a writer refuse a payload that is complete and that
\* the other extractions do not contradict.
CompleteIsNeverRejected ==
    \A l \in Loaders :
        (SelfContained(payload[l]) /\ AllKnown(payload[l]) /\ KindsAgree(payload[l]))
            => lpc[l] # "rejected"

\* "garantindo que remover campo em código resulta em remoção no banco"
\* (repository/writer.go:20-23): a node is always what one extraction said of
\* it, never a mixture of two, whichever loads overlapped or failed.
NodesAreWhole ==
    \A u \in DOMAIN nodes : \E p \in Payloads : \E i \in DOMAIN p.nodes :
        p.nodes[i].urn = u /\ nodes[u] = Stored(p.nodes[i])

\* The inductive invariant behind the three.  A load that has come to its edges
\* still has in the graph every node it wrote: no other load takes one away.
NodesWritten ==
    \A l \in Loaders : lpc[l] = "loading" =>
        \A i \in DOMAIN payload[l].nodes :
            (i < next[l] /\ KnownKind(payload[l].nodes[i]))
                => payload[l].nodes[i].urn \in DOMAIN nodes

LoaderInv ==
    /\ LoaderTypeOK
    /\ NoDanglingEdges
    /\ NodesAreWhole
    /\ NodesWritten
    /\ CompleteIsNeverRejected

----------------------------------------------------------------------------
(* What a comment promises and the code does not do. *)

\* loader.go:39-41: on a node of unknown kind it is "melhor persistir o resto
\* do que abortar".
UnknownKindsDoNotAbort ==
    \A l \in Loaders : SelfContained(payload[l]) => lpc[l] # "rejected"
=============================================================================
