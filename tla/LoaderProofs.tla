---------------------------- MODULE LoaderProofs ----------------------------
(****************************************************************************)
(* What TLAPS proves of Loader, for every number of loaders and every set   *)
(* of payloads, however the loads interleave, end and are run again.        *)
(****************************************************************************)
EXTENDS Loader, FiniteSetTheorems, SequenceTheorems, TLAPS

----------------------------------------------------------------------------
(* The items of a payload. *)

\* A concatenation, position by position.
LEMMA Concatenated ==
    ASSUME NEW S, NEW s \in Seq(S), NEW t \in Seq(S)
    PROVE  /\ DOMAIN (s \o t) = 1 .. Len(s) + Len(t)
           /\ \A i \in DOMAIN (s \o t) :
                IF i <= Len(s) THEN i \in DOMAIN s /\ (s \o t)[i] = s[i]
                ELSE i - Len(s) \in DOMAIN t /\ (s \o t)[i] = t[i - Len(s)]
<1>1. /\ s \o t \in Seq(S)
      /\ Len(s \o t) = Len(s) + Len(t)
      /\ \A i \in 1 .. Len(s) + Len(t) :
            (s \o t)[i] = IF i <= Len(s) THEN s[i] ELSE t[i - Len(s)]
  BY ConcatProperties
<1>2. /\ DOMAIN s = 1 .. Len(s) /\ Len(s) \in Nat
      /\ DOMAIN t = 1 .. Len(t) /\ Len(t) \in Nat
      /\ DOMAIN (s \o t) = 1 .. Len(s \o t)
  BY <1>1, LenProperties
<1>3. \A m, n \in Nat : \A i \in 1 .. m + n :
        IF i <= m THEN i \in 1 .. m ELSE i - m \in 1 .. n
  OBVIOUS
<1> QED BY <1>1, <1>2, <1>3

\* Items lists the nodes of a payload and then its edges.
LEMMA ItemsAre ==
    ASSUME NEW p \in Payload, NEW i \in DOMAIN Items(p)
    PROVE  \/ /\ i \in DOMAIN p.nodes
              /\ Items(p)[i] = Item("node", p.nodes[i])
           \/ /\ \A j \in DOMAIN p.nodes : j < i
              /\ \E j \in DOMAIN p.edges : Items(p)[i] = Item("edge", p.edges[j])
<1> DEFINE ns == [j \in DOMAIN p.nodes |-> Item("node", p.nodes[j])]
           es == [j \in DOMAIN p.edges |-> Item("edge", p.edges[j])]
           S == {Item("node", n) : n \in NodeIn} \cup {Item("edge", e) : e \in EdgeIn}
<1>1. p.nodes \in Seq(NodeIn) /\ p.edges \in Seq(EdgeIn)
  BY DEF Payload
<1>2. ns \in Seq(S) /\ Len(ns) = Len(p.nodes) /\ DOMAIN ns = DOMAIN p.nodes
  <2>1. DOMAIN p.nodes = 1 .. Len(p.nodes) /\ Len(p.nodes) \in Nat
    BY <1>1
  <2>2. \A j \in DOMAIN p.nodes : Item("node", p.nodes[j]) \in S
    BY <1>1
  <2> QED BY <2>1, <2>2
<1>3. es \in Seq(S) /\ DOMAIN es = DOMAIN p.edges
  <2>1. DOMAIN p.edges = 1 .. Len(p.edges) /\ Len(p.edges) \in Nat
    BY <1>1
  <2>2. \A j \in DOMAIN p.edges : Item("edge", p.edges[j]) \in S
    BY <1>1
  <2> QED BY <2>1, <2>2
<1>4. Items(p) = ns \o es
  BY DEF Items
<1>5. /\ \A j \in DOMAIN ns : ns[j] = Item("node", p.nodes[j])
      /\ \A j \in DOMAIN es : es[j] = Item("edge", p.edges[j])
  OBVIOUS
<1> HIDE DEF ns, es, S
<1>6. /\ i \in 1 .. Len(ns) + Len(es)
      /\ IF i <= Len(ns) THEN i \in DOMAIN ns /\ Items(p)[i] = ns[i]
         ELSE i - Len(ns) \in DOMAIN es /\ Items(p)[i] = es[i - Len(ns)]
  BY <1>2, <1>3, <1>4, Concatenated
<1>7. CASE i <= Len(ns)
  BY <1>2, <1>5, <1>6, <1>7
<1>8. CASE ~(i <= Len(ns))
  <2>1. /\ Len(ns) \in Nat /\ Len(es) \in Nat
        /\ DOMAIN p.nodes = 1 .. Len(ns)
    BY <1>2, <1>3, LenProperties
  <2>2. \A m, n \in Nat : \A k \in 1 .. m + n : ~(k <= m) => \A j \in 1 .. m : j < k
    OBVIOUS
  <2>3. \A j \in DOMAIN p.nodes : j < i
    BY <1>6, <1>8, <2>1, <2>2
  <2> QED BY <1>3, <1>5, <1>6, <1>8, <2>3
<1> QED BY <1>7, <1>8

\* Every node and every edge of a payload is one of its items.
LEMMA ItemsInclude ==
    ASSUME NEW p \in Payload
    PROVE  /\ DOMAIN Items(p) = 1 .. Len(p.nodes) + Len(p.edges)
           /\ \A i \in DOMAIN p.nodes : /\ i \in DOMAIN Items(p)
                                        /\ Items(p)[i] = Item("node", p.nodes[i])
           /\ \A i \in DOMAIN p.edges : /\ Len(p.nodes) + i \in DOMAIN Items(p)
                                        /\ Items(p)[Len(p.nodes) + i] = Item("edge", p.edges[i])
<1> DEFINE ns == [j \in DOMAIN p.nodes |-> Item("node", p.nodes[j])]
           es == [j \in DOMAIN p.edges |-> Item("edge", p.edges[j])]
           S == {Item("node", n) : n \in NodeIn} \cup {Item("edge", e) : e \in EdgeIn}
<1>1. p.nodes \in Seq(NodeIn) /\ p.edges \in Seq(EdgeIn)
  BY DEF Payload
<1>2. /\ DOMAIN p.nodes = 1 .. Len(p.nodes) /\ Len(p.nodes) \in Nat
      /\ DOMAIN p.edges = 1 .. Len(p.edges) /\ Len(p.edges) \in Nat
  BY <1>1
<1>3. ns \in Seq(S) /\ Len(ns) = Len(p.nodes)
  <2>1. \A j \in DOMAIN p.nodes : Item("node", p.nodes[j]) \in S
    BY <1>1
  <2> QED BY <1>2, <2>1
<1>4. es \in Seq(S) /\ Len(es) = Len(p.edges)
  <2>1. \A j \in DOMAIN p.edges : Item("edge", p.edges[j]) \in S
    BY <1>1
  <2> QED BY <1>2, <2>1
<1>5. Items(p) = ns \o es
  BY DEF Items
<1>6. /\ \A j \in DOMAIN p.nodes : ns[j] = Item("node", p.nodes[j])
      /\ \A j \in DOMAIN p.edges : es[j] = Item("edge", p.edges[j])
  OBVIOUS
<1> HIDE DEF ns, es, S
<1>7. /\ DOMAIN Items(p) = 1 .. Len(p.nodes) + Len(p.edges)
      /\ \A i \in DOMAIN Items(p) : IF i <= Len(p.nodes) THEN Items(p)[i] = ns[i]
                                    ELSE Items(p)[i] = es[i - Len(p.nodes)]
  <2>1. /\ DOMAIN (ns \o es) = 1 .. Len(ns) + Len(es)
        /\ \A i \in DOMAIN (ns \o es) :
              IF i <= Len(ns) THEN i \in DOMAIN ns /\ (ns \o es)[i] = ns[i]
              ELSE i - Len(ns) \in DOMAIN es /\ (ns \o es)[i] = es[i - Len(ns)]
    BY <1>3, <1>4, Concatenated, Zenon
  <2>2. Len(ns) = Len(p.nodes) /\ Len(es) = Len(p.edges)
    BY <1>3, <1>4
  <2> QED BY <1>5, <2>1, <2>2, Zenon
<1>8. /\ \A m, n \in Nat : \A k \in 1 .. m : k \in 1 .. m + n /\ k <= m
      /\ \A m, n \in Nat : \A k \in 1 .. n : m + k \in 1 .. m + n
      /\ \A m, n \in Nat : \A k \in 1 .. n : ~(m + k <= m)
      /\ \A m, n \in Nat : \A k \in 1 .. n : (m + k) - m = k
  <2>1. ASSUME NEW m \in Nat, NEW n \in Nat, NEW k \in 1 .. n
        PROVE  m + k \in 1 .. m + n /\ ~(m + k <= m) /\ (m + k) - m = k
    OBVIOUS
  <2>2. ASSUME NEW m \in Nat, NEW n \in Nat, NEW k \in 1 .. m
        PROVE  k \in 1 .. m + n /\ k <= m
    OBVIOUS
  <2> QED BY <2>1, <2>2
<1>9. /\ \A k \in DOMAIN p.nodes : k \in DOMAIN Items(p) /\ k <= Len(p.nodes)
      /\ \A k \in DOMAIN p.edges : /\ Len(p.nodes) + k \in DOMAIN Items(p)
                                   /\ ~(Len(p.nodes) + k <= Len(p.nodes))
                                   /\ (Len(p.nodes) + k) - Len(p.nodes) = k
  BY <1>2, <1>7, <1>8
<1> QED BY <1>6, <1>7, <1>9

\* What a loader holds is a payload, or the empty one before its first load.
LEMMA PayloadType ==
    ASSUME LoaderTypeOK, NEW l \in Loaders
    PROVE  /\ payload[l] \in Payload
           /\ payload[l].nodes \in Seq(NodeIn) /\ payload[l].edges \in Seq(EdgeIn)
           /\ Len(payload[l].nodes) \in Nat /\ Len(payload[l].edges) \in Nat
           /\ DOMAIN payload[l].nodes = 1 .. Len(payload[l].nodes)
           /\ DOMAIN payload[l].edges = 1 .. Len(payload[l].edges)
           /\ payload[l] \notin Payloads => DOMAIN payload[l].nodes = {} /\ DOMAIN payload[l].edges = {}
           /\ next[l] \in Nat
<1>1. payload[l] \in Payloads \cup {NoPayload} /\ next[l] \in Nat
  BY DEF LoaderTypeOK
<1>2. NoPayload \in Payload
  <2>1. <<>> \in Seq(NodeIn) /\ <<>> \in Seq(EdgeIn)
    OBVIOUS
  <2> QED BY <2>1 DEF NoPayload, Payload
<1>3. payload[l] \in Payload
  BY <1>1, <1>2, LoaderAssumption
<1>4. payload[l].nodes \in Seq(NodeIn) /\ payload[l].edges \in Seq(EdgeIn)
  BY <1>3 DEF Payload
<1>5. payload[l] \notin Payloads => payload[l].nodes = <<>> /\ payload[l].edges = <<>>
  BY <1>1 DEF NoPayload
<1> QED BY <1>1, <1>3, <1>4, <1>5

\* The current item of a loader is a node of its payload ...
LEMMA CurrentNode ==
    ASSUME LoaderTypeOK, NEW l \in Loaders, At(l, "node")
    PROVE  /\ next[l] \in DOMAIN payload[l].nodes
           /\ Current(l) = payload[l].nodes[next[l]]
           /\ Current(l) \in NodeIn
           /\ payload[l] \in Payloads
<1>1. next[l] \in DOMAIN Items(payload[l]) /\ Items(payload[l])[next[l]].what = "node"
  BY DEF At
<1>2. /\ next[l] \in DOMAIN payload[l].nodes
      /\ Items(payload[l])[next[l]] = Item("node", payload[l].nodes[next[l]])
  BY <1>1, PayloadType, ItemsAre DEF Item
<1>3. Current(l) = payload[l].nodes[next[l]]
  BY <1>2 DEF Current, Item
<1> QED BY <1>2, <1>3, PayloadType

\* ... or one of its edges, and then all the nodes come before it.
LEMMA CurrentEdge ==
    ASSUME LoaderTypeOK, NEW l \in Loaders, At(l, "edge")
    PROVE  /\ \A i \in DOMAIN payload[l].nodes : i < next[l]
           /\ \E i \in DOMAIN payload[l].edges : Current(l) = payload[l].edges[i]
           /\ Current(l) \in EdgeIn
           /\ payload[l] \in Payloads
<1>1. next[l] \in DOMAIN Items(payload[l]) /\ Items(payload[l])[next[l]].what = "edge"
  BY DEF At
<1>2. /\ \A i \in DOMAIN payload[l].nodes : i < next[l]
      /\ \E i \in DOMAIN payload[l].edges :
            Items(payload[l])[next[l]] = Item("edge", payload[l].edges[i])
  BY <1>1, PayloadType, ItemsAre DEF Item
<1>3. PICK i \in DOMAIN payload[l].edges : Current(l) = payload[l].edges[i]
  BY <1>2 DEF Current, Item
<1>4. Current(l) \in EdgeIn
  BY <1>3, PayloadType
<1> QED BY <1>2, <1>3, <1>4, PayloadType

----------------------------------------------------------------------------
(* One transaction of a load, committed whether or not its reply arrives. *)

\* Decoding and encoding a node of known kind gives a node of the graph.
LEMMA StoredType ==
    ASSUME NEW n \in NodeIn, KnownKind(n)
    PROVE  Stored(n) \in Node
BY DEF NodeIn, KnownKind, Stored, Node, Maybe

\* Rewriting every DEPENDS_ON of a pair, or adding the first, keeps their type.
LEMMA DependsType ==
    ASSUME GraphTypeOK, NEW p \in Pairs, NEW via \in Maybe(Via), NEW weight \in Maybe(Nat),
           UpsertDependsOn(p[1], p[2], via, weight)
    PROVE  /\ deps' \in [Pairs -> Seq(DependsOn)]
           /\ \A q \in Pairs : q # p => deps'[q] = deps[q]
           /\ Len(deps'[p]) = IF deps[p] = <<>> THEN 1 ELSE Len(deps[p])
<1> DEFINE Updated(d) == [via |-> PlusEquals(d.via, via),
                          weight |-> PlusEquals(d.weight, weight)]
           rels == deps[p]
<1>1. p = <<p[1], p[2]>> /\ deps \in [Pairs -> Seq(DependsOn)]
  BY DEF GraphTypeOK, Pairs
<1>2. rels \in Seq(DependsOn) /\ DOMAIN rels = 1 .. Len(rels) /\ Len(rels) \in Nat
  BY <1>1
<1>3. \A d \in DependsOn : Updated(d) \in DependsOn
  BY DEF DependsOn, PlusEquals, Maybe
<1>4. [i \in DOMAIN rels |-> Updated(rels[i])] \in Seq(DependsOn)
  <2>1. \A i \in DOMAIN rels : Updated(rels[i]) \in DependsOn
    BY <1>2, <1>3
  <2> HIDE DEF Updated, rels
  <2> QED BY <1>2, <2>1
<1>5. <<[via |-> via, weight |-> weight]>> \in Seq(DependsOn)
  BY DEF DependsOn
<1>6. deps' = [deps EXCEPT ![p] = IF rels = <<>> THEN <<[via |-> via, weight |-> weight]>>
                                  ELSE [i \in DOMAIN rels |-> Updated(rels[i])]]
  BY <1>1 DEF UpsertDependsOn
<1>7. /\ Len([i \in DOMAIN rels |-> Updated(rels[i])]) = Len(rels)
      /\ Len(<<[via |-> via, weight |-> weight]>>) = 1
  <2> HIDE DEF Updated, rels
  <2> QED BY <1>2, <1>4
<1>8. rels = deps[p]
  OBVIOUS
<1> HIDE DEF Updated, rels
<1> QED BY <1>1, <1>4, <1>5, <1>6, <1>7, <1>8

\* Writing a node: it exists afterwards, and every other is as it was.
LEMMA WriteNode ==
    ASSUME LoaderTypeOK, NEW l \in Loaders, At(l, "node"), KnownKind(Current(l)),
           UpsertNode(Current(l).urn, Stored(Current(l)))
    PROVE  /\ GraphTypeOK'
           /\ DOMAIN nodes' = DOMAIN nodes \cup {Current(l).urn}
           /\ nodes'[Current(l).urn] = Stored(Current(l))
           /\ \A u \in DOMAIN nodes : u # Current(l).urn => nodes'[u] = nodes[u]
           /\ UNCHANGED <<edges, deps>>
<1> DEFINE n == Current(l)
<1>1. n \in NodeIn
  BY CurrentNode
<1>2. Stored(n) \in Node /\ n.urn \in URN
  BY <1>1, StoredType DEF NodeIn
<1>3. IsFiniteSet(DOMAIN nodes \cup {n.urn})
  BY FS_AddElement DEF LoaderTypeOK, GraphTypeOK
<1> QED BY <1>2, <1>3 DEF LoaderTypeOK, GraphTypeOK, UpsertNode

\* Writing an edge: no node changes, and what it adds joins two of them.
LEMMA WriteEdgeKeeps ==
    ASSUME LoaderTypeOK, NoDanglingEdges, NEW l \in Loaders, At(l, "edge"),
           KnownEdgeType(Current(l)),
           CanUpsertEdge(Current(l).from, Current(l).to), WriteEdge(Current(l))
    PROVE  GraphTypeOK' /\ NoDanglingEdges' /\ UNCHANGED nodes
<1> DEFINE e == Current(l)
<1>1. e \in EdgeIn /\ payload[l] \in Payloads
  BY CurrentEdge
<1>2. /\ e.from \in URN /\ e.to \in URN /\ e.prop \in Maybe(Prop)
      /\ e.via \in Maybe(Via) /\ e.weight \in Maybe(Nat)
      /\ e.type \in EdgeType \cup {"DEPENDS_ON"}
  BY <1>1 DEF EdgeIn, KnownEdgeType
<1>3. {e.from, e.to} \subseteq DOMAIN nodes
  BY DEF CanUpsertEdge
<1>4. GraphTypeOK
  BY DEF LoaderTypeOK
<1>5. CASE e.type = "DEPENDS_ON"
  <2> DEFINE p == <<e.from, e.to>>
  <2>1. p \in Pairs
    BY <1>1, <1>5, CurrentEdge, LoaderAssumption
  <2>2. UpsertDependsOn(p[1], p[2], e.via, e.weight)
    BY <1>5 DEF WriteEdge
  <2>3. UNCHANGED <<nodes, edges>>
    BY <2>2 DEF UpsertDependsOn
  <2>4. /\ deps' \in [Pairs -> Seq(DependsOn)]
        /\ \A q \in Pairs : q # p => deps'[q] = deps[q]
    BY <1>2, <1>4, <2>1, <2>2, DependsType
  <2>5. {p[1], p[2]} \subseteq DOMAIN nodes
    BY <1>3
  <2> HIDE DEF p
  <2> QED BY <1>4, <2>3, <2>4, <2>5 DEF GraphTypeOK, NoDanglingEdges
<1>6. CASE e.type \in EdgeType
  <2> DEFINE key == <<e.from, e.to, e.type>>
             old == IF key \in DOMAIN edges THEN edges[key] ELSE Absent
  <2>1. key \in EdgeKey /\ key[1] = e.from /\ key[2] = e.to
    BY <1>2, <1>6 DEF EdgeKey
  <2>2. UpsertEdge(e.from, e.to, e.type, e.prop)
    BY <1>6 DEF WriteEdge, EdgeType
  <2>3. /\ edges' = [k \in DOMAIN edges \cup {key} |->
                        IF k = key THEN PlusEquals(old, e.prop) ELSE edges[k]]
        /\ UNCHANGED <<nodes, deps>>
    BY <2>2 DEF UpsertEdge
  <2>4. PlusEquals(old, e.prop) \in Maybe(Prop)
    BY <1>2, <1>4 DEF PlusEquals, Maybe, GraphTypeOK
  <2> HIDE DEF key, old
  <2>5. GraphTypeOK'
    BY <1>4, <2>1, <2>3, <2>4 DEF GraphTypeOK
  <2>6. NoDanglingEdges'
    BY <1>3, <2>1, <2>3 DEF NoDanglingEdges
  <2> QED BY <2>3, <2>5, <2>6
<1> QED BY <1>2, <1>5, <1>6

----------------------------------------------------------------------------
(* What is rewritten is not written twice. *)

\* Loads alone keep one DEPENDS_ON for a pair, so none is there twice.
OneEach == \A q \in Pairs : Len(deps[q]) <= 1

LEMMA OneEachIsNoDuplicate == LoaderTypeOK /\ OneEach => RerunsDoNotDuplicate
<1> SUFFICES ASSUME LoaderTypeOK, OneEach, NEW q \in Pairs,
                    NEW i \in DOMAIN deps[q], NEW j \in DOMAIN deps[q]
             PROVE  i = j
  BY DEF RerunsDoNotDuplicate
<1>1. deps[q] \in Seq(DependsOn) /\ Len(deps[q]) <= 1
  BY DEF OneEach, LoaderTypeOK, GraphTypeOK
<1>2. DOMAIN deps[q] = 1 .. Len(deps[q]) /\ Len(deps[q]) \in Nat
  BY <1>1
<1> QED BY <1>1, <1>2

\* A DEPENDS_ON is added to a pair that has none, else those there are rewritten.
LEMMA WriteDoesNotDuplicate ==
    ASSUME LoaderTypeOK, NEW l \in Loaders, WriteItem(l), OneEach
    PROVE  OneEach'
<1>1. CASE UNCHANGED deps
  BY <1>1 DEF OneEach
<1>2. CASE At(l, "edge") /\ Current(l).type = "DEPENDS_ON" /\ WriteEdge(Current(l))
  <2> DEFINE e == Current(l)
             p == <<e.from, e.to>>
  <2>1. e \in EdgeIn /\ e.via \in Maybe(Via) /\ e.weight \in Maybe(Nat) /\ p \in Pairs
    BY <1>2, CurrentEdge, LoaderAssumption DEF EdgeIn
  <2>2. UpsertDependsOn(p[1], p[2], e.via, e.weight) /\ GraphTypeOK
    BY <1>2 DEF WriteEdge, LoaderTypeOK
  <2>3. /\ \A q \in Pairs : q # p => deps'[q] = deps[q]
        /\ Len(deps'[p]) = IF deps[p] = <<>> THEN 1 ELSE Len(deps[p])
    BY <2>1, <2>2, DependsType
  <2> HIDE DEF p
  <2> QED BY <2>1, <2>3 DEF OneEach
<1> QED BY <1>1, <1>2 DEF WriteItem, WriteEdge, UpsertNode, UpsertEdge

----------------------------------------------------------------------------
(* The inductive invariant. *)

\* An empty graph with no load started satisfies it.
LEMMA LoadInitInv == LoadInit => LoaderInv
<1> SUFFICES ASSUME LoadInit PROVE LoaderInv
  OBVIOUS
<1> USE DEF LoadInit, EmptyGraph, LoaderInit
<1>1. DOMAIN nodes = {} /\ DOMAIN edges = {} /\ nodes = [u \in DOMAIN nodes |-> nodes[u]]
  OBVIOUS
<1>2. <<>> \in Seq(DependsOn)
  OBVIOUS
<1>3. GraphTypeOK
  BY <1>1, <1>2, FS_EmptySet DEF GraphTypeOK
<1>4. LoaderTypeOK
  BY <1>3, LoaderAssumption DEF LoaderTypeOK
<1>5. NoDanglingEdges /\ NodesAreWhole
  BY <1>1 DEF NoDanglingEdges, NodesAreWhole
<1>6. NodesWritten /\ CompleteIsNeverRejected
  BY DEF NodesWritten, CompleteIsNeverRejected
<1> QED BY <1>4, <1>5, <1>6 DEF LoaderInv

\* What a transaction of a load leaves: the graph's part of the invariant, and
\* every node that was there.  Its item, when it is a node, is there now.
LEMMA WriteKeeps ==
    ASSUME LoaderInv, NEW l \in Loaders, WriteItem(l)
    PROVE  /\ GraphTypeOK' /\ NoDanglingEdges' /\ NodesAreWhole'
           /\ DOMAIN nodes \subseteq DOMAIN nodes'
           /\ At(l, "node") => Current(l).urn \in DOMAIN nodes'
<1> USE DEF LoaderInv
<1>1. CASE At(l, "node") /\ KnownKind(Current(l))
              /\ UpsertNode(Current(l).urn, Stored(Current(l)))
  <2>1. /\ GraphTypeOK'
        /\ DOMAIN nodes' = DOMAIN nodes \cup {Current(l).urn}
        /\ nodes'[Current(l).urn] = Stored(Current(l))
        /\ \A u \in DOMAIN nodes : u # Current(l).urn => nodes'[u] = nodes[u]
        /\ UNCHANGED <<edges, deps>>
    BY <1>1, WriteNode
  <2>2. NoDanglingEdges'
    BY <2>1 DEF NoDanglingEdges
  <2>3. /\ payload[l] \in Payloads
        /\ next[l] \in DOMAIN payload[l].nodes
        /\ Current(l) = payload[l].nodes[next[l]]
    BY <1>1, CurrentNode
  <2>4. NodesAreWhole'
    BY <2>1, <2>3 DEF NodesAreWhole
  <2> QED BY <2>1, <2>2, <2>4
<1>2. CASE At(l, "edge") /\ KnownEdgeType(Current(l))
              /\ CanUpsertEdge(Current(l).from, Current(l).to) /\ WriteEdge(Current(l))
  <2>1. GraphTypeOK' /\ NoDanglingEdges' /\ UNCHANGED nodes
    BY <1>2, WriteEdgeKeeps
  <2>2. ~At(l, "node")
    BY <1>2 DEF At
  <2> QED BY <2>1, <2>2 DEF NodesAreWhole
<1> QED BY <1>1, <1>2 DEF WriteItem

\* A load moves on to its next item, having written or skipped this one.
LEMMA AdvanceInv ==
    ASSUME LoaderInv, NEW l \in Loaders, SkipItem(l) \/ LoadItem(l)
    PROVE  LoaderInv'
<1> USE DEF LoaderInv
<1>1. Advance(l) /\ lpc[l] = "loading"
  BY DEF SkipItem, LoadItem, WriteItem, At
<1>2. /\ UNCHANGED <<lpc, payload, loads>>
      /\ next' = [next EXCEPT ![l] = next[l] + 1]
      /\ next[l] \in Nat
  BY <1>1 DEF Advance, LoaderTypeOK
<1>3. /\ GraphTypeOK' /\ NoDanglingEdges' /\ NodesAreWhole'
      /\ DOMAIN nodes \subseteq DOMAIN nodes'
      /\ (At(l, "node") /\ KnownKind(Current(l))) => Current(l).urn \in DOMAIN nodes'
  <2>1. CASE SkipItem(l)
    <3>1. UNCHANGED graph /\ ~(At(l, "node") /\ KnownKind(Current(l)))
      BY <2>1 DEF SkipItem, At
    <3> QED BY <3>1 DEF graph, LoaderTypeOK, GraphTypeOK, NoDanglingEdges, NodesAreWhole
  <2>2. CASE LoadItem(l)
    BY <2>2, WriteKeeps DEF LoadItem
  <2> QED BY <2>1, <2>2
<1>4. LoaderTypeOK'
  BY <1>2, <1>3 DEF LoaderTypeOK
<1>5. NodesWritten'
  <2> SUFFICES ASSUME NEW k \in Loaders, lpc[k] = "loading",
                      NEW i \in DOMAIN payload[k].nodes,
                      i < next'[k], KnownKind(payload[k].nodes[i])
               PROVE  payload[k].nodes[i].urn \in DOMAIN nodes'
    BY <1>2 DEF NodesWritten, KnownKind
  <2>1. i < next[k] => payload[k].nodes[i].urn \in DOMAIN nodes
    BY DEF NodesWritten
  <2>2. CASE i < next[k]
    BY <1>3, <2>1, <2>2
  <2>3. CASE ~(i < next[k])
    <3>1. i \in Nat /\ next[k] \in Nat
      BY PayloadType
    <3>2. k = l /\ i = next[l]
      BY <1>2, <2>3, <3>1 DEF LoaderTypeOK
    <3>3. ~At(l, "edge")
      <4> SUFFICES ASSUME At(l, "edge") PROVE FALSE
        OBVIOUS
      <4> QED BY <2>3, <3>2, CurrentEdge
    <3>4. At(l, "node")
      BY <3>3 DEF SkipItem, LoadItem, WriteItem
    <3>5. Current(l) = payload[l].nodes[i]
      BY <3>2, <3>4, CurrentNode
    <3> QED BY <1>3, <3>2, <3>4, <3>5
  <2> QED BY <2>2, <2>3
<1>6. CompleteIsNeverRejected'
  BY <1>2 DEF CompleteIsNeverRejected, SelfContained, AllKnown, KindsAgree, KnownKind
<1> QED BY <1>3, <1>4, <1>5, <1>6

\* The writer refuses nothing of a complete payload whose kinds the other
\* extractions agree with.
LEMMA RejectIncomplete ==
    ASSUME LoaderInv, NEW l \in Loaders, Reject(l)
    PROVE  ~(SelfContained(payload[l]) /\ AllKnown(payload[l]) /\ KindsAgree(payload[l]))
<1> USE DEF LoaderInv
<1> SUFFICES ASSUME SelfContained(payload[l]), AllKnown(payload[l]), KindsAgree(payload[l])
             PROVE  FALSE
  OBVIOUS
<1>1. CASE At(l, "node") /\ (\/ Malformed(Current(l))
                            \/ ~CanUpsertNode(Current(l).urn, Current(l)))
  <2> DEFINE n == Current(l)
  <2>1. next[l] \in DOMAIN payload[l].nodes /\ n = payload[l].nodes[next[l]]
    BY <1>1, CurrentNode
  <2>2. KnownKind(n)
    BY <2>1 DEF AllKnown
  <2>3. n.urn \in DOMAIN nodes /\ nodes[n.urn].kind # n.kind
    BY <1>1, <2>2, KindAssumption DEF Malformed, KnownKind, Kind, CanUpsertNode
  <2>4. PICK q \in Payloads : \E j \in DOMAIN q.nodes :
            q.nodes[j].urn = n.urn /\ nodes[n.urn] = Stored(q.nodes[j])
    BY <2>3 DEF NodesAreWhole
  <2>5. PICK j \in DOMAIN q.nodes :
            q.nodes[j].urn = n.urn /\ nodes[n.urn] = Stored(q.nodes[j])
    BY <2>4
  <2>6. nodes[n.urn].kind = q.nodes[j].kind
    BY <2>5 DEF Stored
  <2>7. KnownKind(q.nodes[j])
    BY <2>3, <2>6 DEF LoaderTypeOK, GraphTypeOK, Node, KnownKind
  <2>8. q.nodes[j].kind = n.kind
    BY <2>1, <2>5, <2>7 DEF KindsAgree
  <2> QED BY <2>3, <2>6, <2>8
<1>2. CASE At(l, "edge") /\ ~CanUpsertEdge(Current(l).from, Current(l).to)
  <2>1. PICK i \in DOMAIN payload[l].edges : Current(l) = payload[l].edges[i]
    BY <1>2, CurrentEdge
  <2>2. \A j \in DOMAIN payload[l].nodes : payload[l].nodes[j].urn \in DOMAIN nodes
    BY <1>2, CurrentEdge DEF AllKnown, NodesWritten, At
  <2>3. {Current(l).from, Current(l).to} \subseteq DOMAIN nodes
    BY <2>1, <2>2 DEF SelfContained
  <2> QED BY <1>2, <2>3 DEF CanUpsertEdge
<1> QED BY <1>1, <1>2 DEF Reject

\* A load that ends, well or not, changes nothing but where it is.
LEMMA EndLoadInv ==
    ASSUME LoaderInv, NEW l \in Loaders, NEW how \in Ended, End(l, how),
           GraphTypeOK', NoDanglingEdges', NodesAreWhole',
           DOMAIN nodes \subseteq DOMAIN nodes',
           how = "rejected" => ~(/\ SelfContained(payload[l])
                                 /\ AllKnown(payload[l])
                                 /\ KindsAgree(payload[l]))
    PROVE  LoaderInv'
<1> USE DEF LoaderInv
<1>1. lpc' = [lpc EXCEPT ![l] = how] /\ UNCHANGED <<payload, next, loads>>
  BY DEF End
<1>2. LoaderTypeOK'
  BY <1>1 DEF LoaderTypeOK
<1>3. \A k \in Loaders : lpc'[k] = IF k = l THEN how ELSE lpc[k]
  BY <1>1 DEF LoaderTypeOK
<1>4. NodesWritten'
  BY <1>1, <1>3 DEF NodesWritten, KnownKind, Ended
<1>5. CompleteIsNeverRejected'
  BY <1>1, <1>3 DEF CompleteIsNeverRejected, SelfContained, AllKnown, KindsAgree, KnownKind
<1> QED BY <1>2, <1>4, <1>5

\* A load begins with the first item of its payload.
LEMMA StartLoadInv ==
    ASSUME LoaderInv, NEW l \in Loaders, StartLoad(l)
    PROVE  LoaderInv'
<1> USE DEF LoaderInv
<1>1. PICK p \in Payloads :
        /\ loads < MaxLoads
        /\ lpc' = [lpc EXCEPT ![l] = "loading"]
        /\ payload' = [payload EXCEPT ![l] = p]
        /\ next' = [next EXCEPT ![l] = 1]
        /\ loads' = loads + 1
        /\ UNCHANGED <<nodes, edges, deps>>
  BY DEF StartLoad, graph
<1>2. GraphTypeOK' /\ NoDanglingEdges' /\ NodesAreWhole'
  <2>1. UNCHANGED <<nodes, edges, deps>>
    BY <1>1
  <2>2. GraphTypeOK'
    BY <2>1 DEF LoaderTypeOK, GraphTypeOK
  <2>3. NoDanglingEdges'
    BY <2>1 DEF NoDanglingEdges
  <2>4. NodesAreWhole'
    BY <2>1 DEF NodesAreWhole
  <2> QED BY <2>2, <2>3, <2>4
<1>3. LoaderTypeOK'
  <2>1. loads + 1 \in 0 .. MaxLoads
    BY <1>1, LoaderAssumption DEF LoaderTypeOK
  <2>2. payload' \in [Loaders -> Payloads \cup {NoPayload}]
    BY <1>1 DEF LoaderTypeOK
  <2>3. next' \in [Loaders -> Nat]
    BY <1>1 DEF LoaderTypeOK
  <2>4. lpc' \in [Loaders -> {"unstarted", "loading"} \cup Ended]
    BY <1>1 DEF LoaderTypeOK
  <2> QED BY <1>1, <1>2, <2>1, <2>2, <2>3, <2>4 DEF LoaderTypeOK
<1>4. NodesWritten'
  <2>1. \A i \in DOMAIN p.nodes : ~(i < 1)
    <3>1. DOMAIN p.nodes = 1 .. Len(p.nodes)
      BY LoaderAssumption DEF Payload
    <3> QED BY <3>1
  <2> QED BY <1>1, <2>1 DEF NodesWritten, KnownKind, LoaderTypeOK
<1>5. CompleteIsNeverRejected'
  BY <1>1 DEF CompleteIsNeverRejected, SelfContained, AllKnown, KindsAgree, KnownKind,
              LoaderTypeOK
<1> QED BY <1>2, <1>3, <1>4, <1>5

\* Every step of every load keeps the invariant.
LEMMA LoaderNextInv == LoaderInv /\ [LoaderNext]_loadVars => LoaderInv'
<1> SUFFICES ASSUME LoaderInv, [LoaderNext]_loadVars PROVE LoaderInv'
  OBVIOUS
<1>1. ASSUME NEW l \in Loaders, StartLoad(l) PROVE LoaderInv'
  BY <1>1, StartLoadInv
<1>2. ASSUME NEW l \in Loaders, SkipItem(l) \/ LoadItem(l) PROVE LoaderInv'
  BY <1>2, AdvanceInv
<1>3. ASSUME NEW l \in Loaders, Reject(l) \/ FinishLoad(l) \/ FailLoad(l) PROVE LoaderInv'
  <2>1. UNCHANGED <<nodes, edges, deps>>
    BY <1>3 DEF Reject, FinishLoad, FailLoad, graph
  <2>2. GraphTypeOK' /\ NoDanglingEdges' /\ NodesAreWhole' /\ DOMAIN nodes \subseteq DOMAIN nodes'
    BY <2>1 DEF LoaderInv, LoaderTypeOK, GraphTypeOK, NoDanglingEdges, NodesAreWhole
  <2>3. CASE Reject(l)
    BY <2>2, <2>3, RejectIncomplete, EndLoadInv DEF Reject, Ended
  <2>4. CASE FinishLoad(l)
    BY <2>2, <2>4, EndLoadInv DEF FinishLoad, Ended
  <2>5. CASE FailLoad(l)
    BY <2>2, <2>5, EndLoadInv DEF FailLoad, Ended
  <2> QED BY <1>3, <2>3, <2>4, <2>5
<1>4. ASSUME NEW l \in Loaders, FailLoadAfterCommit(l) PROVE LoaderInv'
  BY <1>4, WriteKeeps, EndLoadInv DEF FailLoadAfterCommit, Ended
<1>5. CASE UNCHANGED loadVars
  <2>1. UNCHANGED <<nodes, edges, deps, lpc, payload, next, loads>>
    BY <1>5 DEF loadVars, graph, loaderVars
  <2>2. LoaderTypeOK'
    BY <2>1 DEF LoaderInv, LoaderTypeOK, GraphTypeOK
  <2>3. NoDanglingEdges' /\ NodesAreWhole'
    BY <2>1 DEF LoaderInv, NoDanglingEdges, NodesAreWhole
  <2>4. NodesWritten'
    BY <2>1 DEF LoaderInv, NodesWritten, KnownKind
  <2>5. CompleteIsNeverRejected'
    BY <2>1 DEF LoaderInv, CompleteIsNeverRejected, SelfContained, AllKnown, KindsAgree, KnownKind
  <2> QED BY <2>2, <2>3, <2>4, <2>5 DEF LoaderInv
<1> QED BY <1>1, <1>2, <1>3, <1>4, <1>5 DEF LoaderNext, LoadStep

----------------------------------------------------------------------------
(* A load that ended well has left what its payload says. *)

\* The last place of a set of places in a payload.
IsLast(j, S) == j \in S /\ \A m \in S : m <= j

\* The nodes and edges a load has passed that name u, or k, and the edges among
\* them that set its property.
NamesNode(l, u) ==
    {j \in DOMAIN payload[l].nodes : /\ j < next[l]
                                     /\ payload[l].nodes[j].urn = u
                                     /\ KnownKind(payload[l].nodes[j])}
NamesEdge(l, k) ==
    {j \in DOMAIN payload[l].edges : /\ Len(payload[l].nodes) + j < next[l]
                                     /\ <<payload[l].edges[j].from, payload[l].edges[j].to,
                                          payload[l].edges[j].type>> = k}
SetsEdge(l, k) == {j \in NamesEdge(l, k) : payload[l].edges[j].prop # Absent}

\* The DEPENDS_ON it has passed for a pair, and those that set via, or weight.
NamesPair(l, q) ==
    {j \in DOMAIN payload[l].edges : /\ Len(payload[l].nodes) + j < next[l]
                                     /\ payload[l].edges[j].type = "DEPENDS_ON"
                                     /\ <<payload[l].edges[j].from, payload[l].edges[j].to>> = q}
SetsVia(l, q) == {j \in NamesPair(l, q) : payload[l].edges[j].via # Absent}
SetsWeight(l, q) == {j \in NamesPair(l, q) : payload[l].edges[j].weight # Absent}
AllVia(rels, via) == \A i \in DOMAIN rels : rels[i].via = via
AllWeight(rels, weight) == \A i \in DOMAIN rels : rels[i].weight = weight

\* What the last of them says is in the graph.
NodesSaid(l) ==
    \A u \in URN : NamesNode(l, u) # {} =>
        /\ u \in DOMAIN nodes
        /\ \E j \in NamesNode(l, u) : /\ IsLast(j, NamesNode(l, u))
                                      /\ nodes[u] = Stored(payload[l].nodes[j])
EdgesSaid(l) ==
    \A k \in EdgeKey :
        /\ NamesEdge(l, k) # {} => k \in DOMAIN edges
        /\ SetsEdge(l, k) # {} =>
                \E j \in SetsEdge(l, k) : /\ IsLast(j, SetsEdge(l, k))
                                          /\ edges[k] = payload[l].edges[j].prop
DependsSaid(l) ==
    \A q \in Pairs :
        /\ NamesPair(l, q) # {} => deps[q] # <<>>
        /\ SetsVia(l, q) # {} =>
                \E j \in SetsVia(l, q) : /\ IsLast(j, SetsVia(l, q))
                                         /\ AllVia(deps[q], payload[l].edges[j].via)
        /\ SetsWeight(l, q) # {} =>
                \E j \in SetsWeight(l, q) : /\ IsLast(j, SetsWeight(l, q))
                                            /\ AllWeight(deps[q], payload[l].edges[j].weight)

\* A load with no other beside it leaves what it says item by item, over
\* whatever an earlier load of its own left.
SaidSoFar(l) ==
    /\ next[l] >= 1
    /\ lpc[l] = "loaded" => next[l] \notin DOMAIN Items(payload[l])
    /\ NodesSaid(l) /\ EdgesSaid(l) /\ DependsSaid(l)
Alone(l) == \A k \in Loaders \ {l} : lpc[k] = "unstarted"
SaidInv ==
    \A l \in Loaders : (lpc[l] \in {"loading", "loaded"} /\ Alone(l)) => SaidSoFar(l)

\* The place of an edge among the items.
LEMMA CurrentEdgeAt ==
    ASSUME LoaderTypeOK, NEW l \in Loaders, At(l, "edge")
    PROVE  \E i \in DOMAIN payload[l].edges :
                /\ next[l] = Len(payload[l].nodes) + i
                /\ Current(l) = payload[l].edges[i]
<1> DEFINE p == payload[l]
<1>1. /\ p \in Payload /\ next[l] \in Nat
      /\ Len(p.nodes) \in Nat /\ Len(p.edges) \in Nat
      /\ DOMAIN p.nodes = 1 .. Len(p.nodes) /\ DOMAIN p.edges = 1 .. Len(p.edges)
  BY PayloadType
<1>2. /\ next[l] \in 1 .. Len(p.nodes) + Len(p.edges)
      /\ \A j \in 1 .. Len(p.nodes) : j < next[l]
  BY <1>1, ItemsInclude, CurrentEdge DEF At
<1>3. PICK i \in 1 .. Len(p.edges) : next[l] = Len(p.nodes) + i
  <2>1. ASSUME NEW m \in Nat, NEW n \in Nat, NEW k \in 1 .. m + n, \A j \in 1 .. m : j < k
        PROVE  \E i \in 1 .. n : k = m + i
    <3>1. ~(k <= m)
      <4>1. k <= m => k \in 1 .. m
        OBVIOUS
      <4> QED BY <2>1, <4>1
    <3>2. k - m \in 1 .. n /\ k = m + (k - m)
      BY <3>1
    <3> QED BY <3>2
  <2> QED BY <1>1, <1>2, <2>1
<1>4. Items(p)[next[l]] = Item("edge", p.edges[i])
  BY <1>1, <1>3, ItemsInclude
<1> QED BY <1>1, <1>3, <1>4 DEF Current, Item

\* Moving past a node: the last to name its URN, with all edges still to come.
LEMMA NodePassed ==
    ASSUME LoaderTypeOK, NEW l \in Loaders, SaidSoFar(l), At(l, "node"),
           SkipItem(l) \/ LoadItem(l)
    PROVE  NodesSaid(l)' /\ EdgesSaid(l)' /\ DependsSaid(l)'
<1> DEFINE p == payload[l]
           n == Current(l)
<1>1. ~At(l, "edge")
  BY DEF At
<1>2. /\ payload' = payload /\ next'[l] = next[l] + 1 /\ next[l] \in Nat
      /\ next[l] \in DOMAIN p.nodes /\ n = p.nodes[next[l]] /\ n.urn \in URN
  <2>1. Advance(l) /\ n \in NodeIn
    BY CurrentNode DEF SkipItem, LoadItem
  <2> QED BY <2>1, CurrentNode DEF Advance, LoaderTypeOK, NodeIn
<1>3. /\ Len(p.nodes) \in Nat /\ DOMAIN p.nodes = 1 .. Len(p.nodes)
      /\ DOMAIN p.edges = 1 .. Len(p.edges) /\ Len(p.edges) \in Nat
  BY PayloadType
<1>4. \A i \in DOMAIN p.edges : ~(Len(p.nodes) + i < next'[l])
  <2>1. ASSUME NEW m \in Nat, NEW c \in 1 .. m, NEW k \in Nat, NEW i \in 1 .. k
        PROVE  ~(m + i < c + 1)
    OBVIOUS
  <2> QED BY <1>2, <1>3, <2>1
<1>5. EdgesSaid(l)' /\ DependsSaid(l)'
  <2>1. \A k : NamesEdge(l, k)' = {} /\ SetsEdge(l, k)' = {}
    BY <1>2, <1>4 DEF NamesEdge, SetsEdge
  <2>2. \A q : NamesPair(l, q)' = {} /\ SetsVia(l, q)' = {} /\ SetsWeight(l, q)' = {}
    BY <1>2, <1>4 DEF NamesPair, SetsVia, SetsWeight
  <2> QED BY <2>1, <2>2 DEF EdgesSaid, DependsSaid
<1>6. \A j \in DOMAIN p.nodes : j < next'[l] <=> j < next[l] \/ j = next[l]
  BY <1>2, <1>3
<1>7. CASE SkipItem(l)
  <2>1. ~KnownKind(n) /\ nodes' = nodes
    BY <1>1, <1>7 DEF SkipItem, graph
  <2>2. \A u : NamesNode(l, u)' = NamesNode(l, u)
    BY <1>2, <1>6, <2>1 DEF NamesNode, KnownKind
  <2> QED BY <1>2, <1>5, <2>1, <2>2 DEF SaidSoFar, NodesSaid, Stored
<1>8. CASE LoadItem(l)
  <2>1. KnownKind(n) /\ UpsertNode(n.urn, Stored(n))
    BY <1>1, <1>8 DEF LoadItem, WriteItem
  <2>2. /\ DOMAIN nodes' = DOMAIN nodes \cup {n.urn} /\ nodes'[n.urn] = Stored(n)
        /\ \A u \in DOMAIN nodes : u # n.urn => nodes'[u] = nodes[u]
    BY <2>1, WriteNode
  <2>3. \A u : NamesNode(l, u)' = IF u = n.urn THEN NamesNode(l, u) \cup {next[l]}
                                  ELSE NamesNode(l, u)
    BY <1>2, <1>6, <2>1 DEF NamesNode, KnownKind
  <2>4. ASSUME NEW u \in URN, NamesNode(l, u)' # {}
        PROVE  /\ u \in DOMAIN nodes'
               /\ \E j \in NamesNode(l, u)' : /\ IsLast(j, NamesNode(l, u)')
                                              /\ nodes'[u] = Stored(p.nodes[j])
    <3>1. CASE u = n.urn
      <4>1. \A m \in NamesNode(l, u)' : m <= next[l]
        BY <1>2, <1>3, <2>3, <3>1 DEF NamesNode
      <4>2. next[l] \in NamesNode(l, u)'
        BY <2>3, <3>1
      <4> QED BY <1>2, <2>2, <3>1, <4>1, <4>2 DEF IsLast
    <3>2. CASE u # n.urn
      <4>1. NamesNode(l, u)' = NamesNode(l, u)
        BY <2>3, <3>2
      <4>2. PICK j \in NamesNode(l, u) : IsLast(j, NamesNode(l, u)) /\ nodes[u] = Stored(p.nodes[j])
        BY <2>4, <4>1 DEF SaidSoFar, NodesSaid
      <4>3. u \in DOMAIN nodes
        BY <2>4, <4>1 DEF SaidSoFar, NodesSaid
      <4> QED BY <2>2, <3>2, <4>1, <4>2, <4>3
    <3> QED BY <3>1, <3>2
  <2>5. NodesSaid(l)'
    <3> SUFFICES ASSUME NEW u \in URN, NamesNode(l, u)' # {}
                 PROVE  /\ u \in DOMAIN nodes'
                        /\ \E j \in NamesNode(l, u)' : /\ IsLast(j, NamesNode(l, u)')
                                                       /\ nodes'[u] = Stored(payload'[l].nodes[j])
      BY Zenon DEF NodesSaid
    <3> QED BY <1>2, <2>4
  <2> QED BY <1>5, <2>5
<1> QED BY <1>7, <1>8

\* What writing a DEPENDS_ON says of each relationship of its pair: the via and
\* the weight that are passed, and of those that are not what it was.
Rewritten(old, new, via, weight) ==
    /\ via # Absent => AllVia(new, via)
    /\ weight # Absent => AllWeight(new, weight)
    /\ (via = Absent /\ old # <<>>) => \A v : AllVia(old, v) => AllVia(new, v)
    /\ (weight = Absent /\ old # <<>>) => \A w : AllWeight(old, w) => AllWeight(new, w)

LEMMA DependsRewritten ==
    ASSUME deps \in [Pairs -> Seq(DependsOn)], NEW p \in Pairs, NEW via, NEW weight,
           UpsertDependsOn(p[1], p[2], via, weight)
    PROVE  Rewritten(deps[p], deps'[p], via, weight)
<1> DEFINE Updated(d) == [via |-> PlusEquals(d.via, via),
                          weight |-> PlusEquals(d.weight, weight)]
           rels == deps[p]
<1>1. p = <<p[1], p[2]>>
  BY DEF Pairs
<1>2. deps'[p] = IF rels = <<>> THEN <<[via |-> via, weight |-> weight]>>
                 ELSE [i \in DOMAIN rels |-> Updated(rels[i])]
  BY <1>1 DEF UpsertDependsOn
<1>3. CASE rels = <<>>
  <2>1. deps'[p] = <<[via |-> via, weight |-> weight]>>
    BY <1>2, <1>3
  <2>2. AllVia(deps'[p], via) /\ AllWeight(deps'[p], weight)
    BY <2>1 DEF AllVia, AllWeight
  <2> QED BY <1>3, <2>2 DEF Rewritten
<1>4. CASE rels # <<>>
  <2>1. DOMAIN deps'[p] = DOMAIN rels /\ \A i \in DOMAIN rels : deps'[p][i] = Updated(rels[i])
    BY <1>2, <1>4
  <2>2. \A i \in DOMAIN rels : /\ deps'[p][i].via = PlusEquals(rels[i].via, via)
                               /\ deps'[p][i].weight = PlusEquals(rels[i].weight, weight)
    <3>1. \A d : Updated(d).via = PlusEquals(d.via, via) /\ Updated(d).weight = PlusEquals(d.weight, weight)
      OBVIOUS
    <3> HIDE DEF Updated
    <3> QED BY <2>1, <3>1
  <2> HIDE DEF Updated, rels
  <2>3. /\ via # Absent => AllVia(deps'[p], via)
        /\ weight # Absent => AllWeight(deps'[p], weight)
    BY <2>1, <2>2 DEF AllVia, AllWeight, PlusEquals
  <2>4. /\ via = Absent => \A v : AllVia(rels, v) => AllVia(deps'[p], v)
        /\ weight = Absent => \A w : AllWeight(rels, w) => AllWeight(deps'[p], w)
    BY <2>1, <2>2 DEF AllVia, AllWeight, PlusEquals
  <2> QED BY <2>3, <2>4 DEF Rewritten, rels
<1> QED BY <1>3, <1>4

\* What an edge of the payload leaves in the graph.
LEMMA WriteEdgeSays ==
    ASSUME LoaderTypeOK, NEW l \in Loaders, At(l, "edge"), LoadItem(l)
    PROVE  LET e == Current(l)
               key == <<e.from, e.to, e.type>>
           IN  /\ nodes' = nodes
               /\ e.type \in EdgeType =>
                    /\ key \in EdgeKey
                    /\ DOMAIN edges' = DOMAIN edges \cup {key}
                    /\ \A k \in DOMAIN edges : k # key => edges'[k] = edges[k]
                    /\ e.prop # Absent => edges'[key] = e.prop
                    /\ (e.prop = Absent /\ key \in DOMAIN edges) => edges'[key] = edges[key]
                    /\ deps' = deps
               /\ e.type = "DEPENDS_ON" =>
                    /\ edges' = edges
                    /\ <<e.from, e.to>> \in Pairs
                    /\ \A q \in Pairs : q # <<e.from, e.to>> => deps'[q] = deps[q]
                    /\ deps'[<<e.from, e.to>>] # <<>>
                    /\ Rewritten(deps[<<e.from, e.to>>], deps'[<<e.from, e.to>>], e.via, e.weight)
               /\ e.type \in EdgeType \cup {"DEPENDS_ON"}
<1> DEFINE e == Current(l)
           key == <<e.from, e.to, e.type>>
           q0 == <<e.from, e.to>>
<1>1. /\ e \in EdgeIn /\ payload[l] \in Payloads /\ KnownEdgeType(e) /\ WriteEdge(e)
      /\ GraphTypeOK
  BY CurrentEdge DEF LoadItem, WriteItem, At, LoaderTypeOK
<1>2. /\ e.from \in URN /\ e.to \in URN /\ e.via \in Maybe(Via) /\ e.weight \in Maybe(Nat)
      /\ e.type \in EdgeType \cup {"DEPENDS_ON"}
  BY <1>1 DEF EdgeIn, KnownEdgeType
<1>3. CASE e.type = "DEPENDS_ON"
  <2>1. q0 \in Pairs
    BY <1>1, <1>3, CurrentEdge, LoaderAssumption
  <2>2. UpsertDependsOn(q0[1], q0[2], e.via, e.weight)
    BY <1>1, <1>3 DEF WriteEdge
  <2>3. /\ deps' \in [Pairs -> Seq(DependsOn)]
        /\ \A q \in Pairs : q # q0 => deps'[q] = deps[q]
        /\ Len(deps'[q0]) = IF deps[q0] = <<>> THEN 1 ELSE Len(deps[q0])
    BY <1>1, <1>2, <2>1, <2>2, DependsType
  <2>4. deps[q0] \in Seq(DependsOn) /\ deps'[q0] \in Seq(DependsOn)
    BY <1>1, <2>1, <2>3 DEF GraphTypeOK
  <2>5. deps'[q0] # <<>>
    <3>1. \A s \in Seq(DependsOn) : s # <<>> => Len(s) # 0
      OBVIOUS
    <3>2. Len(deps'[q0]) # 0
      BY <2>3, <2>4, <3>1
    <3> QED BY <3>2
  <2>6. nodes' = nodes /\ edges' = edges
    BY <2>2 DEF UpsertDependsOn
  <2>7. Rewritten(deps[q0], deps'[q0], e.via, e.weight)
    BY <1>1, <2>1, <2>2, DependsRewritten DEF GraphTypeOK
  <2> QED BY <1>2, <1>3, <2>1, <2>3, <2>5, <2>6, <2>7 DEF EdgeType
<1>4. CASE e.type \in EdgeType
  <2>1. UpsertEdge(e.from, e.to, e.type, e.prop)
    BY <1>1, <1>4 DEF WriteEdge, EdgeType
  <2>2. key \in EdgeKey
    BY <1>2, <1>4 DEF EdgeKey
  <2>3. /\ edges' = [k \in DOMAIN edges \cup {key} |->
                       IF k = key
                       THEN PlusEquals(IF key \in DOMAIN edges THEN edges[key] ELSE Absent, e.prop)
                       ELSE edges[k]]
        /\ nodes' = nodes /\ deps' = deps
    BY <2>1 DEF UpsertEdge
  <2> HIDE DEF key
  <2>4. /\ DOMAIN edges' = DOMAIN edges \cup {key}
        /\ \A k \in DOMAIN edges : k # key => edges'[k] = edges[k]
        /\ e.prop # Absent => edges'[key] = e.prop
        /\ (e.prop = Absent /\ key \in DOMAIN edges) => edges'[key] = edges[key]
    BY <2>3 DEF PlusEquals
  <2>5. e.type # "DEPENDS_ON"
    BY <1>4 DEF EdgeType
  <2> QED BY <1>4, <2>2, <2>3, <2>4, <2>5 DEF key
<1> QED BY <1>2, <1>3, <1>4

\* Moving past an edge that is no DEPENDS_ON.
LEMMA PairsUnnamed ==
    ASSUME NEW l \in Loaders, SaidSoFar(l), payload' = payload, deps' = deps,
           NEW c \in DOMAIN payload[l].edges, payload[l].edges[c].type # "DEPENDS_ON",
           \A i \in DOMAIN payload[l].edges :
                Len(payload[l].nodes) + i < next'[l] <=> Len(payload[l].nodes) + i < next[l] \/ i = c
    PROVE  DependsSaid(l)'
<1>1. \A q : /\ NamesPair(l, q)' = NamesPair(l, q)
             /\ SetsVia(l, q)' = SetsVia(l, q) /\ SetsWeight(l, q)' = SetsWeight(l, q)
  BY DEF NamesPair, SetsVia, SetsWeight
<1> QED BY <1>1 DEF SaidSoFar, DependsSaid

\* Moving past an edge: the last to name its ends and type, all nodes passed.
LEMMA EdgePassed ==
    ASSUME LoaderTypeOK, NEW l \in Loaders, SaidSoFar(l), At(l, "edge"),
           SkipItem(l) \/ LoadItem(l)
    PROVE  NodesSaid(l)' /\ EdgesSaid(l)' /\ DependsSaid(l)'
<1> DEFINE p == payload[l]
           e == Current(l)
           key == <<e.from, e.to, e.type>>
<1>1. ~At(l, "node")
  BY DEF At
<1>2. PICK c \in DOMAIN p.edges : next[l] = Len(p.nodes) + c /\ e = p.edges[c]
  BY CurrentEdgeAt
<1>3. /\ Len(p.nodes) \in Nat /\ DOMAIN p.nodes = 1 .. Len(p.nodes)
      /\ DOMAIN p.edges = 1 .. Len(p.edges) /\ Len(p.edges) \in Nat /\ next[l] \in Nat
      /\ p.edges \in Seq(EdgeIn)
  BY PayloadType
<1>4. payload' = payload /\ next'[l] = next[l] + 1
  BY DEF SkipItem, LoadItem, Advance, LoaderTypeOK
<1>5. nodes' = nodes
  BY <1>1, WriteEdgeSays DEF SkipItem, graph
<1>6. NodesSaid(l)'
  <2>1. \A j \in DOMAIN p.nodes : j < next[l] /\ j < next'[l]
    <3>1. \A j \in DOMAIN p.nodes : j < next[l]
      BY CurrentEdge
    <3> QED BY <1>3, <1>4, <3>1
  <2>2. \A u : NamesNode(l, u)' = NamesNode(l, u)
    BY <1>4, <2>1 DEF NamesNode, KnownKind
  <2>3. NodesSaid(l)
    BY DEF SaidSoFar
  <2> SUFFICES ASSUME NEW u \in URN, NamesNode(l, u)' # {}
               PROVE  /\ u \in DOMAIN nodes'
                      /\ \E j \in NamesNode(l, u)' : /\ IsLast(j, NamesNode(l, u)')
                                                     /\ nodes'[u] = Stored(payload'[l].nodes[j])
    BY Zenon DEF NodesSaid
  <2> QED BY <1>4, <1>5, <2>2, <2>3 DEF NodesSaid
<1>7. \A i \in DOMAIN p.edges :
        /\ Len(p.nodes) + i < next'[l] <=> Len(p.nodes) + i < next[l] \/ i = c
        /\ Len(p.nodes) + i < next[l] => i <= c
  <2>1. ASSUME NEW m \in Nat, NEW n \in Nat, NEW i \in 1 .. n, NEW j \in 1 .. n
        PROVE  /\ m + i < (m + j) + 1 <=> m + i < m + j \/ i = j
               /\ m + i < m + j => i <= j
    OBVIOUS
  <2>2. c \in 1 .. Len(p.edges)
    BY <1>3
  <2>3. ASSUME NEW i \in DOMAIN p.edges
        PROVE  /\ Len(p.nodes) + i < next'[l] <=> Len(p.nodes) + i < next[l] \/ i = c
               /\ Len(p.nodes) + i < next[l] => i <= c
    <3>1. i \in 1 .. Len(p.edges)
      BY <1>3
    <3> QED BY <1>2, <1>3, <1>4, <2>1, <2>2, <3>1
  <2> QED BY <2>3
<1>8. c <= c
  BY <1>3
<1>9. CASE e.type \notin EdgeType
  <2>1. edges' = edges
    BY <1>1, <1>9, WriteEdgeSays DEF SkipItem, graph
  <2>2. \A k \in EdgeKey : NamesEdge(l, k)' = NamesEdge(l, k) /\ SetsEdge(l, k)' = SetsEdge(l, k)
    <3>1. \A k \in EdgeKey : k # key
      BY <1>9 DEF EdgeKey
    <3> QED BY <1>2, <1>4, <1>7, <3>1 DEF NamesEdge, SetsEdge
  <2>3. EdgesSaid(l)'
    BY <1>4, <2>1, <2>2 DEF SaidSoFar, EdgesSaid
  <2>4. DependsSaid(l)'
    <3>1. CASE SkipItem(l)
      <4>1. e.type = "unknown" /\ deps' = deps
        BY <1>1, <3>1 DEF SkipItem, KnownEdgeType, graph
      <4> QED BY <1>2, <1>4, <1>7, <4>1, PairsUnnamed
    <3>2. CASE LoadItem(l)
      <4>0. PICK q0 \in Pairs : q0 = <<e.from, e.to>>
        BY <1>9, <3>2, WriteEdgeSays
      <4>1. /\ e.type = "DEPENDS_ON"
            /\ \A q \in Pairs : q # q0 => deps'[q] = deps[q]
            /\ deps'[q0] # <<>>
            /\ Rewritten(deps[q0], deps'[q0], e.via, e.weight)
        BY <1>9, <3>2, <4>0, WriteEdgeSays
      <4>2. \A q \in Pairs :
                /\ NamesPair(l, q)' = IF q = q0 THEN NamesPair(l, q) \cup {c} ELSE NamesPair(l, q)
                /\ SetsVia(l, q)' = IF q = q0 /\ e.via # Absent THEN SetsVia(l, q) \cup {c}
                                    ELSE SetsVia(l, q)
                /\ SetsWeight(l, q)' = IF q = q0 /\ e.weight # Absent
                                       THEN SetsWeight(l, q) \cup {c} ELSE SetsWeight(l, q)
        <5> SUFFICES ASSUME NEW q \in Pairs
                     PROVE  /\ NamesPair(l, q)' = IF q = q0 THEN NamesPair(l, q) \cup {c}
                                                  ELSE NamesPair(l, q)
                            /\ SetsVia(l, q)' = IF q = q0 /\ e.via # Absent
                                                THEN SetsVia(l, q) \cup {c} ELSE SetsVia(l, q)
                            /\ SetsWeight(l, q)' = IF q = q0 /\ e.weight # Absent
                                                   THEN SetsWeight(l, q) \cup {c}
                                                   ELSE SetsWeight(l, q)
          OBVIOUS
        <5>1. p.edges[c] = e /\ e.type = "DEPENDS_ON" /\ payload'[l] = p
          BY <1>2, <1>4, <4>1
        <5>2. NamesPair(l, q)' = IF q = q0 THEN NamesPair(l, q) \cup {c} ELSE NamesPair(l, q)
          BY <1>7, <4>0, <5>1 DEF NamesPair
        <5>3. SetsVia(l, q)' = {j \in NamesPair(l, q)' : p.edges[j].via # Absent}
          BY <5>1 DEF SetsVia
        <5>4. SetsWeight(l, q)' = {j \in NamesPair(l, q)' : p.edges[j].weight # Absent}
          BY <5>1 DEF SetsWeight
        <5>5. SetsVia(l, q)' = IF q = q0 /\ e.via # Absent THEN SetsVia(l, q) \cup {c}
                               ELSE SetsVia(l, q)
          BY <5>1, <5>2, <5>3 DEF SetsVia
        <5>6. SetsWeight(l, q)' = IF q = q0 /\ e.weight # Absent THEN SetsWeight(l, q) \cup {c}
                                  ELSE SetsWeight(l, q)
          BY <5>1, <5>2, <5>4 DEF SetsWeight
        <5> QED BY <5>2, <5>5, <5>6
      <4>3. /\ \A m \in SetsVia(l, q0) \cup SetsWeight(l, q0) : m <= c
            /\ SetsVia(l, q0) \cup SetsWeight(l, q0) \subseteq NamesPair(l, q0)
        BY <1>7 DEF NamesPair, SetsVia, SetsWeight
      <4>4. ASSUME NEW q \in Pairs, q # q0
            PROVE  /\ NamesPair(l, q)' # {} => deps'[q] # <<>>
                   /\ SetsVia(l, q)' # {} =>
                        \E j \in SetsVia(l, q)' : /\ IsLast(j, SetsVia(l, q)')
                                                  /\ AllVia(deps'[q], p.edges[j].via)
                   /\ SetsWeight(l, q)' # {} =>
                        \E j \in SetsWeight(l, q)' : /\ IsLast(j, SetsWeight(l, q)')
                                                     /\ AllWeight(deps'[q], p.edges[j].weight)
        <5>1. /\ NamesPair(l, q)' = NamesPair(l, q) /\ SetsVia(l, q)' = SetsVia(l, q)
              /\ SetsWeight(l, q)' = SetsWeight(l, q) /\ deps'[q] = deps[q]
          BY <4>1, <4>2, <4>4
        <5> QED BY <5>1 DEF SaidSoFar, DependsSaid
      <4>5. /\ NamesPair(l, q0) # {} => deps[q0] # <<>>
            /\ SetsVia(l, q0) # {} =>
                    \E j \in SetsVia(l, q0) : /\ IsLast(j, SetsVia(l, q0))
                                              /\ AllVia(deps[q0], p.edges[j].via)
            /\ SetsWeight(l, q0) # {} =>
                    \E j \in SetsWeight(l, q0) : /\ IsLast(j, SetsWeight(l, q0))
                                                 /\ AllWeight(deps[q0], p.edges[j].weight)
        BY <4>1 DEF SaidSoFar, DependsSaid
      <4>6. SetsVia(l, q0)' # {} =>
                \E j \in SetsVia(l, q0)' : /\ IsLast(j, SetsVia(l, q0)')
                                           /\ AllVia(deps'[q0], p.edges[j].via)
        <5>1. CASE e.via # Absent
          <6>1. SetsVia(l, q0)' = SetsVia(l, q0) \cup {c} /\ AllVia(deps'[q0], p.edges[c].via)
            <7>1. SetsVia(l, q0)' = SetsVia(l, q0) \cup {c}
              BY <4>1, <4>2, <5>1
            <7>2. AllVia(deps'[q0], e.via)
              BY <4>1, <5>1 DEF Rewritten
            <7> QED BY <1>2, <7>1, <7>2
          <6>2. IsLast(c, SetsVia(l, q0)')
            BY <1>8, <4>3, <6>1 DEF IsLast
          <6> QED BY <6>1, <6>2
        <5>2. CASE e.via = Absent
          <6>1. SetsVia(l, q0)' = SetsVia(l, q0)
            BY <4>1, <4>2, <5>2
          <6>2. SetsVia(l, q0) # {} =>
                    /\ deps[q0] # <<>>
                    /\ \A v : AllVia(deps[q0], v) => AllVia(deps'[q0], v)
            BY <4>1, <4>3, <4>5, <5>2 DEF Rewritten
          <6> QED BY <4>5, <6>1, <6>2
        <5> QED BY <5>1, <5>2
      <4>7. SetsWeight(l, q0)' # {} =>
                \E j \in SetsWeight(l, q0)' : /\ IsLast(j, SetsWeight(l, q0)')
                                              /\ AllWeight(deps'[q0], p.edges[j].weight)
        <5>1. CASE e.weight # Absent
          <6>1. /\ SetsWeight(l, q0)' = SetsWeight(l, q0) \cup {c}
                /\ AllWeight(deps'[q0], p.edges[c].weight)
            <7>1. SetsWeight(l, q0)' = SetsWeight(l, q0) \cup {c}
              BY <4>1, <4>2, <5>1
            <7>2. AllWeight(deps'[q0], e.weight)
              BY <4>1, <5>1 DEF Rewritten
            <7> QED BY <1>2, <7>1, <7>2
          <6>2. IsLast(c, SetsWeight(l, q0)')
            BY <1>8, <4>3, <6>1 DEF IsLast
          <6> QED BY <6>1, <6>2
        <5>2. CASE e.weight = Absent
          <6>1. SetsWeight(l, q0)' = SetsWeight(l, q0)
            BY <4>1, <4>2, <5>2
          <6>2. SetsWeight(l, q0) # {} =>
                    /\ deps[q0] # <<>>
                    /\ \A w : AllWeight(deps[q0], w) => AllWeight(deps'[q0], w)
            BY <4>1, <4>3, <4>5, <5>2 DEF Rewritten
          <6> QED BY <4>5, <6>1, <6>2
        <5> QED BY <5>1, <5>2
      <4> QED BY <1>4, <4>1, <4>4, <4>6, <4>7 DEF DependsSaid, IsLast, AllVia, AllWeight
    <3> QED BY <3>1, <3>2
  <2> QED BY <1>6, <2>3, <2>4
<1>10. CASE e.type \in EdgeType
  <2>1. LoadItem(l)
    BY <1>1, <1>10 DEF SkipItem, KnownEdgeType, EdgeType
  <2>2. /\ key \in EdgeKey
        /\ DOMAIN edges' = DOMAIN edges \cup {key}
        /\ \A k \in DOMAIN edges : k # key => edges'[k] = edges[k]
        /\ e.prop # Absent => edges'[key] = e.prop
        /\ (e.prop = Absent /\ key \in DOMAIN edges) => edges'[key] = edges[key]
        /\ deps' = deps
    BY <1>10, <2>1, WriteEdgeSays
  <2>3. DependsSaid(l)'
    <3>1. e.type # "DEPENDS_ON"
      BY <1>10 DEF EdgeType
    <3> QED BY <1>2, <1>4, <1>7, <2>2, <3>1, PairsUnnamed
  <2>4. \A k \in EdgeKey :
            /\ NamesEdge(l, k)' = IF k = key THEN NamesEdge(l, k) \cup {c} ELSE NamesEdge(l, k)
            /\ SetsEdge(l, k)' = IF k = key /\ e.prop # Absent THEN SetsEdge(l, k) \cup {c}
                                 ELSE SetsEdge(l, k)
    BY <1>2, <1>4, <1>7 DEF NamesEdge, SetsEdge
  <2> HIDE DEF key
  <2>5. ASSUME NEW k \in EdgeKey
        PROVE  /\ NamesEdge(l, k)' # {} => k \in DOMAIN edges'
               /\ SetsEdge(l, k)' # {} =>
                    \E j \in SetsEdge(l, k)' : /\ IsLast(j, SetsEdge(l, k)')
                                               /\ edges'[k] = p.edges[j].prop
    <3>1. /\ NamesEdge(l, k) # {} => k \in DOMAIN edges
          /\ SetsEdge(l, k) # {} => NamesEdge(l, k) # {}
          /\ SetsEdge(l, k) # {} =>
                \E j \in SetsEdge(l, k) : /\ IsLast(j, SetsEdge(l, k))
                                          /\ edges[k] = p.edges[j].prop
      BY DEF SaidSoFar, EdgesSaid, SetsEdge
    <3>2. CASE k = key /\ e.prop # Absent
      <4>1. SetsEdge(l, k)' = SetsEdge(l, k) \cup {c}
        BY <2>4, <3>2
      <4>2. \A m \in SetsEdge(l, k)' : m <= c
        BY <1>7, <1>8, <4>1 DEF SetsEdge, NamesEdge
      <4> QED BY <1>2, <2>2, <3>2, <4>1, <4>2 DEF IsLast
    <3>3. CASE ~(k = key /\ e.prop # Absent)
      <4>1. SetsEdge(l, k)' = SetsEdge(l, k)
        BY <2>4, <3>3
      <4>2. k \in DOMAIN edges => edges'[k] = edges[k]
        BY <2>2, <3>3
      <4>3. NamesEdge(l, k)' # {} => k \in DOMAIN edges'
        BY <2>2, <2>4, <3>1
      <4> QED BY <3>1, <4>1, <4>2, <4>3
    <3> QED BY <3>2, <3>3
  <2>6. EdgesSaid(l)'
    BY <1>4, <2>5 DEF EdgesSaid
  <2> QED BY <1>6, <2>3, <2>6
<1> QED BY <1>9, <1>10

\* Nothing it has said is unsaid while the load stands still.
LEMMA SaidStays ==
    ASSUME NEW l \in Loaders, SaidSoFar(l), UNCHANGED graph,
           payload'[l] = payload[l], next'[l] = next[l],
           lpc'[l] = "loaded" => lpc[l] = "loaded" \/ next[l] \notin DOMAIN Items(payload[l])
    PROVE  SaidSoFar(l)'
<1>1. nodes' = nodes /\ edges' = edges /\ deps' = deps
  BY DEF graph
<1>2. \A u : NamesNode(l, u)' = NamesNode(l, u) /\ SetsEdge(l, u)' = SetsEdge(l, u)
             /\ NamesEdge(l, u)' = NamesEdge(l, u)
  BY DEF NamesNode, NamesEdge, SetsEdge, KnownKind
<1>3. NodesSaid(l)'
  <2> SUFFICES ASSUME NEW u \in URN, NamesNode(l, u) # {}
               PROVE  /\ u \in DOMAIN nodes
                      /\ \E j \in NamesNode(l, u) : /\ IsLast(j, NamesNode(l, u))
                                                    /\ nodes[u] = Stored(payload'[l].nodes[j])
    BY <1>1, <1>2, Zenon DEF NodesSaid
  <2> QED BY DEF SaidSoFar, NodesSaid
<1>4. EdgesSaid(l)'
  BY <1>1, <1>2 DEF SaidSoFar, EdgesSaid
<1>5. DependsSaid(l)'
  <2>1. \A q : /\ NamesPair(l, q)' = NamesPair(l, q)
               /\ SetsVia(l, q)' = SetsVia(l, q) /\ SetsWeight(l, q)' = SetsWeight(l, q)
    BY DEF NamesPair, SetsVia, SetsWeight
  <2> QED BY <1>1, <2>1 DEF SaidSoFar, DependsSaid
<1>6. next'[l] >= 1 /\ (lpc'[l] = "loaded" => next'[l] \notin DOMAIN Items(payload'[l]))
  BY DEF SaidSoFar
<1>7. Items(payload'[l]) = Items(payload[l])
  OBVIOUS
<1> QED BY <1>3, <1>4, <1>5, <1>6, <1>7 DEF SaidSoFar

\* Every step: the loader's own moves by the lemmas above, and it has no other
\* beside it.
LEMMA SaidNext == LoaderTypeOK /\ SaidInv /\ [LoaderNext]_loadVars => SaidInv'
<1> SUFFICES ASSUME LoaderTypeOK, SaidInv, [LoaderNext]_loadVars,
                    NEW l \in Loaders, lpc'[l] \in {"loading", "loaded"}, Alone(l)'
             PROVE  SaidSoFar(l)'
  BY DEF SaidInv
<1>1. lpc \in [Loaders -> {"unstarted", "loading"} \cup Ended] /\ next[l] \in Nat
  BY DEF LoaderTypeOK
<1>2. ASSUME NEW k \in Loaders, k # l,
             StartLoad(k) \/ LoadStep(k) \/ FailLoad(k) \/ FailLoadAfterCommit(k)
      PROVE  FALSE
  <2>1. lpc'[k] # "unstarted"
    BY <1>1, <1>2 DEF StartLoad, LoadStep, SkipItem, LoadItem, WriteItem, Reject, FinishLoad,
            FailLoad, FailLoadAfterCommit, Advance, End, At, Ended
  <2> QED BY <1>2, <2>1 DEF Alone
<1>3. CASE StartLoad(l)
  <2>1. /\ next'[l] = 1 /\ payload'[l] \in Payloads /\ lpc'[l] = "loading"
    BY <1>3 DEF StartLoad, LoaderTypeOK
  <2>2. payload'[l].nodes \in Seq(NodeIn) /\ payload'[l].edges \in Seq(EdgeIn)
    BY <2>1, LoaderAssumption DEF Payload
  <2>3. /\ \A i \in DOMAIN payload'[l].nodes : ~(i < 1)
        /\ \A i \in DOMAIN payload'[l].edges : ~(Len(payload'[l].nodes) + i < 1)
    BY <2>2
  <2>4. \A u : NamesNode(l, u)' = {} /\ NamesEdge(l, u)' = {} /\ SetsEdge(l, u)' = {}
    BY <2>1, <2>3 DEF NamesNode, NamesEdge, SetsEdge
  <2>5. \A q : NamesPair(l, q)' = {} /\ SetsVia(l, q)' = {} /\ SetsWeight(l, q)' = {}
    BY <2>1, <2>3 DEF NamesPair, SetsVia, SetsWeight
  <2> QED BY <2>1, <2>3, <2>4, <2>5 DEF SaidSoFar, NodesSaid, EdgesSaid, DependsSaid
<1>4. (LoadStep(l) \/ UNCHANGED loadVars) => SaidSoFar(l)
  <2>1. LoadStep(l) => lpc[l] = "loading"
    BY DEF LoadStep, SkipItem, LoadItem, WriteItem, Reject, FinishLoad, At
  <2>2. (LoadStep(l) \/ UNCHANGED loadVars) => \A k \in Loaders \ {l} : lpc'[k] = lpc[k]
    BY <1>1 DEF LoadStep, SkipItem, LoadItem, Reject, FinishLoad, Advance, End,
                loadVars, loaderVars
  <2>3. (LoadStep(l) \/ UNCHANGED loadVars) => Alone(l)
    BY <2>2 DEF Alone
  <2>4. UNCHANGED loadVars => lpc[l] \in {"loading", "loaded"}
    BY DEF loadVars, loaderVars
  <2> QED BY <2>1, <2>3, <2>4 DEF SaidInv
<1>5. CASE SkipItem(l) \/ LoadItem(l)
  <2>1. /\ lpc[l] = "loading" /\ Advance(l) /\ (At(l, "node") \/ At(l, "edge"))
    BY <1>5 DEF SkipItem, LoadItem, WriteItem, At
  <2>2. lpc'[l] = "loading" /\ next'[l] = next[l] + 1
    BY <2>1 DEF Advance, LoaderTypeOK
  <2>3. SaidSoFar(l)
    BY <1>4, <1>5 DEF LoadStep
  <2>4. NodesSaid(l)' /\ EdgesSaid(l)' /\ DependsSaid(l)'
    BY <1>5, <2>1, <2>3, NodePassed, EdgePassed
  <2>5. next'[l] >= 1
    BY <1>1, <2>2
  <2> QED BY <2>2, <2>4, <2>5 DEF SaidSoFar
<1>6. CASE FinishLoad(l)
  <2>1. /\ payload'[l] = payload[l] /\ next'[l] = next[l] /\ UNCHANGED graph
        /\ next[l] \notin DOMAIN Items(payload[l])
    BY <1>6 DEF FinishLoad, End
  <2> QED BY <1>4, <1>6, <2>1, SaidStays DEF LoadStep
<1>7. CASE Reject(l) \/ FailLoad(l) \/ FailLoadAfterCommit(l)
  <2>1. lpc'[l] \in {"rejected", "failed"}
    BY <1>1, <1>7 DEF Reject, FailLoad, FailLoadAfterCommit, End
  <2> QED BY <2>1
<1>8. CASE UNCHANGED loadVars
  BY <1>4, <1>8, SaidStays DEF loadVars, loaderVars
<1> QED BY <1>2, <1>3, <1>5, <1>6, <1>7, <1>8 DEF LoaderNext, LoadStep

\* At the end of a payload that is all it says.
LEMMA SaidAtTheEnd ==
    ASSUME LoaderTypeOK, SaidInv
    PROVE  LoadLeavesPayload
<1> SUFFICES ASSUME NEW l \in Loaders, lpc[l] = "loaded", Alone(l)
             PROVE  LET p == payload[l]
                    IN  /\ \A i \in DOMAIN p.nodes : KnownKind(p.nodes[i]) =>
                              /\ p.nodes[i].urn \in DOMAIN nodes
                              /\ nodes[p.nodes[i].urn] \in NodeSays(p, p.nodes[i].urn)
                        /\ \A k \in EdgeKeys(p) :
                              /\ k \in DOMAIN edges
                              /\ EdgeSays(p, k) # {} => edges[k] \in EdgeSays(p, k)
                        /\ \A q \in PairsOf(p) : \E i \in DOMAIN deps[q] :
                              /\ ViaSays(p, q) # {} => deps[q][i].via \in ViaSays(p, q)
                              /\ WeightSays(p, q) # {} => deps[q][i].weight \in WeightSays(p, q)
  BY DEF LoadLeavesPayload, Alone
<1> DEFINE p == payload[l]
<1>1. /\ p \in Payload /\ next[l] \in Nat
      /\ p.nodes \in Seq(NodeIn) /\ p.edges \in Seq(EdgeIn)
      /\ Len(p.nodes) \in Nat /\ Len(p.edges) \in Nat
      /\ DOMAIN p.nodes = 1 .. Len(p.nodes) /\ DOMAIN p.edges = 1 .. Len(p.edges)
  BY PayloadType
<1>2. SaidSoFar(l)
  BY DEF SaidInv
<1>3. next[l] >= 1 /\ next[l] \notin 1 .. Len(p.nodes) + Len(p.edges)
  BY <1>1, <1>2, ItemsInclude DEF SaidSoFar
<1>4. /\ \A i \in DOMAIN p.nodes : i < next[l]
      /\ \A i \in DOMAIN p.edges : Len(p.nodes) + i < next[l]
  <2>1. ASSUME NEW m \in Nat, NEW n \in Nat, NEW k \in Nat, k >= 1, k \notin 1 .. m + n
        PROVE  (\A i \in 1 .. m : i < k) /\ (\A i \in 1 .. n : m + i < k)
    BY <2>1
  <2> QED BY <1>1, <1>3, <2>1
<1>5. ASSUME NEW i \in DOMAIN p.nodes, KnownKind(p.nodes[i])
      PROVE  /\ p.nodes[i].urn \in DOMAIN nodes
             /\ nodes[p.nodes[i].urn] \in NodeSays(p, p.nodes[i].urn)
  <2> DEFINE u == p.nodes[i].urn
             named == {j \in DOMAIN p.nodes : p.nodes[j].urn = u /\ KnownKind(p.nodes[j])}
  <2>1. u \in URN
    <3>1. p.nodes[i] \in NodeIn
      BY <1>1
    <3> QED BY <3>1 DEF NodeIn
  <2>2. NamesNode(l, u) = named
    BY <1>4 DEF NamesNode
  <2>3. i \in named
    BY <1>5
  <2> HIDE DEF named
  <2>4. u \in DOMAIN nodes /\ \E j \in named : IsLast(j, named) /\ nodes[u] = Stored(p.nodes[j])
    BY <1>2, <2>1, <2>2, <2>3 DEF SaidSoFar, NodesSaid
  <2>5. NodeSays(p, u) = {Stored(p.nodes[j]) : j \in {m \in named : \A k \in named : k <= m}}
    BY DEF NodeSays, named
  <2> QED BY <2>4, <2>5 DEF IsLast
<1>6. ASSUME NEW k \in EdgeKeys(p)
      PROVE  /\ k \in DOMAIN edges
             /\ EdgeSays(p, k) # {} => edges[k] \in EdgeSays(p, k)
  <2> DEFINE named == {j \in DOMAIN p.edges :
                         /\ <<p.edges[j].from, p.edges[j].to, p.edges[j].type>> = k
                         /\ p.edges[j].prop # Absent}
  <2>1. PICK i \in DOMAIN p.edges :
            /\ k = <<p.edges[i].from, p.edges[i].to, p.edges[i].type>>
            /\ p.edges[i].type \in EdgeType
    BY DEF EdgeKeys
  <2>2. k \in EdgeKey
    <3>1. p.edges[i] \in EdgeIn
      BY <1>1
    <3> QED BY <2>1, <3>1 DEF EdgeIn, EdgeKey
  <2>3. i \in NamesEdge(l, k)
    BY <1>4, <2>1 DEF NamesEdge
  <2>4. SetsEdge(l, k) = named
    BY <1>4 DEF SetsEdge, NamesEdge
  <2> HIDE DEF named
  <2>5. /\ k \in DOMAIN edges
        /\ named # {} => \E j \in named : IsLast(j, named) /\ edges[k] = p.edges[j].prop
    BY <1>2, <2>2, <2>3, <2>4 DEF SaidSoFar, EdgesSaid
  <2>6. EdgeSays(p, k) = {p.edges[j].prop : j \in {m \in named : \A n \in named : n <= m}}
    BY DEF EdgeSays, named
  <2> QED BY <2>5, <2>6 DEF IsLast
<1>7. ASSUME NEW q \in PairsOf(p)
      PROVE  \E i \in DOMAIN deps[q] :
                /\ ViaSays(p, q) # {} => deps[q][i].via \in ViaSays(p, q)
                /\ WeightSays(p, q) # {} => deps[q][i].weight \in WeightSays(p, q)
  <2> DEFINE viaNamed == {j \in DependsOf(p, q) : p.edges[j].via # Absent}
             weightNamed == {j \in DependsOf(p, q) : p.edges[j].weight # Absent}
  <2>1. PICK c \in DOMAIN p.edges :
            q = <<p.edges[c].from, p.edges[c].to>> /\ p.edges[c].type = "DEPENDS_ON"
    BY DEF PairsOf
  <2>2. q \in Pairs
    <3>1. payload[l] \in Payloads
      BY <2>1, PayloadType
    <3> QED BY <2>1, <3>1, LoaderAssumption
  <2>3. NamesPair(l, q) = DependsOf(p, q)
    BY <1>4 DEF NamesPair, DependsOf
  <2>4. SetsVia(l, q) = viaNamed /\ SetsWeight(l, q) = weightNamed
    BY <2>3 DEF SetsVia, SetsWeight
  <2>5. c \in NamesPair(l, q)
    BY <2>1, <2>3 DEF DependsOf
  <2> HIDE DEF viaNamed, weightNamed
  <2>6. /\ deps[q] # <<>>
        /\ viaNamed # {} => \E j \in viaNamed : /\ IsLast(j, viaNamed)
                                                /\ AllVia(deps[q], p.edges[j].via)
        /\ weightNamed # {} => \E j \in weightNamed : /\ IsLast(j, weightNamed)
                                                      /\ AllWeight(deps[q], p.edges[j].weight)
    BY <1>2, <2>2, <2>4, <2>5 DEF SaidSoFar, DependsSaid
  <2>7. 1 \in DOMAIN deps[q]
    <3>1. deps[q] \in Seq(DependsOn)
      BY <2>2 DEF LoaderTypeOK, GraphTypeOK
    <3> QED BY <2>6, <3>1
  <2>8. viaNamed # {} => deps[q][1].via \in ViaSays(p, q)
    <3>1. ViaSays(p, q) = {p.edges[j].via : j \in {m \in viaNamed : \A n \in viaNamed : n <= m}}
      BY DEF ViaSays, viaNamed
    <3> QED BY <2>6, <2>7, <3>1 DEF IsLast, AllVia
  <2>9. weightNamed # {} => deps[q][1].weight \in WeightSays(p, q)
    <3>1. WeightSays(p, q) =
            {p.edges[j].weight : j \in {m \in weightNamed : \A n \in weightNamed : n <= m}}
      BY DEF WeightSays, weightNamed
    <3> QED BY <2>6, <2>7, <3>1 DEF IsLast, AllWeight
  <2>10. (ViaSays(p, q) # {} => viaNamed # {}) /\ (WeightSays(p, q) # {} => weightNamed # {})
    BY DEF ViaSays, WeightSays, viaNamed, weightNamed
  <2> QED BY <2>7, <2>8, <2>9, <2>10
<1> QED BY <1>5, <1>6, <1>7

----------------------------------------------------------------------------
(* The theorems. *)

\* However many loads of whatever payloads interleave, stop half way and are
\* run again (LoadInto), the invariant of the loader holds.
THEOREM LoaderInvHolds == LoadSpec => []LoaderInv
BY LoadInitInv, LoaderNextInv, PTL DEF LoadSpec

\* Types: of the graph, whatever payloads were written into it (LoadInto), and
\* of the loads.
THEOREM LoaderTypeCorrect == LoadSpec => []LoaderTypeOK
<1>1. LoaderInv => LoaderTypeOK
  BY DEF LoaderInv
<1> QED BY <1>1, LoaderInvHolds, PTL

\* No load leaves a relationship without one of its ends (UpsertEdge).
THEOREM NothingDangles == LoadSpec => []NoDanglingEdges
<1>1. LoaderInv => NoDanglingEdges
  BY DEF LoaderInv
<1> QED BY <1>1, LoaderInvHolds, PTL

\* A node is always what one payload said of it, never a mixture of two
\* (UpsertNode, repository/writer.go:20-23).
THEOREM NodesStayWhole == LoadSpec => []NodesAreWhole
<1>1. LoaderInv => NodesAreWhole
  BY DEF LoaderInv
<1> QED BY <1>1, LoaderInvHolds, PTL

\* "Ordem importante: nodes primeiro, edges depois" (loader.go:22-23) is
\* enough: no schedule of loads makes the writer refuse a complete payload.
THEOREM CompletePayloadsLoad == LoadSpec => []CompleteIsNeverRejected
<1>1. LoaderInv => CompleteIsNeverRejected
  BY DEF LoaderInv
<1> QED BY <1>1, LoaderInvHolds, PTL

\* "rodar duas vezes sobre o mesmo payload não duplica" (rhaxis-load
\* main.go:10): loads alone, of whatever payloads, never give a pair of
\* services two DEPENDS_ON of one channel.
THEOREM NothingDuplicated == LoadSpec => []RerunsDoNotDuplicate
<1>1. LoadInit => OneEach
  <2>1. Len(<<>>) <= 1
    OBVIOUS
  <2> QED BY <2>1 DEF LoadInit, EmptyGraph, OneEach
<1>2. LoaderInv /\ OneEach /\ [LoaderNext]_loadVars => OneEach'
  <2> SUFFICES ASSUME LoaderInv, OneEach, [LoaderNext]_loadVars
               PROVE  OneEach'
    OBVIOUS
  <2>1. (\E l \in Loaders : WriteItem(l)) \/ UNCHANGED deps
    BY DEF LoaderNext, StartLoad, LoadStep, SkipItem, LoadItem, Reject, FinishLoad,
           FailLoad, FailLoadAfterCommit, loadVars, graph
  <2>2. CASE UNCHANGED deps
    BY <2>2 DEF OneEach
  <2> QED BY <2>1, <2>2, WriteDoesNotDuplicate DEF LoaderInv
<1>3. LoaderInv => LoaderTypeOK
  BY DEF LoaderInv
<1> QED BY <1>1, <1>2, <1>3, OneEachIsNoDuplicate, LoaderInvHolds, PTL DEF LoadSpec

\* "rodar de novo corrige" (loader.go:25-26): a load that ended well, with no
\* other beside it, leaves all that its payload says, whatever earlier loads
\* had left half written and however often the payload names a node or an edge.
THEOREM LoadsLeavePayloads == LoadSpec => []LoadLeavesPayload
<1>1. LoadInit => SaidInv
  BY DEF LoadInit, LoaderInit, SaidInv
<1>2. LoaderInv => LoaderTypeOK
  BY DEF LoaderInv
<1>3. LoaderTypeOK /\ SaidInv => LoadLeavesPayload
  BY SaidAtTheEnd
<1> QED BY <1>1, <1>2, <1>3, SaidNext, LoaderInvHolds, PTL DEF LoadSpec
=============================================================================
