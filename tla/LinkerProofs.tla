---------------------------- MODULE LinkerProofs ----------------------------
(****************************************************************************)
(* What TLAPS proves of Linker, for every set of linkers, services, routes  *)
(* and loaded graphs.                                                       *)
(****************************************************************************)
EXTENDS Linker, FiniteSetTheorems, TLAPS

----------------------------------------------------------------------------
(* The resolving transaction. *)

\* What every query reads of a node, its target and resolved flag excepted,
\* is untouched by the transaction.
LEMMA ResolveKeepsRoutes ==
    ASSUME GraphTypeOK, NEW c \in URN, NEW t \in URN,
           ResolveCallHTTPTarget(c, t)
    PROVE  /\ DOMAIN nodes' = DOMAIN nodes
           /\ \A u \in DOMAIN nodes : /\ nodes'[u].kind = nodes[u].kind
                                      /\ nodes'[u].method = nodes[u].method
                                      /\ nodes'[u].path = nodes[u].path
                                      /\ nodes'[u].serviceURN = nodes[u].serviceURN
                                      /\ u # c => nodes'[u] = nodes[u]
BY DEF GraphTypeOK, ResolveCallHTTPTarget, CanResolve, IsKind, Node

\* The transaction's write to the call.
LEMMA ResolveSetsTarget ==
    ASSUME GraphTypeOK, NEW c \in URN, NEW t \in URN,
           ResolveCallHTTPTarget(c, t)
    PROVE  IF CanResolve(c, t)
           THEN nodes'[c].targetURN = t /\ nodes'[c].resolved = TRUE
           ELSE nodes' = nodes
BY DEF GraphTypeOK, ResolveCallHTTPTarget, CanResolve, IsKind, Node

\* DEPENDS_ON relationships stay a sequence of records of their type.
LEMMA AddHttpType ==
    ASSUME NEW rels \in Seq(DependsOn)
    PROVE  AddHttpDependency(rels) \in Seq(DependsOn)
<1>1. CASE \E i \in DOMAIN rels : rels[i].via = "http"
  <2> DEFINE bump(i) == IF rels[i].via # "http" THEN rels[i]
                        ELSE [rels[i] EXCEPT !.weight = IF @ = Absent THEN 1 ELSE @ + 1]
  <2>1. DOMAIN rels = 1 .. Len(rels) /\ Len(rels) \in Nat
    OBVIOUS
  <2>2. \A i \in DOMAIN rels : bump(i) \in DependsOn
    <3> TAKE i \in DOMAIN rels
    <3>1. rels[i] \in DependsOn
      BY <2>1
    <3>2. rels[i].weight # Absent => rels[i].weight + 1 \in Nat
      BY <3>1 DEF DependsOn, Maybe
    <3> QED BY <3>1, <3>2 DEF DependsOn, Maybe
  <2>3. AddHttpDependency(rels) = [i \in 1 .. Len(rels) |-> bump(i)]
    BY <1>1, <2>1 DEF AddHttpDependency
  <2> HIDE DEF bump
  <2> QED BY <2>1, <2>2, <2>3
<1>2. CASE ~ \E i \in DOMAIN rels : rels[i].via = "http"
  BY <1>2 DEF AddHttpDependency, DependsOn, Maybe, Via
<1> QED BY <1>1, <1>2

\* Every node has an owner among the services, by its property or its URN.
LEMMA OwnerIsService ==
    ASSUME GraphTypeOK, NEW u \in DOMAIN nodes
    PROVE  OwnerOf(u) \in Service
BY URNAssumption DEF GraphTypeOK, OwnerOf, Node, Maybe

\* The resolving transaction leaves a well-typed graph, row or no row.
LEMMA ResolveType ==
    ASSUME GraphTypeOK, NEW c \in URN, NEW t \in URN,
           ResolveCallHTTPTarget(c, t)
    PROVE  GraphTypeOK'
<1>1. IsFiniteSet(DOMAIN nodes') /\ DOMAIN nodes' \subseteq URN
  BY ResolveKeepsRoutes DEF GraphTypeOK
<1>2. /\ \A u \in DOMAIN nodes' : nodes'[u] \in Node
      /\ nodes' = [u \in DOMAIN nodes' |-> nodes'[u]]
  <2>1. CASE CanResolve(c, t)
    <3>1. nodes' = [nodes EXCEPT ![c].targetURN = t, ![c].resolved = TRUE]
      BY <2>1 DEF ResolveCallHTTPTarget
    <3>2. nodes[c] \in Node
      BY <2>1 DEF CanResolve, IsKind, GraphTypeOK
    <3>3. nodes'[c] = [nodes[c] EXCEPT !.targetURN = t, !.resolved = TRUE]
      BY <2>1, <3>1 DEF CanResolve, IsKind, GraphTypeOK
    <3>4. nodes'[c] \in Node
      BY <3>2, <3>3 DEF Node, Maybe
    <3>5. \A u \in DOMAIN nodes : nodes'[u] \in Node
      BY <3>4, ResolveKeepsRoutes DEF GraphTypeOK
    <3>6. nodes' = [u \in DOMAIN nodes' |-> nodes'[u]]
      BY <3>1
    <3> QED BY <3>5, <3>6, ResolveKeepsRoutes
  <2>2. CASE ~CanResolve(c, t)
    BY <2>2 DEF GraphTypeOK, ResolveCallHTTPTarget
  <2> QED BY <2>1, <2>2
<1>3. /\ DOMAIN edges' \subseteq EdgeKey
      /\ \A k \in DOMAIN edges' : edges'[k] \in Maybe(Prop)
  BY DEF GraphTypeOK, ResolveCallHTTPTarget, CanResolve, EdgeKey, EdgeType, Maybe
<1>4. deps' \in [Pairs -> Seq(DependsOn)]
  <2>1. CASE ResolveReturnsRow(c, t)
    <3> DEFINE pair == <<OwnerOf(c), OwnerOf(t)>>
    <3>1. pair \in Pairs
      BY <2>1, OwnerIsService DEF ResolveReturnsRow, CanResolve, IsKind, Pairs
    <3>2. deps' = [deps EXCEPT ![pair] = AddHttpDependency(deps[pair])]
      BY <2>1 DEF ResolveCallHTTPTarget
    <3>3. deps[pair] \in Seq(DependsOn)
      BY <3>1 DEF GraphTypeOK
    <3>4. AddHttpDependency(deps[pair]) \in Seq(DependsOn)
      BY <3>3, AddHttpType
    <3> HIDE DEF pair
    <3> QED BY <3>1, <3>2, <3>4 DEF GraphTypeOK
  <2>2. CASE ~ResolveReturnsRow(c, t)
    BY <2>2 DEF ResolveCallHTTPTarget, GraphTypeOK
  <2> QED BY <2>1, <2>2
<1> QED BY <1>1, <1>2, <1>3, <1>4 DEF GraphTypeOK

----------------------------------------------------------------------------
(* Reads. *)

\* Whatever keeps each node's kind and route keeps what the queries answer.
LEMMA RoutesKept ==
    ASSUME DOMAIN nodes' = DOMAIN nodes,
           \A u \in DOMAIN nodes : /\ nodes'[u].kind = nodes[u].kind
                                   /\ nodes'[u].method = nodes[u].method
                                   /\ nodes'[u].path = nodes[u].path
    PROVE  /\ \A m : EndpointsForMethod(m)' = EndpointsForMethod(m)
           /\ \A u \in DOMAIN nodes : RouteMatches(u)' = RouteMatches(u)
           /\ \A u, k : IsKind(u, k)' <=> IsKind(u, k)
BY DEF EndpointsForMethod, RouteMatches, IsKind

\* The listing has as many entries as there are unresolved calls, and each
\* entry is well typed.
LEMMA ListingType ==
    ASSUME GraphTypeOK
    PROVE  /\ Cardinality(UnresolvedCalls) \in Nat
           /\ \A c \in UnresolvedCalls :
                [urn |-> c, method |-> Upper[nodes[c].method],
                 path |-> nodes[c].path] \in UnresolvedCall
<1>1. IsFiniteSet(UnresolvedCalls)
  <2>1. UnresolvedCalls \subseteq DOMAIN nodes
    BY DEF UnresolvedCalls
  <2> QED BY <2>1, FS_Subset DEF GraphTypeOK
<1>2. ASSUME NEW c \in UnresolvedCalls
      PROVE  [urn |-> c, method |-> Upper[nodes[c].method],
              path |-> nodes[c].path] \in UnresolvedCall
  <2>1. c \in URN /\ nodes[c] \in Node /\ nodes[c].method # Absent /\ nodes[c].path # Absent
    BY <1>2 DEF UnresolvedCalls, GraphTypeOK
  <2>2. nodes[c].method \in Method /\ nodes[c].path \in Path
    BY <2>1 DEF Node, Maybe
  <2>3. Upper[nodes[c].method] \in Method
    BY <2>2, LinkerAssumption
  <2> QED BY <2>1, <2>2, <2>3 DEF UnresolvedCall
<1> QED BY <1>1, <1>2, FS_CardinalityType

\* What the endpoint query answers is what the cache is typed to hold.
LEMMA CandidatesType ==
    ASSUME GraphTypeOK, NEW m
    PROVE  EndpointsForMethod(m) \subseteq Candidate
BY DEF EndpointsForMethod, Candidate, GraphTypeOK, Node, Maybe

\* Whatever the cache holds already, a call is matched against the graph.
LEMMA MatchesAreRouteMatches ==
    ASSUME LinkerTypeOK, ListingsFaithful, CachesFaithful,
           NEW l \in Linkers, NEW call \in todo[l]
    PROVE  Matches(l, call) = RouteMatches(call.urn)
<1>1. LoadCandidates(l, call.method) = EndpointsForMethod(call.method)
  BY DEF LoadCandidates, CachesFaithful
<1>2. /\ nodes[call.urn].method # Absent
      /\ nodes[call.urn].path # Absent
      /\ call.method = Upper[nodes[call.urn].method]
      /\ call.path = nodes[call.urn].path
  BY DEF ListingsFaithful
<1>3. Matches(l, call) =
        {e.urn : e \in {x \in EndpointsForMethod(call.method) :
                            Norm[x.path] = Norm[call.path]}}
  BY <1>1 DEF Matches
<1>4. ASSUME NEW e
      PROVE  e \in Matches(l, call) <=> e \in RouteMatches(call.urn)
  <2>1. ASSUME e \in Matches(l, call)
        PROVE  e \in RouteMatches(call.urn)
    <3>1. PICK x \in EndpointsForMethod(call.method) :
                Norm[x.path] = Norm[call.path] /\ e = x.urn
      BY <2>1, <1>3
    <3> QED BY <3>1, <1>2 DEF EndpointsForMethod, RouteMatches
  <2>2. ASSUME e \in RouteMatches(call.urn)
        PROVE  e \in Matches(l, call)
    <3> DEFINE x == [urn |-> e, path |-> nodes[e].path]
    <3>1. x \in EndpointsForMethod(call.method)
      BY <2>2, <1>2 DEF EndpointsForMethod, RouteMatches
    <3>2. Norm[x.path] = Norm[call.path] /\ x.urn = e
      BY <2>2, <1>2 DEF RouteMatches
    <3> HIDE DEF x
    <3> QED BY <3>1, <3>2, <1>3
  <2> QED BY <2>1, <2>2
<1> QED BY <1>4

----------------------------------------------------------------------------
(* The effect of a resolution on the graph, for the call in flight. *)

\* One transaction keeps the targets unique and links the call in flight and
\* nothing else.
LEMMA ResolveKeepsTargets ==
    ASSUME LinkerInv, NEW l \in Linkers, pc[l] = "resolving",
           ResolveCallHTTPTarget(cur[l].call, cur[l].target)
    PROVE  /\ CanResolve(cur[l].call, cur[l].target)
           /\ \A m : EndpointsForMethod(m)' = EndpointsForMethod(m)
           /\ \A u, k : IsKind(u, k)' <=> IsKind(u, k)
           /\ \A u \in DOMAIN nodes : RouteMatches(u)' = RouteMatches(u)
           /\ \A u : Linked(u)' <=> (Linked(u) \/ u = cur[l].call)
           /\ TargetsAreUnique'
<1> DEFINE c == cur[l].call
           t == cur[l].target
<1>1. /\ IsKind(c, "CallHTTP") /\ IsKind(t, "Endpoint")
      /\ RouteMatches(c) = {t}
      /\ c \in URN /\ t \in URN /\ c \in DOMAIN nodes /\ GraphTypeOK
  BY DEF LinkerInv, InFlightFaithful, LinkerTypeOK, GraphTypeOK, IsKind
<1>2. CanResolve(c, t)
  BY <1>1 DEF CanResolve
<1>3. /\ DOMAIN nodes' = DOMAIN nodes
      /\ \A u \in DOMAIN nodes : /\ nodes'[u].kind = nodes[u].kind
                                 /\ nodes'[u].method = nodes[u].method
                                 /\ nodes'[u].path = nodes[u].path
                                 /\ nodes'[u].serviceURN = nodes[u].serviceURN
                                 /\ u # c => nodes'[u] = nodes[u]
  BY <1>1, ResolveKeepsRoutes
<1>4. nodes'[c].targetURN = t /\ nodes'[c].resolved = TRUE
  BY <1>1, <1>2, ResolveSetsTarget
<1>5. /\ \A m : EndpointsForMethod(m)' = EndpointsForMethod(m)
      /\ \A u \in DOMAIN nodes : RouteMatches(u)' = RouteMatches(u)
      /\ \A u, k : IsKind(u, k)' <=> IsKind(u, k)
  BY <1>3, RoutesKept
<1>6. t # Absent
  BY <1>1, AbsentAssumption
<1>7. \A u : Linked(u)' <=> (Linked(u) \/ u = c)
  BY <1>1, <1>3, <1>4, <1>6 DEF Linked, IsKind
<1>8. TargetsAreUnique'
  <2> SUFFICES ASSUME NEW u \in DOMAIN nodes
               PROVE  /\ Linked(u)' =>
                            /\ RouteMatches(u)' = {nodes'[u].targetURN}
                            /\ nodes'[u].resolved = TRUE
                            /\ \A k \in DOMAIN edges' :
                                (k[1] = u /\ k[3] = "EXPANDS_TO") <=>
                                    (k = <<u, nodes'[u].targetURN, "EXPANDS_TO">>)
                            /\ <<u, nodes'[u].targetURN, "EXPANDS_TO">> \in DOMAIN edges'
                      /\ (IsKind(u, "CallHTTP") /\ ~Linked(u)') =>
                            \A k \in DOMAIN edges' : k[3] = "EXPANDS_TO" => k[1] # u
    BY <1>3, <1>5 DEF TargetsAreUnique
  <2>1. DOMAIN edges' = DOMAIN edges \cup {<<c, t, "EXPANDS_TO">>}
    BY <1>2 DEF ResolveCallHTTPTarget
  <2>2. CASE u = c
    <3>1. \A k \in DOMAIN edges : (k[1] = c /\ k[3] = "EXPANDS_TO")
                                        => k = <<c, t, "EXPANDS_TO">>
      <4>1. CASE Linked(c)
        <5>1. /\ RouteMatches(c) = {nodes[c].targetURN}
              /\ \A k \in DOMAIN edges : (k[1] = c /\ k[3] = "EXPANDS_TO") =>
                                            k = <<c, nodes[c].targetURN, "EXPANDS_TO">>
          <6> HIDE DEF c
          <6> QED BY <1>1, <4>1 DEF LinkerInv, TargetsAreUnique
        <5>2. nodes[c].targetURN = t
          BY <1>1, <5>1
        <5> QED BY <5>1, <5>2
      <4>2. CASE ~Linked(c)
        BY <1>1, <4>2 DEF LinkerInv, TargetsAreUnique
      <4> QED BY <4>1, <4>2
    <3> QED BY <1>1, <1>4, <1>5, <1>7, <2>1, <2>2, <3>1
  <2>3. CASE u # c
    <3>1. nodes'[u] = nodes[u] /\ RouteMatches(u)' = RouteMatches(u)
          /\ (Linked(u)' <=> Linked(u))
      BY <1>3, <1>5, <1>7, <2>3
    <3>2. CASE Linked(u)
      BY <2>1, <2>3, <3>1, <3>2 DEF LinkerInv, TargetsAreUnique
    <3>3. CASE ~Linked(u)
      BY <2>1, <2>3, <3>1, <3>3 DEF LinkerInv, TargetsAreUnique
    <3> QED BY <3>2, <3>3
  <2> QED BY <2>2, <2>3
<1> HIDE DEF c, t
<1> QED BY <1>2, <1>5, <1>7, <1>8 DEF c, t

\* Who owns what is not the linker's to change.
LEMMA OwnersKept ==
    ASSUME LinkerInv, NEW l \in Linkers, pc[l] = "resolving",
           ResolveCallHTTPTarget(cur[l].call, cur[l].target)
    PROVE  /\ DOMAIN nodes' = DOMAIN nodes
           /\ \A u \in DOMAIN nodes : OwnerOf(u)' = OwnerOf(u)
           /\ \A u, v : ResolveReturnsRow(u, v)' <=> ResolveReturnsRow(u, v)
           /\ \A u \in DOMAIN nodes : u # cur[l].call => nodes'[u] = nodes[u]
           /\ nodes'[cur[l].call].targetURN = cur[l].target
<1>1. /\ cur[l].call \in URN /\ cur[l].target \in URN /\ GraphTypeOK
      /\ cur[l].call \in DOMAIN nodes
  BY DEF LinkerInv, InFlightFaithful, LinkerTypeOK, GraphTypeOK, IsKind
<1>2. /\ DOMAIN nodes' = DOMAIN nodes
      /\ \A u \in DOMAIN nodes : nodes'[u].serviceURN = nodes[u].serviceURN
      /\ \A u \in DOMAIN nodes : u # cur[l].call => nodes'[u] = nodes[u]
  BY <1>1, ResolveKeepsRoutes
<1>3. \A u \in DOMAIN nodes : OwnerOf(u)' = OwnerOf(u)
  BY <1>2 DEF OwnerOf
<1>4. \A u, k : IsKind(u, k)' <=> IsKind(u, k)
  BY ResolveKeepsTargets
<1>5. CanResolve(cur[l].call, cur[l].target)
  BY ResolveKeepsTargets
<1>6. nodes'[cur[l].call].targetURN = cur[l].target
  BY <1>1, <1>5, ResolveSetsTarget
<1>7. ASSUME NEW u, NEW v
      PROVE  ResolveReturnsRow(u, v)' <=> ResolveReturnsRow(u, v)
  <2>1. CanResolve(u, v)' <=> CanResolve(u, v)
    BY <1>4 DEF CanResolve
  <2>2. CASE CanResolve(u, v)
    <3>1. OwnerOf(u)' = OwnerOf(u) /\ OwnerOf(v)' = OwnerOf(v)
      BY <1>3, <2>2 DEF CanResolve, IsKind
    <3>2. /\ IsKind(OwnerOf(u), "Service")' <=> IsKind(OwnerOf(u), "Service")
          /\ IsKind(OwnerOf(v), "Service")' <=> IsKind(OwnerOf(v), "Service")
      BY <1>4, <3>1 DEF IsKind
    <3> QED BY <2>1, <3>1, <3>2 DEF ResolveReturnsRow
  <2>3. CASE ~CanResolve(u, v)
    BY <2>1, <2>3 DEF ResolveReturnsRow
  <2> QED BY <2>2, <2>3
<1> QED BY <1>2, <1>3, <1>6, <1>7

\* The pairs' calls before and after a resolution: the call in flight joins
\* its pair, when it crosses two services.
LEMMA LinkedBetweenAfter ==
    ASSUME LinkerInv, NEW l \in Linkers, pc[l] = "resolving",
           ResolveCallHTTPTarget(cur[l].call, cur[l].target),
           NEW c, c = cur[l].call, NEW t, t = cur[l].target,
           ~Linked(c), NEW p \in Pairs
    PROVE  LinkedBetween(p)' =
              IF ResolveReturnsRow(c, t) /\ p = <<OwnerOf(c), OwnerOf(t)>>
              THEN LinkedBetween(p) \cup {c}
              ELSE LinkedBetween(p)
<1>1. /\ c \in DOMAIN nodes /\ t \in DOMAIN nodes
      /\ c \in URN /\ t \in URN /\ GraphTypeOK
  BY DEF LinkerInv, InFlightFaithful, IsKind, LinkerTypeOK, GraphTypeOK
<1>2. /\ DOMAIN nodes' = DOMAIN nodes
      /\ \A u \in DOMAIN nodes : /\ nodes'[u].kind = nodes[u].kind
                                 /\ nodes'[u].serviceURN = nodes[u].serviceURN
                                 /\ u # c => nodes'[u] = nodes[u]
      /\ nodes'[c].targetURN = t
  BY <1>1, ResolveKeepsRoutes, OwnersKept
<1>3. \A u : Linked(u)' <=> (Linked(u) \/ u = c)
  BY ResolveKeepsTargets
<1> DEFINE In(u) == /\ Linked(u)
                    /\ nodes[u].targetURN \in DOMAIN nodes
                    /\ ResolveReturnsRow(u, nodes[u].targetURN)
                    /\ <<OwnerOf(u), OwnerOf(nodes[u].targetURN)>> = p
<1>4. ASSUME NEW u \in DOMAIN nodes, u # c
      PROVE  In(u)' <=> In(u)
  <2>1. nodes'[u] = nodes[u] /\ (Linked(u)' <=> Linked(u))
    BY <1>2, <1>3, <1>4
  <2>2. CASE nodes[u].targetURN \in DOMAIN nodes
    BY <1>2, <2>1, <2>2 DEF ResolveReturnsRow, CanResolve, IsKind, OwnerOf
  <2>3. CASE nodes[u].targetURN \notin DOMAIN nodes
    BY <1>2, <2>1, <2>3
  <2> QED BY <2>2, <2>3
<1>5. ~In(c)
  OBVIOUS
<1>6. In(c)' <=> (ResolveReturnsRow(c, t) /\ p = <<OwnerOf(c), OwnerOf(t)>>)
  BY <1>1, <1>2, <1>3 DEF ResolveReturnsRow, CanResolve, IsKind, OwnerOf
<1>7. /\ LinkedBetween(p) = {u \in DOMAIN nodes : In(u)}
      /\ LinkedBetween(p)' = {u \in DOMAIN nodes : In(u)'}
  BY <1>2 DEF LinkedBetween
<1> HIDE DEF In
<1> QED BY <1>1, <1>4, <1>5, <1>6, <1>7

\* A resolution of a call that was not linked keeps each weight equal to the
\* number of calls behind it.
LEMMA ResolveKeepsWeights ==
    ASSUME LinkerInv, DependsExact, NEW l \in Linkers, pc[l] = "resolving",
           ResolveCallHTTPTarget(cur[l].call, cur[l].target),
           ~Linked(cur[l].call)
    PROVE  DependsExact'
<1> PICK c, t : c = cur[l].call /\ t = cur[l].target
  OBVIOUS
<1>1. GraphTypeOK /\ c \in DOMAIN nodes /\ t \in DOMAIN nodes
  BY DEF LinkerInv, InFlightFaithful, IsKind, LinkerTypeOK
<1> SUFFICES ASSUME NEW p \in Pairs
             PROVE  IF LinkedBetween(p)' = {}
                    THEN HttpRels(p)' = {}
                    ELSE \E i \in DOMAIN deps'[p] :
                            /\ HttpRels(p)' = {i}
                            /\ deps'[p][i].weight = Cardinality(LinkedBetween(p)')
  BY DEF DependsExact
<1>2. IF LinkedBetween(p) = {}
      THEN HttpRels(p) = {}
      ELSE \E i \in DOMAIN deps[p] :
              /\ HttpRels(p) = {i}
              /\ deps[p][i].weight = Cardinality(LinkedBetween(p))
  BY DEF DependsExact
<1>3. deps[p] \in Seq(DependsOn)
  BY <1>1 DEF GraphTypeOK
<1>4. CASE ResolveReturnsRow(c, t) /\ p = <<OwnerOf(c), OwnerOf(t)>>
  <2>1. LinkedBetween(p)' = LinkedBetween(p) \cup {c}
    BY <1>4, LinkedBetweenAfter
  <2>2. deps'[p] = AddHttpDependency(deps[p])
    BY <1>1, <1>4 DEF ResolveCallHTTPTarget, GraphTypeOK
  <2>3. /\ c \notin LinkedBetween(p)
        /\ IsFiniteSet(LinkedBetween(p))
    <3>1. LinkedBetween(p) \subseteq DOMAIN nodes
      BY DEF LinkedBetween
    <3> QED BY <1>1, <3>1, FS_Subset DEF LinkedBetween, GraphTypeOK
  <2>4. /\ Cardinality(LinkedBetween(p)) \in Nat
        /\ Cardinality(LinkedBetween(p)') = Cardinality(LinkedBetween(p)) + 1
    BY <2>1, <2>3, FS_AddElement, FS_CardinalityType
  <2>5. CASE LinkedBetween(p) = {}
    <3>1. \A i \in DOMAIN deps[p] : deps[p][i].via # "http"
      BY <1>2, <2>5 DEF HttpRels
    <3>2. deps'[p] = Append(deps[p], [via |-> "http", weight |-> 1])
      BY <2>2, <3>1 DEF AddHttpDependency
    <3>3. HttpRels(p)' = {Len(deps[p]) + 1}
      BY <1>3, <3>1, <3>2 DEF HttpRels
    <3>4. deps'[p][Len(deps[p]) + 1].weight = 1 /\ Len(deps[p]) + 1 \in DOMAIN deps'[p]
      BY <1>3, <3>2
    <3>5. Cardinality(LinkedBetween(p)') = 1
      BY <2>4, <2>5, FS_EmptySet
    <3> QED BY <2>1, <3>3, <3>4, <3>5
  <2>6. CASE LinkedBetween(p) # {}
    <3>1. PICK i \in DOMAIN deps[p] :
                /\ HttpRels(p) = {i}
                /\ deps[p][i].weight = Cardinality(LinkedBetween(p))
      BY <1>2, <2>6
    <3>2. deps[p][i].via = "http" /\ deps[p][i].weight \in Nat
      BY <2>4, <3>1 DEF HttpRels
    <3>3. deps'[p] = [j \in DOMAIN deps[p] |->
                        IF deps[p][j].via # "http" THEN deps[p][j]
                        ELSE [deps[p][j] EXCEPT !.weight = IF @ = Absent THEN 1 ELSE @ + 1]]
      BY <2>2, <3>2 DEF AddHttpDependency
    <3>4. \A j \in DOMAIN deps[p] : deps[p][j] \in [via : Maybe(Via), weight : Maybe(Nat)]
      <4>1. \A j \in DOMAIN deps[p] : deps[p][j] \in DependsOn
        BY <1>3
      <4> QED BY <4>1 DEF DependsOn
    <3>5. DOMAIN deps'[p] = DOMAIN deps[p]
          /\ \A j \in DOMAIN deps[p] : deps'[p][j].via = deps[p][j].via
      BY <3>3, <3>4
    <3>6. HttpRels(p)' = {i}
      BY <3>1, <3>5 DEF HttpRels
    <3>7. deps'[p][i].weight = deps[p][i].weight + 1
      <4>1. deps[p][i].weight # Absent
        BY <3>2, AbsentAssumption
      <4>2. deps'[p][i] = [deps[p][i] EXCEPT !.weight = deps[p][i].weight + 1]
        BY <3>2, <3>3, <4>1
      <4> QED BY <3>4, <4>2
    <3> QED BY <2>1, <2>4, <3>1, <3>5, <3>6, <3>7
  <2> QED BY <2>5, <2>6
<1>5. CASE ~(ResolveReturnsRow(c, t) /\ p = <<OwnerOf(c), OwnerOf(t)>>)
  <2>1. LinkedBetween(p)' = LinkedBetween(p)
    BY <1>5, LinkedBetweenAfter
  <2>2. deps'[p] = deps[p]
    BY <1>1, <1>5 DEF ResolveCallHTTPTarget, GraphTypeOK
  <2> QED BY <1>2, <2>1, <2>2 DEF HttpRels
<1> QED BY <1>4, <1>5

----------------------------------------------------------------------------
(* The invariant, step by step. *)

\* A loaded graph and linkers that have not started satisfy what the linker
\* preserves.
LEMMA LoadedInv ==
    ASSUME NEW g, Loaded(g), nodes = g.nodes, edges = g.edges, deps = g.deps, LinkerInit
    PROVE  LinkerInv
<1>3. GraphTypeOK
  BY DEF Loaded, GraphTypeOK
<1>4. LinkerTypeOK
  <2>1. NoStats \in LinkStats /\ Idle \in [call : Maybe(URN), target : Maybe(URN)]
    BY DEF NoStats, LinkStats, Idle, Maybe
  <2>2. /\ pc \in [Linkers -> {"idle"} \cup Active \cup Over]
        /\ todo \in [Linkers -> SUBSET UnresolvedCall]
        /\ passes \in 0 .. MaxPasses
    BY LinkerAssumption DEF LinkerInit
  <2>3. cur \in [Linkers -> [call : Maybe(URN), target : Maybe(URN)]]
        /\ stats \in [Linkers -> LinkStats]
    BY <2>1 DEF LinkerInit
  <2>4. DOMAIN cands = Linkers /\ \A l \in Linkers : DOMAIN cands[l] = {}
    BY DEF LinkerInit
  <2> QED BY <1>3, <2>2, <2>3, <2>4 DEF LinkerTypeOK
<1>5. ListingsFaithful /\ CachesFaithful /\ InFlightFaithful /\ NothingTwice
  BY DEF LinkerInit, ListingsFaithful, CachesFaithful, InFlightFaithful, NothingTwice, Active
<1>6. \A u : ~Linked(u)
  BY DEF Loaded, Linked, IsKind
<1>7. TargetsAreUnique
  <2>1. \A c \in DOMAIN nodes : IsKind(c, "CallHTTP") =>
            \A k \in DOMAIN edges : k[3] = "EXPANDS_TO" => k[1] # c
    BY DEF Loaded, IsKind
  <2> QED BY <1>6, <2>1 DEF TargetsAreUnique
<1>8. DependsExact
  BY <1>6 DEF Loaded, DependsExact, LinkedBetween, HttpRels
<1> QED BY <1>4, <1>5, <1>7, <1>8 DEF LinkerInv

\* Linker starts from such a graph.
LEMMA InitInv == Init => LinkerInv
<1> SUFFICES ASSUME Init PROVE LinkerInv
  OBVIOUS
<1>1. PICK g \in InitGraphs : nodes = g.nodes /\ edges = g.edges /\ deps = g.deps
  BY DEF Init
<1>2. Loaded(g) /\ LinkerInit
  BY <1>1, LinkerAssumption DEF Init
<1> QED BY <1>1, <1>2, LoadedInv

\* What the invariant says of the graph alone survives a step that does not
\* write to it.
LEMMA GraphKept ==
    ASSUME LinkerInv, UNCHANGED graph
    PROVE  /\ GraphTypeOK'
           /\ TargetsAreUnique'
           /\ ~Overlap => DependsExact'
           /\ \A u, k : IsKind(u, k)' <=> IsKind(u, k)
           /\ \A u : Linked(u)' <=> Linked(u)
           /\ \A u : RouteMatches(u)' = RouteMatches(u)
           /\ \A m : EndpointsForMethod(m)' = EndpointsForMethod(m)
<1>1. nodes' = nodes /\ edges' = edges /\ deps' = deps
  BY DEF graph
<1>2. /\ \A u, k : IsKind(u, k)' <=> IsKind(u, k)
      /\ \A u : Linked(u)' <=> Linked(u)
      /\ \A u : RouteMatches(u)' = RouteMatches(u)
      /\ \A m : EndpointsForMethod(m)' = EndpointsForMethod(m)
  BY <1>1 DEF IsKind, Linked, RouteMatches, EndpointsForMethod
<1>3. GraphTypeOK'
  BY <1>1 DEF LinkerInv, LinkerTypeOK, GraphTypeOK
<1>4. TargetsAreUnique'
  BY <1>1, <1>2 DEF LinkerInv, TargetsAreUnique
<1>5. DependsExact => DependsExact'
  <2>1. \A p \in Pairs : LinkedBetween(p)' = LinkedBetween(p)
    BY <1>1 DEF LinkedBetween, Linked, ResolveReturnsRow, CanResolve, IsKind, OwnerOf
  <2>2. \A p \in Pairs : HttpRels(p)' = HttpRels(p)
    BY <1>1 DEF HttpRels
  <2> QED BY <1>1, <2>1, <2>2 DEF DependsExact
<1> QED BY <1>2, <1>3, <1>4, <1>5 DEF LinkerInv

\* A new pass starts with nothing carried over, and alone unless passes overlap.
LEMMA StartInv ==
    ASSUME LinkerInv, NEW l \in Linkers, Start(l)
    PROVE  LinkerInv'
<1> USE DEF Start
<1>1. LinkerTypeOK'
  <2>1. NoStats \in LinkStats /\ Idle \in [call : Maybe(URN), target : Maybe(URN)]
    BY DEF NoStats, LinkStats, Idle, Maybe
  <2>2. passes' \in 0 .. MaxPasses
    BY LinkerAssumption DEF LinkerInv, LinkerTypeOK
  <2> QED BY <2>1, <2>2, GraphKept DEF LinkerInv, LinkerTypeOK, Active
<1>2. /\ todo'[l] = {} /\ DOMAIN cands'[l] = {} /\ pc'[l] = "listing"
      /\ \A k \in Linkers : k # l => /\ todo'[k] = todo[k] /\ cands'[k] = cands[k]
                                    /\ cur'[k] = cur[k] /\ pc'[k] = pc[k]
  BY DEF LinkerInv, LinkerTypeOK
<1>3. ListingsFaithful'
  BY <1>2, GraphKept DEF LinkerInv, ListingsFaithful, graph
<1>4. CachesFaithful'
  BY <1>2, GraphKept DEF LinkerInv, CachesFaithful
<1>5. InFlightFaithful'
  <2>1. \A k \in Linkers : pc'[k] = "resolving" => pc[k] = "resolving" /\ cur'[k] = cur[k]
    BY <1>2
  <2>2. nodes' = nodes
    BY DEF graph
  <2> QED BY <2>1, <2>2 DEF LinkerInv, InFlightFaithful, IsKind, RouteMatches
<1>6. ~Overlap => NothingTwice'
  BY GraphKept DEF LinkerInv, LinkerTypeOK, NothingTwice, Active
<1> QED BY <1>1, <1>3, <1>4, <1>5, <1>6, GraphKept DEF LinkerInv

\* The listing describes the graph it was read from.
LEMMA ListUnresolvedInv ==
    ASSUME LinkerInv, NEW l \in Linkers, ListUnresolved(l)
    PROVE  LinkerInv'
<1> USE DEF ListUnresolved
<1>1. LinkerTypeOK'
  <2>1. [stats[l] EXCEPT !.callsScanned = Cardinality(UnresolvedCalls)] \in LinkStats
    BY ListingType DEF LinkerInv, LinkerTypeOK, LinkStats
  <2>2. todo'[l] \subseteq UnresolvedCall
    BY ListingType DEF LinkerInv, LinkerTypeOK
  <2> QED BY <2>1, <2>2, GraphKept DEF LinkerInv, LinkerTypeOK, Active
<1>2. ListingsFaithful'
  <2> SUFFICES ASSUME NEW k \in Linkers, NEW call \in todo'[k]
               PROVE  /\ IsKind(call.urn, "CallHTTP")
                      /\ nodes[call.urn].method # Absent
                      /\ nodes[call.urn].path # Absent
                      /\ call.method = Upper[nodes[call.urn].method]
                      /\ call.path = nodes[call.urn].path
    BY GraphKept DEF ListingsFaithful, graph
  <2>1. CASE k = l
    <3>1. PICK c \in UnresolvedCalls :
                call = [urn |-> c, method |-> Upper[nodes[c].method],
                        path |-> nodes[c].path]
      BY <2>1 DEF LinkerInv, LinkerTypeOK
    <3> QED BY <3>1 DEF UnresolvedCalls, IsKind
  <2>2. CASE k # l
    BY <2>2 DEF LinkerInv, LinkerTypeOK, ListingsFaithful
  <2> QED BY <2>1, <2>2
<1>3. CachesFaithful' /\ InFlightFaithful'
  BY GraphKept DEF LinkerInv, LinkerTypeOK, CachesFaithful, InFlightFaithful
<1>4. ~Overlap => NothingTwice'
  <2>1. \A c \in UnresolvedCalls : ~Linked(c)
    BY AbsentAssumption DEF LinkerInv, TargetsAreUnique, UnresolvedCalls
  <2>2. /\ pc' = [pc EXCEPT ![l] = "matching"] /\ pc[l] = "listing"
        /\ \A call \in todo'[l] : call.urn \in UnresolvedCalls
        /\ \A k \in Linkers : k # l => todo'[k] = todo[k]
        /\ cur' = cur
    BY DEF LinkerInv, LinkerTypeOK
  <2> QED BY <2>1, <2>2, GraphKept DEF LinkerInv, LinkerTypeOK, NothingTwice, Active
<1> QED BY <1>1, <1>2, <1>3, <1>4, GraphKept DEF LinkerInv

\* Taking a call shortens the listing and caches what the graph answers.
LEMMA TakeCallKeeps ==
    ASSUME LinkerInv, NEW l \in Linkers, NEW call, TakeCall(l, call), UNCHANGED graph
    PROVE  /\ todo' \in [Linkers -> SUBSET UnresolvedCall]
           /\ DOMAIN cands' = Linkers
           /\ \A k \in Linkers : /\ DOMAIN cands'[k] \subseteq Method
                                 /\ \A m \in DOMAIN cands'[k] : cands'[k][m] \subseteq Candidate
           /\ ListingsFaithful'
           /\ CachesFaithful'
           /\ \A k \in Linkers : todo'[k] \subseteq todo[k]
<1>1. /\ todo \in [Linkers -> SUBSET UnresolvedCall]
      /\ DOMAIN cands = Linkers
      /\ \A k \in Linkers : /\ DOMAIN cands[k] \subseteq Method
                            /\ \A m \in DOMAIN cands[k] : cands[k][m] \subseteq Candidate
      /\ GraphTypeOK
  BY DEF LinkerInv, LinkerTypeOK
<1>2. call \in todo[l] /\ call.method \in Method
  BY <1>1 DEF TakeCall, UnresolvedCall
<1>3. todo' = [todo EXCEPT ![l] = @ \ {call}]
  BY DEF TakeCall
<1>4. \A k \in Linkers : todo'[k] \subseteq todo[k]
  BY <1>1, <1>3
<1>5. \A m : LoadCandidates(l, m) = EndpointsForMethod(m)
  BY DEF LoadCandidates, LinkerInv, CachesFaithful
<1>6. /\ DOMAIN cands' = Linkers
      /\ \A k \in Linkers : k # l => cands'[k] = cands[k]
      /\ cands'[l] = [m \in DOMAIN cands[l] \cup {call.method} |-> EndpointsForMethod(m)]
  BY <1>1, <1>5 DEF TakeCall
<1>7. CachesFaithful'
  BY <1>6, GraphKept DEF LinkerInv, CachesFaithful
<1>8. \A k \in Linkers : /\ DOMAIN cands'[k] \subseteq Method
                         /\ \A m \in DOMAIN cands'[k] : cands'[k][m] \subseteq Candidate
  BY <1>1, <1>2, <1>6, CandidatesType
<1>9. ListingsFaithful'
  BY <1>4, GraphKept DEF LinkerInv, ListingsFaithful, graph
<1>10. todo' \in [Linkers -> SUBSET UnresolvedCall]
  BY <1>1, <1>3
<1> QED BY <1>4, <1>6, <1>7, <1>8, <1>9, <1>10

\* The two outcomes that end a call without a transaction.
LEMMA SkipInv ==
    ASSUME LinkerInv, NEW l \in Linkers, SkipNoMatch(l) \/ ReportAmbiguous(l)
    PROVE  LinkerInv'
<1>1. /\ \E call \in todo[l] : TakeCall(l, call)
      /\ UNCHANGED <<graph, pc, cur, passes>>
      /\ \/ stats' = [stats EXCEPT ![l].noMatch = @ + 1]
         \/ stats' = [stats EXCEPT ![l].ambiguous = @ + 1]
  BY DEF SkipNoMatch, ReportAmbiguous
<1>2. PICK call \in todo[l] : TakeCall(l, call)
  BY <1>1
<1>3. stats' \in [Linkers -> LinkStats]
  <2>1. stats \in [Linkers -> LinkStats] /\ stats[l] \in LinkStats
    BY DEF LinkerInv, LinkerTypeOK
  <2>2. /\ [stats[l] EXCEPT !.noMatch = @ + 1] \in LinkStats
        /\ [stats[l] EXCEPT !.ambiguous = @ + 1] \in LinkStats
    BY <2>1 DEF LinkStats
  <2> QED BY <1>1, <2>1, <2>2
<1>4. LinkerTypeOK'
  BY <1>1, <1>2, <1>3, TakeCallKeeps, GraphKept DEF LinkerInv, LinkerTypeOK
<1>5. ListingsFaithful' /\ CachesFaithful'
  BY <1>1, <1>2, TakeCallKeeps
<1>6. InFlightFaithful'
  BY <1>1, GraphKept DEF LinkerInv, InFlightFaithful
<1>7. ~Overlap => NothingTwice'
  BY <1>1, <1>2, TakeCallKeeps, GraphKept DEF LinkerInv, NothingTwice
<1> QED BY <1>1, <1>4, <1>5, <1>6, <1>7, GraphKept DEF LinkerInv

\* A call taken with exactly one match becomes the call in flight.
LEMMA PickTargetInv ==
    ASSUME LinkerInv, NEW l \in Linkers, PickTarget(l)
    PROVE  LinkerInv'
<1>1. PICK call \in todo[l], t \in URN :
        /\ TakeCall(l, call)
        /\ Matches(l, call) = {t}
        /\ stats' = [stats EXCEPT ![l].selfLoopSkip =
                        IF SlugOf[call.urn] = SlugOf[t] THEN @ + 1 ELSE @]
        /\ cur' = [cur EXCEPT ![l] = [call |-> call.urn, target |-> t]]
        /\ pc' = [pc EXCEPT ![l] = "resolving"]
        /\ UNCHANGED <<graph, passes>>
  BY DEF PickTarget
<1>2. /\ call \in UnresolvedCall /\ call.urn \in URN /\ IsKind(call.urn, "CallHTTP")
      /\ pc[l] = "matching"
  BY <1>1 DEF LinkerInv, LinkerTypeOK, UnresolvedCall, ListingsFaithful, TakeCall
<1>3. RouteMatches(call.urn) = {t}
  BY <1>1, MatchesAreRouteMatches DEF LinkerInv
<1>4. IsKind(t, "Endpoint")
  BY <1>3 DEF RouteMatches, IsKind
<1>5. LinkerTypeOK'
  <2>1. stats' \in [Linkers -> LinkStats]
    <3>1. stats \in [Linkers -> LinkStats] /\ stats[l] \in LinkStats
      BY DEF LinkerInv, LinkerTypeOK
    <3>2. \A r \in LinkStats, n \in Nat : [r EXCEPT !.selfLoopSkip = n] \in LinkStats
      BY DEF LinkStats
    <3>3. stats[l].selfLoopSkip \in Nat
      BY <3>1 DEF LinkStats
    <3> DEFINE n == IF SlugOf[call.urn] = SlugOf[t] THEN stats[l].selfLoopSkip + 1
                                                   ELSE stats[l].selfLoopSkip
               r == [stats[l] EXCEPT !.selfLoopSkip = n]
    <3>4. n \in Nat
      BY <3>3
    <3>5. r \in LinkStats
      BY <3>1, <3>2, <3>4
    <3>6. stats' = [stats EXCEPT ![l] = r]
      BY <1>1
    <3> HIDE DEF r
    <3> QED BY <3>1, <3>5, <3>6
  <2>2. cur' \in [Linkers -> [call : Maybe(URN), target : Maybe(URN)]]
    BY <1>1, <1>2 DEF LinkerInv, LinkerTypeOK, Maybe
  <2>3. pc' \in [Linkers -> {"idle"} \cup Active \cup Over]
    BY <1>1 DEF LinkerInv, LinkerTypeOK, Active
  <2> QED BY <1>1, <2>1, <2>2, <2>3, TakeCallKeeps, GraphKept DEF LinkerInv, LinkerTypeOK
<1>6. ListingsFaithful' /\ CachesFaithful'
  BY <1>1, TakeCallKeeps
<1>7. /\ cur'[l].call = call.urn /\ cur'[l].target = t /\ pc'[l] = "resolving"
      /\ \A k \in Linkers : k # l => cur'[k] = cur[k] /\ pc'[k] = pc[k]
      /\ nodes' = nodes
  BY <1>1 DEF LinkerInv, LinkerTypeOK, graph
<1>8. InFlightFaithful'
  BY <1>2, <1>3, <1>4, <1>7 DEF LinkerInv, InFlightFaithful, IsKind, RouteMatches
<1>9. ~Overlap => NothingTwice'
  <2> SUFFICES ASSUME ~Overlap PROVE NothingTwice'
    OBVIOUS
  <2>1. \A other \in todo'[l] : other \in todo[l] /\ other # call
    BY <1>1 DEF TakeCall, LinkerInv, LinkerTypeOK
  <2>2. \A other \in todo[l] : other.urn = call.urn => other = call
    BY DEF LinkerInv, ListingsFaithful, LinkerTypeOK, UnresolvedCall
  <2>3. \A k, j \in Linkers : (pc'[k] \in Active /\ pc'[j] \in Active) => k = j
    BY <1>2, <1>7 DEF LinkerInv, NothingTwice, Active
  <2>4. \A k \in Linkers : pc'[k] \in {"matching", "resolving"} =>
            k = l /\ \A other \in todo'[k] : ~Linked(other.urn) /\ other.urn # call.urn
    BY <1>2, <1>7, <2>1, <2>2, <2>3 DEF LinkerInv, NothingTwice, Active
  <2>5. ~Linked(call.urn)
    BY <1>2 DEF LinkerInv, NothingTwice
  <2> QED BY <1>1, <1>7, <2>3, <2>4, <2>5, GraphKept DEF NothingTwice, Linked, IsKind
<1> QED BY <1>1, <1>5, <1>6, <1>8, <1>9, GraphKept DEF LinkerInv

\* The steps that only move pc, out of the active states.
LEMMA EndInv ==
    ASSUME LinkerInv, NEW l \in Linkers, Finish(l) \/ Fail(l)
    PROVE  LinkerInv'
<1>1. /\ \/ pc' = [pc EXCEPT ![l] = "done"]
         \/ pc' = [pc EXCEPT ![l] = "failed"]
      /\ UNCHANGED <<graph, todo, cands, cur, stats, passes>>
  BY DEF Finish, Fail
<1>2. LinkerTypeOK'
  BY <1>1, GraphKept DEF LinkerInv, LinkerTypeOK, Over
<1>3. /\ \A k \in Linkers : pc'[k] = "resolving" => pc[k] = "resolving"
      /\ nodes' = nodes /\ todo' = todo /\ cands' = cands /\ cur' = cur
  BY <1>1 DEF LinkerInv, LinkerTypeOK, graph
<1>4. ListingsFaithful' /\ CachesFaithful'
  BY <1>3 DEF LinkerInv, ListingsFaithful, CachesFaithful, EndpointsForMethod, IsKind
<1>5. InFlightFaithful'
  BY <1>3 DEF LinkerInv, InFlightFaithful, IsKind, RouteMatches
<1>6. ~Overlap => NothingTwice'
  BY <1>1, GraphKept DEF LinkerInv, LinkerTypeOK, NothingTwice, Active
<1> QED BY <1>1, <1>2, <1>4, <1>5, <1>6, GraphKept DEF LinkerInv

\* The resolving transaction, whether its reply arrives or not.
LEMMA ResolveInv ==
    ASSUME LinkerInv, NEW l \in Linkers, Resolve(l) \/ FailAfterCommit(l)
    PROVE  LinkerInv'
<1>1. /\ pc[l] = "resolving"
      /\ ResolveCallHTTPTarget(cur[l].call, cur[l].target)
      /\ UNCHANGED <<todo, cands, passes>>
      /\ \/ /\ CountResolved(l) \/ CountAlreadyLinked(l)
            /\ cur' = [cur EXCEPT ![l] = Idle]
            /\ pc' = [pc EXCEPT ![l] = "matching"]
         \/ /\ UNCHANGED <<cur, stats>>
            /\ pc' = [pc EXCEPT ![l] = "failed"]
  BY DEF Resolve, FailAfterCommit
<1> PICK c, t : c = cur[l].call /\ t = cur[l].target
  OBVIOUS
<1>2. /\ GraphTypeOK /\ c \in URN /\ t \in URN /\ c \in DOMAIN nodes
      /\ stats \in [Linkers -> LinkStats] /\ stats[l] \in LinkStats
      /\ cur \in [Linkers -> [call : Maybe(URN), target : Maybe(URN)]]
      /\ pc \in [Linkers -> {"idle"} \cup Active \cup Over]
  BY <1>1 DEF LinkerInv, LinkerTypeOK, InFlightFaithful, GraphTypeOK, IsKind
<1>3. /\ DOMAIN nodes' = DOMAIN nodes
      /\ \A u \in DOMAIN nodes : /\ nodes'[u].kind = nodes[u].kind
                                 /\ nodes'[u].method = nodes[u].method
                                 /\ nodes'[u].path = nodes[u].path
  BY <1>1, <1>2, ResolveKeepsRoutes
<1>4. /\ \A m : EndpointsForMethod(m)' = EndpointsForMethod(m)
      /\ \A u \in DOMAIN nodes : RouteMatches(u)' = RouteMatches(u)
      /\ \A u, k : IsKind(u, k)' <=> IsKind(u, k)
      /\ \A u : Linked(u)' <=> (Linked(u) \/ u = c)
      /\ TargetsAreUnique'
  BY <1>1, ResolveKeepsTargets
<1>5. LinkerTypeOK'
  <2>1. stats' \in [Linkers -> LinkStats]
    <3>1. /\ [stats[l] EXCEPT !.alreadyLinked = @ + 1] \in LinkStats
          /\ [stats[l] EXCEPT !.resolved = @ + 1, !.dependsUpdated = @ + 1] \in LinkStats
          /\ [stats[l] EXCEPT !.resolved = @ + 1, !.dependsUpdated = @] \in LinkStats
      <4>1. [stats[l] EXCEPT !.alreadyLinked = @ + 1] \in LinkStats
        BY <1>2 DEF LinkStats
      <4>2. [stats[l] EXCEPT !.resolved = @ + 1] \in LinkStats
        BY <1>2 DEF LinkStats
      <4>3. \A s \in LinkStats : /\ [s EXCEPT !.dependsUpdated = @ + 1] \in LinkStats
                                 /\ [s EXCEPT !.dependsUpdated = @] \in LinkStats
        BY DEF LinkStats
      <4> QED BY <4>1, <4>2, <4>3
    <3>2. \/ stats' = stats
          \/ stats' = [stats EXCEPT ![l] = [stats[l] EXCEPT !.alreadyLinked = @ + 1]]
          \/ stats' = [stats EXCEPT ![l] = [stats[l] EXCEPT !.resolved = @ + 1, !.dependsUpdated = @ + 1]]
          \/ stats' = [stats EXCEPT ![l] = [stats[l] EXCEPT !.resolved = @ + 1, !.dependsUpdated = @]]
      BY <1>1, <1>2 DEF CountResolved, CountAlreadyLinked
    <3> QED BY <1>2, <3>1, <3>2
  <2>2. cur' \in [Linkers -> [call : Maybe(URN), target : Maybe(URN)]]
    BY <1>1, <1>2 DEF Idle, Maybe
  <2>3. pc' \in [Linkers -> {"idle"} \cup Active \cup Over]
    BY <1>1, <1>2 DEF Active, Over
  <2>4. GraphTypeOK'
    BY <1>1, <1>2, ResolveType
  <2> QED BY <1>1, <2>1, <2>2, <2>3, <2>4 DEF LinkerInv, LinkerTypeOK
<1>6. ListingsFaithful'
  BY <1>1, <1>3 DEF LinkerInv, ListingsFaithful, IsKind
<1>7. CachesFaithful'
  BY <1>1, <1>4 DEF LinkerInv, CachesFaithful
<1>8. InFlightFaithful'
  <2> SUFFICES ASSUME NEW k \in Linkers, pc'[k] = "resolving",
                      NEW d, d = cur'[k].call, NEW s, s = cur'[k].target
               PROVE  /\ IsKind(d, "CallHTTP")'
                      /\ IsKind(s, "Endpoint")'
                      /\ RouteMatches(d)' = {s}
    BY DEF InFlightFaithful, IsKind, RouteMatches
  <2>1. pc[k] = "resolving" /\ d = cur[k].call /\ s = cur[k].target
    BY <1>1, <1>2
  <2>2. /\ IsKind(d, "CallHTTP") /\ d \in DOMAIN nodes
        /\ IsKind(s, "Endpoint")
        /\ RouteMatches(d) = {s}
    BY <2>1 DEF LinkerInv, InFlightFaithful, IsKind
  <2> QED BY <1>4, <2>2
<1>9. ~Overlap => NothingTwice' /\ DependsExact'
  <2> SUFFICES ASSUME ~Overlap PROVE NothingTwice' /\ DependsExact'
    OBVIOUS
  <2>1. NothingTwice /\ DependsExact
    BY DEF LinkerInv
  <2>2. ~Linked(c)
    BY <1>1, <2>1 DEF NothingTwice
  <2>3. DependsExact'
    BY <1>1, <2>1, <2>2, ResolveKeepsWeights
  <2>4. \A k \in Linkers : k # l => pc[k] \notin Active /\ pc'[k] = pc[k]
    BY <1>1, <1>2, <2>1 DEF NothingTwice, Active
  <2>5. pc'[l] # "resolving"
    BY <1>1, <1>2
  <2>6. \A call \in todo'[l] : ~Linked(call.urn)'
    <3> SUFFICES ASSUME NEW call \in todo'[l], NEW u, u = call.urn PROVE ~Linked(u)'
      BY DEF Linked, IsKind
    <3>1. u # c /\ ~Linked(u)
      BY <1>1, <2>1 DEF NothingTwice
    <3> QED BY <1>4, <3>1
  <2> QED BY <2>3, <2>4, <2>5, <2>6 DEF NothingTwice, Active
<1> QED BY <1>4, <1>5, <1>6, <1>7, <1>8, <1>9 DEF LinkerInv

\* The invariant is inductive: one lemma above for each step of a pass.
LEMMA NextInv == LinkerInv /\ [LinkerNext]_vars => LinkerInv'
<1> SUFFICES ASSUME LinkerInv, [LinkerNext]_vars PROVE LinkerInv'
  OBVIOUS
<1>1. CASE UNCHANGED vars
  <2>1. UNCHANGED graph /\ UNCHANGED <<pc, todo, cands, cur, stats, passes>>
    BY <1>1 DEF vars, linkerVars
  <2>2. LinkerTypeOK'
    BY <2>1, GraphKept DEF LinkerInv, LinkerTypeOK
  <2>3. ListingsFaithful' /\ CachesFaithful' /\ InFlightFaithful'
    BY <2>1 DEF LinkerInv, ListingsFaithful, CachesFaithful, InFlightFaithful,
                EndpointsForMethod, RouteMatches, IsKind, graph
  <2>4. NothingTwice => NothingTwice'
    BY <2>1 DEF NothingTwice, Linked, IsKind, graph
  <2> QED BY <2>1, <2>2, <2>3, <2>4, GraphKept DEF LinkerInv
<1>2. ASSUME NEW l \in Linkers,
             Start(l) \/ Step(l) \/ Fail(l) \/ FailAfterCommit(l)
      PROVE  LinkerInv'
  <2>1. CASE Start(l)
    BY <2>1, StartInv
  <2>2. CASE ListUnresolved(l)
    BY <2>2, ListUnresolvedInv
  <2>3. CASE SkipNoMatch(l) \/ ReportAmbiguous(l)
    BY <2>3, SkipInv
  <2>4. CASE PickTarget(l)
    BY <2>4, PickTargetInv
  <2>5. CASE Resolve(l) \/ FailAfterCommit(l)
    BY <2>5, ResolveInv
  <2>6. CASE Finish(l) \/ Fail(l)
    BY <2>6, EndInv
  <2> QED BY <1>2, <2>1, <2>2, <2>3, <2>4, <2>5, <2>6 DEF Step
<1> QED BY <1>1, <1>2 DEF LinkerNext

----------------------------------------------------------------------------
(* The theorems. *)

\* However many passes interleave, fail and start again, what each of them
\* carries from its reads stays true of the graph it writes (linker.go:107-187).
THEOREM InvariantHolds == Spec => []LinkerInv
BY InitInv, NextInv, PTL DEF Spec

\* The types of the graph and of the linkers' state are kept by every
\* transaction and every step of a pass.
THEOREM TypeCorrect == Spec => []LinkerTypeOK
<1>1. LinkerInv => LinkerTypeOK
  BY DEF LinkerInv
<1> QED BY InvariantHolds, <1>1, PTL

\* However many passes overlap, fail or are run again, a linked call points at
\* the only endpoint its route names, and its edge agrees.
THEOREM UniqueTargets == Spec => []TargetsAreUnique
<1>1. LinkerInv => TargetsAreUnique
  BY DEF LinkerInv
<1> QED BY InvariantHolds, <1>1, PTL

\* When passes do not overlap, every weight is the number of linked calls
\* behind it, whatever transaction a pass failed around.
THEOREM ExactWeights == ~Overlap /\ Spec => []DependsExact
<1>1. LinkerInv /\ ~Overlap => DependsExact
  BY DEF LinkerInv
<1>2. CASE Overlap
  BY <1>2
<1>3. CASE ~Overlap
  <2>1. LinkerInv => DependsExact
    BY <1>1, <1>3
  <2> QED BY InvariantHolds, <2>1, PTL
<1> QED BY <1>2, <1>3

\* The MERGE on {via:'http'} leaves the other relationships of the pair in place.
LEMMA AddHttpKeepsOthers ==
    ASSUME NEW rels \in Seq(DependsOn), NEW i \in DOMAIN rels, rels[i].via # "http"
    PROVE  /\ i \in DOMAIN AddHttpDependency(rels)
           /\ AddHttpDependency(rels)[i] = rels[i]
BY DEF AddHttpDependency

\* So does every step of the system.
LEMMA StepKeepsOthers ==
    ASSUME LinkerInv, [LinkerNext]_vars, NEW p \in Pairs, NEW i \in DOMAIN deps[p],
           deps[p][i].via # "http"
    PROVE  i \in DOMAIN deps'[p] /\ deps'[p][i] = deps[p][i]
<1>1. CASE deps' = deps
  BY <1>1
<1>2. ASSUME NEW l \in Linkers, Resolve(l) \/ FailAfterCommit(l)
      PROVE  i \in DOMAIN deps'[p] /\ deps'[p][i] = deps[p][i]
  <2>1. deps' = deps \/
        \E q : deps' = [deps EXCEPT ![q] = AddHttpDependency(deps[q])]
    BY <1>2 DEF Resolve, FailAfterCommit, ResolveCallHTTPTarget
  <2>2. deps \in [Pairs -> Seq(DependsOn)]
    BY DEF LinkerInv, LinkerTypeOK, GraphTypeOK
  <2>3. /\ i \in DOMAIN AddHttpDependency(deps[p])
        /\ AddHttpDependency(deps[p])[i] = deps[p][i]
    BY <2>2, AddHttpKeepsOthers
  <2> QED BY <2>1, <2>2, <2>3
<1>3. ASSUME NEW l \in Linkers,
             Start(l) \/ ListUnresolved(l) \/ SkipNoMatch(l) \/ ReportAmbiguous(l)
                \/ PickTarget(l) \/ Finish(l) \/ Fail(l)
      PROVE  deps' = deps
  BY <1>3 DEF Start, ListUnresolved, SkipNoMatch, ReportAmbiguous, PickTarget,
              Finish, Fail, graph
<1>4. CASE UNCHANGED vars
  BY <1>4, <1>1 DEF vars, graph
<1> QED BY <1>1, <1>2, <1>3, <1>4 DEF LinkerNext, Step

\* No transaction of the linker touches the dependencies that a load wrote.
THEOREM OthersKept == Spec => OtherDependenciesKept
<1>1. LinkerInv /\ [LinkerNext]_vars =>
        [\A p \in Pairs : \A i \in DOMAIN deps[p] : deps[p][i].via # "http" =>
            i \in DOMAIN deps'[p] /\ deps'[p][i] = deps[p][i]]_vars
  BY StepKeepsOthers
<1> QED BY InvariantHolds, <1>1, PTL DEF Spec, OtherDependenciesKept
=============================================================================
