-------------------------- MODULE LinkerRefinement --------------------------
(****************************************************************************)
(* Passes that do not overlap implement LinkSpec, for every value of the    *)
(* constants.                                                               *)
(****************************************************************************)
EXTENDS LinkerProofs

\* The abstract weight is the number of calls behind the dependency.
WeightsCount == \A p \in Pairs : HttpWeight(p) = Cardinality(LinkedBetween(p))

\* Exact dependencies read as the weights of LinkSpec.
LEMMA WeightCounts == DependsExact => WeightsCount
<1> SUFFICES ASSUME DependsExact, NEW p \in Pairs
             PROVE  HttpWeight(p) = Cardinality(LinkedBetween(p))
  BY DEF WeightsCount
<1>1. CASE LinkedBetween(p) = {}
  BY <1>1, FS_EmptySet DEF HttpWeight, DependsExact
<1>2. CASE LinkedBetween(p) # {}
  BY <1>2 DEF HttpWeight, DependsExact
<1> QED BY <1>1, <1>2

\* A loaded graph is an initial state of LinkSpec: no target, no weight.
LEMMA InitMaps == Init => Promise!Init
<1> SUFFICES ASSUME Init PROVE Promise!Init
  OBVIOUS
<1>1. LinkerInv
  BY InitInv
<1>2. GraphTypeOK
  BY <1>1 DEF LinkerInv, LinkerTypeOK
<1>3. PICK g \in InitGraphs : nodes = g.nodes /\ edges = g.edges /\ deps = g.deps
  BY DEF Init
<1>4. Loaded(g)
  BY <1>3, LinkerAssumption
<1>5. \A c \in URN : RouteMatches(c) \in SUBSET URN
  BY <1>2 DEF RouteMatches, GraphTypeOK
<1>6. \A c, t \in URN : ResolveReturnsRow(c, t) => <<OwnerOf(c), OwnerOf(t)>> \in Pairs
  BY <1>2, OwnerIsService DEF ResolveReturnsRow, CanResolve, IsKind, Pairs
<1>7. \A u : ~Linked(u)
  BY <1>3, <1>4 DEF Loaded, Linked, IsKind
<1>8. \A p \in Pairs : HttpWeight(p) = 0
  BY <1>3, <1>4 DEF Loaded, HttpWeight, HttpRels
<1> QED BY <1>5, <1>6, <1>7, <1>8 DEF Promise!Init

\* A step that does not write to the graph stutters.
LEMMA QuietSteps ==
    ASSUME UNCHANGED graph
    PROVE  UNCHANGED Promise!linkVars
<1>1. nodes' = nodes /\ edges' = edges /\ deps' = deps
  BY DEF graph
<1> QED BY <1>1 DEF Promise!linkVars, RouteMatches, IsKind, Linked, HttpWeight, HttpRels,
                    ResolveReturnsRow, CanResolve, OwnerOf

\* A transaction of a pass that runs alone links its call.
LEMMA ResolveMaps ==
    ASSUME LinkerInv, LinkerInv', ~Overlap, NEW l \in Linkers, pc[l] = "resolving",
           ResolveCallHTTPTarget(cur[l].call, cur[l].target)
    PROVE  Promise!Next
<1> PICK c, t : c = cur[l].call /\ t = cur[l].target
  OBVIOUS
<1>1. /\ GraphTypeOK /\ GraphTypeOK' /\ DependsExact /\ DependsExact'
      /\ IsKind(c, "CallHTTP") /\ IsKind(t, "Endpoint")
      /\ RouteMatches(c) = {t}
      /\ c \in URN /\ t \in URN /\ c \in DOMAIN nodes /\ DOMAIN nodes \subseteq URN
      /\ ~Linked(c)
  BY DEF LinkerInv, LinkerTypeOK, InFlightFaithful, GraphTypeOK, IsKind, NothingTwice
<1>2. /\ DOMAIN nodes' = DOMAIN nodes
      /\ \A u \in DOMAIN nodes : /\ nodes'[u].kind = nodes[u].kind
                                 /\ nodes'[u].method = nodes[u].method
                                 /\ nodes'[u].path = nodes[u].path
                                 /\ nodes'[u].serviceURN = nodes[u].serviceURN
                                 /\ u # c => nodes'[u] = nodes[u]
  BY <1>1, ResolveKeepsRoutes
<1>3. /\ \A u, k : IsKind(u, k)' <=> IsKind(u, k)
      /\ \A u \in DOMAIN nodes : RouteMatches(u)' = RouteMatches(u)
      /\ \A u : Linked(u)' <=> (Linked(u) \/ u = c)
      /\ nodes'[c].targetURN = t
  BY ResolveKeepsTargets, OwnersKept
<1>4. \A u \in URN : (IF IsKind(u, "CallHTTP") THEN RouteMatches(u) ELSE {})'
                        = IF IsKind(u, "CallHTTP") THEN RouteMatches(u) ELSE {}
  BY <1>2, <1>3 DEF IsKind
<1>5. \A u, v \in URN :
        /\ ResolveReturnsRow(u, v)' <=> ResolveReturnsRow(u, v)
        /\ ResolveReturnsRow(u, v) => /\ OwnerOf(u)' = OwnerOf(u)
                                      /\ OwnerOf(v)' = OwnerOf(v)
  BY OwnersKept DEF ResolveReturnsRow, CanResolve, IsKind
<1>6. \A u \in URN : (IF Linked(u) THEN nodes[u].targetURN ELSE Absent)'
                        = IF u = c THEN t ELSE IF Linked(u) THEN nodes[u].targetURN ELSE Absent
  BY <1>1, <1>2, <1>3 DEF Linked, IsKind
<1>7. ASSUME NEW p \in Pairs
      PROVE  HttpWeight(p)' = HttpWeight(p) +
                IF ResolveReturnsRow(c, t) /\ p = <<OwnerOf(c), OwnerOf(t)>> THEN 1 ELSE 0
  <2>1. /\ HttpWeight(p) = Cardinality(LinkedBetween(p))
        /\ HttpWeight(p)' = Cardinality(LinkedBetween(p)')
    <3>1. DependsExact'
      BY <1>1
    <3>2. WeightsCount'
      BY <3>1, WeightCounts, PTL
    <3> QED BY <1>1, <3>2, WeightCounts DEF WeightsCount
  <2>2. /\ IsFiniteSet(LinkedBetween(p)) /\ c \notin LinkedBetween(p)
        /\ Cardinality(LinkedBetween(p)) \in Nat
    <3>1. LinkedBetween(p) \subseteq DOMAIN nodes
      BY DEF LinkedBetween
    <3> QED BY <1>1, <3>1, FS_Subset, FS_CardinalityType DEF LinkedBetween, GraphTypeOK
  <2>3. LinkedBetween(p)' =
            IF ResolveReturnsRow(c, t) /\ p = <<OwnerOf(c), OwnerOf(t)>>
            THEN LinkedBetween(p) \cup {c} ELSE LinkedBetween(p)
    BY <1>1, LinkedBetweenAfter
  <2>4. Cardinality(LinkedBetween(p) \cup {c}) = Cardinality(LinkedBetween(p)) + 1
    BY <2>2, FS_AddElement
  <2> QED BY <2>1, <2>2, <2>3, <2>4
<1>8. Promise!Link(c, t)
  <2> DEFINE crosses(x) == IF ResolveReturnsRow(x[1], x[2])
                           THEN <<OwnerOf(x[1]), OwnerOf(x[2])>> ELSE Absent
  <2> DEFINE offers(u) == IF IsKind(u, "CallHTTP") THEN RouteMatches(u) ELSE {}
  <2>1. [u \in URN |-> offers(u)]' = [u \in URN |-> offers(u)]
    BY <1>4
  <2>2. [x \in URN \X URN |-> crosses(x)]' = [x \in URN \X URN |-> crosses(x)]
    BY <1>5
  <2>3. [u \in URN |-> IF Linked(u) THEN nodes[u].targetURN ELSE Absent]'
            = [[u \in URN |-> IF Linked(u) THEN nodes[u].targetURN ELSE Absent] EXCEPT ![c] = t]
    BY <1>1, <1>6
  <2>4. offers(c) = {t} /\ crosses(<<c, t>>) =
            IF ResolveReturnsRow(c, t) THEN <<OwnerOf(c), OwnerOf(t)>> ELSE Absent
    BY <1>1
  <2>5. Absent \notin Pairs
    BY AbsentAssumption DEF Pairs
  <2> QED
    BY <1>1, <1>7, <2>1, <2>2, <2>3, <2>4, <2>5 DEF Promise!Link, Promise!fixed
<1> QED BY <1>1, <1>8 DEF Promise!Next

\* Every step of the linker is a Link of LinkSpec or a stutter.
LEMMA StepMaps ==
    ASSUME LinkerInv, LinkerInv', ~Overlap, [LinkerNext]_vars
    PROVE  [Promise!Next]_(Promise!linkVars)
<1>1. CASE UNCHANGED graph
  BY <1>1, QuietSteps
<1>2. ASSUME NEW l \in Linkers, Resolve(l) \/ FailAfterCommit(l)
      PROVE  Promise!Next
  <2>1. /\ pc[l] = "resolving"
        /\ ResolveCallHTTPTarget(cur[l].call, cur[l].target)
    BY <1>2 DEF Resolve, FailAfterCommit
  <2> QED BY <2>1, ResolveMaps
<1>3. ASSUME NEW l \in Linkers,
             Start(l) \/ ListUnresolved(l) \/ SkipNoMatch(l) \/ ReportAmbiguous(l)
                \/ PickTarget(l) \/ Finish(l) \/ Fail(l)
      PROVE  UNCHANGED graph
  BY <1>3 DEF Start, ListUnresolved, SkipNoMatch, ReportAmbiguous, PickTarget,
              Finish, Fail
<1>4. CASE UNCHANGED vars
  BY <1>4, <1>1 DEF vars
<1> QED BY <1>1, <1>2, <1>3, <1>4 DEF LinkerNext, Step

\* Passes that do not overlap implement LinkSpec: each call is linked at most
\* once, where its route says, and counted once, whatever the passes cached
\* and wherever they failed.
THEOREM LinkerImplementsPromise == ~Overlap /\ Spec => LinksAsPromised
<1>1. CASE Overlap
  BY <1>1
<1>2. CASE ~Overlap
  <2>1. LinkerInv /\ LinkerInv' /\ [LinkerNext]_vars => [Promise!Next]_(Promise!linkVars)
    BY <1>2, StepMaps
  <2> QED BY InvariantHolds, InitMaps, <2>1, PTL DEF Spec, LinksAsPromised, Promise!Spec
<1> QED BY <1>1, <1>2
=============================================================================
