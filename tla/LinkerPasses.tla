---------------------------- MODULE LinkerPasses ----------------------------
(****************************************************************************)
(* What TLAPS proves of the linker's passes, overlapping ones included:     *)
(* what a pass counts, what it leaves undone, and what the service map      *)
(* shows of it.  All three rest on the invariant of LinkerProofs.           *)
(****************************************************************************)
EXTENDS LinkerProofs

----------------------------------------------------------------------------
(* No linked call is missing from its dependency. *)

\* The first http dependency of a pair starts with one call.
LEMMA FirstHttp ==
    ASSUME NEW rels \in Seq(DependsOn), \A j \in DOMAIN rels : rels[j].via # "http"
    PROVE  LET new == AddHttpDependency(rels)
           IN  \E i \in DOMAIN new : /\ {j \in DOMAIN new : new[j].via = "http"} = {i}
                                     /\ new[i].weight = 1
<1> DEFINE new == AddHttpDependency(rels)
           i == Len(rels) + 1
<1>1. new = Append(rels, [via |-> "http", weight |-> 1])
  BY DEF AddHttpDependency
<1>2. i \in DOMAIN new /\ new[i] = [via |-> "http", weight |-> 1]
  BY <1>1
<1>3. \A j \in DOMAIN new : j # i => new[j].via # "http"
  BY <1>1
<1> HIDE DEF new, i
<1> QED BY <1>2, <1>3 DEF new

\* The one there is goes up by one.
LEMMA NextHttp ==
    ASSUME NEW rels \in Seq(DependsOn), NEW i \in DOMAIN rels,
           {j \in DOMAIN rels : rels[j].via = "http"} = {i}, rels[i].weight \in Nat
    PROVE  LET new == AddHttpDependency(rels)
           IN  /\ i \in DOMAIN new
               /\ {j \in DOMAIN new : new[j].via = "http"} = {i}
               /\ new[i].weight = rels[i].weight + 1
<1> DEFINE new == AddHttpDependency(rels)
<1>1. new = [j \in DOMAIN rels |->
                IF rels[j].via # "http" THEN rels[j]
                ELSE [rels[j] EXCEPT !.weight = IF @ = Absent THEN 1 ELSE @ + 1]]
  BY DEF AddHttpDependency
<1>2. \A j \in DOMAIN rels : rels[j] \in [via : Maybe(Via), weight : Maybe(Nat)]
  <2>1. \A j \in DOMAIN rels : rels[j] \in DependsOn
    OBVIOUS
  <2> QED BY <2>1 DEF DependsOn
<1>3. DOMAIN new = DOMAIN rels /\ \A j \in DOMAIN rels : new[j].via = rels[j].via
  BY <1>1, <1>2
<1>4. new[i].weight = rels[i].weight + 1
  <2>1. rels[i].weight # Absent /\ rels[i].via = "http"
    BY AbsentAssumption
  <2>2. new[i] = [rels[i] EXCEPT !.weight = rels[i].weight + 1]
    BY <1>1, <2>1
  <2> QED BY <1>2, <2>2
<1> HIDE DEF new
<1> QED BY <1>3, <1>4 DEF new

\* Whatever a resolution finds its call to be, the pair's calls grow by at
\* most that call, and stay as they are when it was linked before.
LEMMA LinkedBetweenGrows ==
    ASSUME LinkerInv, NEW l \in Linkers, pc[l] = "resolving",
           ResolveCallHTTPTarget(cur[l].call, cur[l].target),
           NEW c, c = cur[l].call, NEW t, t = cur[l].target, NEW p \in Pairs
    PROVE  LinkedBetween(p)' =
              IF ResolveReturnsRow(c, t) /\ p = <<OwnerOf(c), OwnerOf(t)>>
              THEN LinkedBetween(p) \cup {c}
              ELSE LinkedBetween(p)
<1>1. CASE ~Linked(c)
  BY <1>1, LinkedBetweenAfter
<1>2. CASE Linked(c)
  <2>1. /\ c \in DOMAIN nodes /\ t \in DOMAIN nodes /\ GraphTypeOK
        /\ RouteMatches(c) = {t} /\ RouteMatches(c) = {nodes[c].targetURN}
        /\ nodes[c].resolved = TRUE
    BY <1>2 DEF LinkerInv, InFlightFaithful, TargetsAreUnique, IsKind, LinkerTypeOK, Linked
  <2>2. nodes[c].targetURN = t
    BY <2>1
  <2>3. nodes' = nodes
    <3>1. nodes' = IF CanResolve(c, t)
                   THEN [nodes EXCEPT ![c].targetURN = t, ![c].resolved = TRUE]
                   ELSE nodes
      BY DEF ResolveCallHTTPTarget
    <3>2. nodes[c] \in Node /\ nodes = [u \in DOMAIN nodes |-> nodes[u]]
      BY <2>1 DEF GraphTypeOK
    <3>3. [nodes[c] EXCEPT !.targetURN = t, !.resolved = TRUE] = nodes[c]
      BY <2>1, <2>2, <3>2 DEF Node
    <3> QED BY <3>1, <3>2, <3>3
  <2>4. LinkedBetween(p)' = LinkedBetween(p)
    BY <2>3 DEF LinkedBetween, Linked, ResolveReturnsRow, CanResolve, IsKind, OwnerOf
  <2>5. (ResolveReturnsRow(c, t) /\ p = <<OwnerOf(c), OwnerOf(t)>>) => c \in LinkedBetween(p)
    BY <1>2, <2>1, <2>2 DEF LinkedBetween
  <2> QED BY <2>4, <2>5
<1> QED BY <1>1, <1>2

\* DependsCovers, and that the weights it speaks of are numbers.
WeightsCover ==
    \A p \in Pairs :
        IF LinkedBetween(p) = {}
        THEN HttpRels(p) = {}
        ELSE \E i \in DOMAIN deps[p] :
                /\ HttpRels(p) = {i}
                /\ deps[p][i].weight \in Nat
                /\ deps[p][i].weight >= Cardinality(LinkedBetween(p))

\* Every commit adds one to the weight and at most one to the calls.
LEMMA ResolveKeepsCover ==
    ASSUME LinkerInv, WeightsCover, NEW l \in Linkers, pc[l] = "resolving",
           ResolveCallHTTPTarget(cur[l].call, cur[l].target)
    PROVE  WeightsCover'
<1> PICK c, t : c = cur[l].call /\ t = cur[l].target
  OBVIOUS
<1>1. GraphTypeOK /\ c \in DOMAIN nodes /\ t \in DOMAIN nodes
  BY DEF LinkerInv, InFlightFaithful, IsKind, LinkerTypeOK
<1> SUFFICES ASSUME NEW p \in Pairs
             PROVE  IF LinkedBetween(p)' = {}
                    THEN HttpRels(p)' = {}
                    ELSE \E i \in DOMAIN deps'[p] :
                            /\ HttpRels(p)' = {i}
                            /\ deps'[p][i].weight \in Nat
                            /\ deps'[p][i].weight >= Cardinality(LinkedBetween(p)')
  BY DEF WeightsCover
<1>2. IF LinkedBetween(p) = {}
      THEN HttpRels(p) = {}
      ELSE \E i \in DOMAIN deps[p] :
              /\ HttpRels(p) = {i}
              /\ deps[p][i].weight \in Nat
              /\ deps[p][i].weight >= Cardinality(LinkedBetween(p))
  BY DEF WeightsCover
<1>3. deps[p] \in Seq(DependsOn)
  BY <1>1 DEF GraphTypeOK
<1>4. CASE ResolveReturnsRow(c, t) /\ p = <<OwnerOf(c), OwnerOf(t)>>
  <2>1. LinkedBetween(p)' = LinkedBetween(p) \cup {c}
    BY <1>4, LinkedBetweenGrows
  <2>2. deps'[p] = AddHttpDependency(deps[p])
    BY <1>1, <1>4 DEF ResolveCallHTTPTarget, GraphTypeOK
  <2>3. IsFiniteSet(LinkedBetween(p))
    <3>1. LinkedBetween(p) \subseteq DOMAIN nodes
      BY DEF LinkedBetween
    <3> QED BY <1>1, <3>1, FS_Subset DEF GraphTypeOK
  <2>4. /\ Cardinality(LinkedBetween(p)) \in Nat
        /\ Cardinality(LinkedBetween(p)') \in Nat
        /\ Cardinality(LinkedBetween(p)') <= Cardinality(LinkedBetween(p)) + 1
    <3> DEFINE S == LinkedBetween(p)
    <3>1. IsFiniteSet(S \cup {c}) /\ Cardinality(S) \in Nat
      BY <2>3, FS_AddElement, FS_CardinalityType
    <3>2. Cardinality(S \cup {c}) = IF c \in S THEN Cardinality(S) ELSE Cardinality(S) + 1
      BY <2>3, FS_AddElement
    <3> HIDE DEF S
    <3>3. Cardinality(S \cup {c}) \in Nat /\ Cardinality(S \cup {c}) <= Cardinality(S) + 1
      BY <3>1, <3>2
    <3> QED BY <2>1, <3>1, <3>3 DEF S
  <2>5. CASE LinkedBetween(p) = {}
    <3>1. \A j \in DOMAIN deps[p] : deps[p][j].via # "http"
      BY <1>2, <2>5 DEF HttpRels
    <3>2. \E i \in DOMAIN deps'[p] : HttpRels(p)' = {i} /\ deps'[p][i].weight = 1
      BY <1>3, <2>2, <3>1, FirstHttp DEF HttpRels
    <3>3. Cardinality(LinkedBetween(p)') = 1
      BY <2>1, <2>5, FS_Singleton
    <3> QED BY <2>1, <3>2, <3>3
  <2>6. CASE LinkedBetween(p) # {}
    <3>1. PICK i \in DOMAIN deps[p] :
                /\ HttpRels(p) = {i}
                /\ deps[p][i].weight \in Nat
                /\ deps[p][i].weight >= Cardinality(LinkedBetween(p))
      BY <1>2, <2>6
    <3>2. /\ i \in DOMAIN deps'[p] /\ HttpRels(p)' = {i}
          /\ deps'[p][i].weight = deps[p][i].weight + 1
      BY <1>3, <2>2, <3>1, NextHttp DEF HttpRels
    <3> QED BY <2>1, <2>4, <3>1, <3>2
  <2> QED BY <2>5, <2>6
<1>5. CASE ~(ResolveReturnsRow(c, t) /\ p = <<OwnerOf(c), OwnerOf(t)>>)
  <2>1. LinkedBetween(p)' = LinkedBetween(p)
    BY <1>5, LinkedBetweenGrows
  <2>2. deps'[p] = deps[p]
    BY <1>1, <1>5 DEF ResolveCallHTTPTarget, GraphTypeOK
  <2> QED BY <1>2, <2>1, <2>2 DEF HttpRels
<1> QED BY <1>4, <1>5

\* A step that commits no transaction leaves the graph alone.
LEMMA CommitOrKeep ==
    ASSUME [LinkerNext]_vars
    PROVE  \/ UNCHANGED graph
           \/ \E l \in Linkers : /\ pc[l] = "resolving"
                                 /\ ResolveCallHTTPTarget(cur[l].call, cur[l].target)
BY DEF LinkerNext, Start, Step, ListUnresolved, SkipNoMatch, ReportAmbiguous, PickTarget,
       Resolve, Finish, Fail, FailAfterCommit, vars

\* A loaded graph has no linked call and no http dependency.
LEMMA CoverInit == Init => WeightsCover
<1> SUFFICES ASSUME Init PROVE WeightsCover
  OBVIOUS
<1>1. PICK g \in InitGraphs : nodes = g.nodes /\ edges = g.edges /\ deps = g.deps
  BY DEF Init
<1>2. Loaded(g)
  BY <1>1, LinkerAssumption
<1>3. \A u : ~Linked(u)
  BY <1>1, <1>2 DEF Loaded, Linked, IsKind
<1>4. \A p \in Pairs : LinkedBetween(p) = {} /\ HttpRels(p) = {}
  BY <1>1, <1>2, <1>3 DEF Loaded, LinkedBetween, HttpRels
<1> QED BY <1>4 DEF WeightsCover

\* Only a commit changes either side.
LEMMA CoverNext == LinkerInv /\ WeightsCover /\ [LinkerNext]_vars => WeightsCover'
<1> SUFFICES ASSUME LinkerInv, WeightsCover, [LinkerNext]_vars
             PROVE  WeightsCover'
  OBVIOUS
<1>1. CASE UNCHANGED graph
  <2>1. nodes' = nodes /\ deps' = deps
    BY <1>1 DEF graph
  <2>2. \A p \in Pairs : LinkedBetween(p)' = LinkedBetween(p) /\ HttpRels(p)' = HttpRels(p)
    BY <2>1 DEF LinkedBetween, Linked, ResolveReturnsRow, CanResolve, IsKind, OwnerOf, HttpRels
  <2> QED BY <2>1, <2>2 DEF WeightsCover
<1> QED BY <1>1, CommitOrKeep, ResolveKeepsCover

----------------------------------------------------------------------------
(* The statistics add up. *)

\* What each count stands on: a listing of finitely many calls, and no count
\* carried over from an earlier pass.
CountsInv ==
    /\ \A l \in Linkers : IsFiniteSet(todo[l])
    /\ \A l \in Linkers : pc[l] = "listing" => stats[l] = NoStats
    /\ StatsAddUp

\* The listing has one entry for each call.
LEMMA ListingCounts ==
    ASSUME GraphTypeOK, NEW listing,
           listing = {[urn |-> c, method |-> Upper[nodes[c].method],
                       path |-> nodes[c].path] : c \in UnresolvedCalls}
    PROVE  /\ IsFiniteSet(listing)
           /\ Cardinality(listing) = Cardinality(UnresolvedCalls)
<1> DEFINE f == [c \in UnresolvedCalls |->
                    [urn |-> c, method |-> Upper[nodes[c].method], path |-> nodes[c].path]]
<1>1. IsFiniteSet(UnresolvedCalls)
  <2>1. UnresolvedCalls \subseteq DOMAIN nodes
    BY DEF UnresolvedCalls
  <2> QED BY <2>1, FS_Subset DEF GraphTypeOK
<1>2. /\ f \in [UnresolvedCalls -> listing]
      /\ \A c \in UnresolvedCalls : f[c].urn = c
      /\ \A x \in listing : \E c \in UnresolvedCalls : f[c] = x
  OBVIOUS
<1> HIDE DEF f
<1>3. f \in Surjection(UnresolvedCalls, listing)
  BY <1>2 DEF Surjection
<1>4. f \in Injection(UnresolvedCalls, listing)
  BY <1>2 DEF Injection, IsInjective
<1> QED BY <1>1, <1>3, <1>4, FS_Surjection

\* One way a call leaves the listing: it is counted, or it is in flight.
LEMMA TakenIsCounted ==
    ASSUME LinkerInv, CountsInv, NEW l \in Linkers, NEW call, TakeCall(l, call)
    PROVE  /\ \A k \in Linkers : IsFiniteSet(todo'[k])
           /\ \A k \in Linkers : k # l => todo'[k] = todo[k]
           /\ Cardinality(todo[l]) \in Nat /\ Cardinality(todo'[l]) \in Nat
           /\ Cardinality(todo[l]) = Cardinality(todo'[l]) + 1
<1>1. /\ call \in todo[l] /\ todo'[l] = todo[l] \ {call}
      /\ \A k \in Linkers : k # l => todo'[k] = todo[k]
  BY DEF TakeCall, LinkerInv, LinkerTypeOK
<1>2. IsFiniteSet(todo[l]) /\ \A k \in Linkers : IsFiniteSet(todo[k])
  BY DEF CountsInv
<1> DEFINE S == todo[l]
<1>3. /\ IsFiniteSet(S \ {call})
      /\ Cardinality(S \ {call}) = Cardinality(S) - 1
      /\ Cardinality(S) \in Nat /\ Cardinality(S \ {call}) \in Nat
  BY <1>1, <1>2, FS_RemoveElement, FS_CardinalityType
<1>4. Cardinality(S) = Cardinality(S \ {call}) + 1
  BY <1>3
<1> QED BY <1>1, <1>2, <1>3, <1>4

\* What StatsAddUp says of one pass.
Accounted(l) ==
    stats[l].callsScanned = Cardinality(todo[l]) + (IF pc[l] = "resolving" THEN 1 ELSE 0)
                                + stats[l].resolved + stats[l].ambiguous
                                + stats[l].noMatch + stats[l].alreadyLinked

Counting(l) == pc[l] \in {"matching", "resolving", "done"}

\* StatsAddUp, one pass at a time.
LEMMA AccountedIsStats ==
    StatsAddUp <=> \A l \in Linkers : Counting(l) => Accounted(l)
BY DEF StatsAddUp, Accounted, Counting

\* Each path of the loop moves one call from one term of the sum to another.
LEMMA StepAccounts ==
    ASSUME LinkerInv, CountsInv, NEW l \in Linkers,
           Start(l) \/ Step(l) \/ Fail(l) \/ FailAfterCommit(l)
    PROVE  /\ IsFiniteSet(todo'[l])
           /\ pc'[l] = "listing" => stats'[l] = NoStats
           /\ Counting(l)' => Accounted(l)'
<1> DEFINE s == stats[l]
<1>1. /\ pc \in [Linkers -> {"idle"} \cup Active \cup Over]
      /\ stats \in [Linkers -> LinkStats] /\ DOMAIN todo = Linkers
      /\ GraphTypeOK /\ IsFiniteSet(todo[l])
      /\ Counting(l) => Accounted(l)
      /\ pc[l] = "listing" => stats[l] = NoStats
  BY AccountedIsStats DEF LinkerInv, LinkerTypeOK, CountsInv
<1>2. s \in [callsScanned: Nat, resolved: Nat, ambiguous: Nat, noMatch: Nat,
             alreadyLinked: Nat, selfLoopSkip: Nat, dependsUpdated: Nat]
  BY <1>1 DEF LinkStats
<1>3. Cardinality(todo[l]) \in Nat
  BY <1>1, FS_CardinalityType
<1>4. CASE Start(l)
  BY <1>1, <1>4, FS_EmptySet DEF Start, Counting
<1>5. CASE ListUnresolved(l)
  <2>1. /\ IsFiniteSet(todo'[l])
        /\ Cardinality(todo'[l]) = Cardinality(UnresolvedCalls)
    <3>1. todo'[l] = {[urn |-> c, method |-> Upper[nodes[c].method],
                       path |-> nodes[c].path] : c \in UnresolvedCalls}
      BY <1>1, <1>5 DEF ListUnresolved
    <3> QED BY <1>1, <3>1, ListingCounts
  <2>2. stats'[l] = [NoStats EXCEPT !.callsScanned = Cardinality(UnresolvedCalls)]
        /\ pc'[l] = "matching"
    BY <1>1, <1>5 DEF ListUnresolved
  <2>3. Cardinality(UnresolvedCalls) \in Nat
    BY <1>1, ListingType
  <2> QED BY <2>1, <2>2, <2>3 DEF Accounted, NoStats
<1>6. ASSUME NEW call, TakeCall(l, call),
             \/ /\ pc'[l] = "matching"
                /\ \/ stats'[l] = [s EXCEPT !.noMatch = @ + 1]
                   \/ stats'[l] = [s EXCEPT !.ambiguous = @ + 1]
             \/ /\ pc'[l] = "resolving"
                /\ \/ stats'[l] = [s EXCEPT !.selfLoopSkip = @ + 1]
                   \/ stats'[l] = [s EXCEPT !.selfLoopSkip = @]
      PROVE  IsFiniteSet(todo'[l]) /\ pc'[l] # "listing" /\ Accounted(l)'
  <2>1. /\ IsFiniteSet(todo'[l]) /\ Cardinality(todo'[l]) \in Nat
        /\ Cardinality(todo[l]) = Cardinality(todo'[l]) + 1
    BY <1>6, TakenIsCounted
  <2>2. pc[l] = "matching" /\ Accounted(l)
    BY <1>1, <1>6 DEF TakeCall, Counting
  <2> QED BY <1>2, <1>6, <2>1, <2>2 DEF Accounted
<1>7. CASE SkipNoMatch(l) \/ ReportAmbiguous(l)
  <2>1. PICK call : /\ TakeCall(l, call) /\ UNCHANGED pc
                    /\ \/ stats' = [stats EXCEPT ![l].noMatch = @ + 1]
                       \/ stats' = [stats EXCEPT ![l].ambiguous = @ + 1]
    BY <1>7 DEF SkipNoMatch, ReportAmbiguous
  <2>2. pc'[l] = "matching"
        /\ \/ stats'[l] = [s EXCEPT !.noMatch = @ + 1]
           \/ stats'[l] = [s EXCEPT !.ambiguous = @ + 1]
    BY <1>1, <2>1 DEF TakeCall
  <2> QED BY <1>6, <2>1, <2>2
<1>8. CASE PickTarget(l)
  <2>1. PICK call, t : /\ TakeCall(l, call) /\ pc' = [pc EXCEPT ![l] = "resolving"]
                       /\ stats' = [stats EXCEPT ![l].selfLoopSkip =
                                IF SlugOf[call.urn] = SlugOf[t] THEN @ + 1 ELSE @]
    BY <1>8 DEF PickTarget
  <2>2. pc'[l] = "resolving"
        /\ \/ stats'[l] = [s EXCEPT !.selfLoopSkip = @ + 1]
           \/ stats'[l] = [s EXCEPT !.selfLoopSkip = @]
    BY <1>1, <2>1
  <2> QED BY <1>6, <2>1, <2>2
<1>9. CASE Resolve(l)
  <2>1. /\ pc[l] = "resolving" /\ pc'[l] = "matching" /\ todo' = todo
        /\ CountResolved(l) \/ CountAlreadyLinked(l)
    BY <1>1, <1>9 DEF Resolve
  <2>2. \/ stats'[l] = [s EXCEPT !.alreadyLinked = @ + 1]
        \/ stats'[l] = [s EXCEPT !.resolved = @ + 1, !.dependsUpdated = @ + 1]
        \/ stats'[l] = [s EXCEPT !.resolved = @ + 1, !.dependsUpdated = @]
    BY <1>1, <2>1 DEF CountResolved, CountAlreadyLinked
  <2>3. Accounted(l)
    BY <1>1, <2>1 DEF Counting
  <2>4. /\ stats'[l].callsScanned = s.callsScanned
        /\ stats'[l].noMatch = s.noMatch /\ stats'[l].ambiguous = s.ambiguous
        /\ \/ /\ stats'[l].alreadyLinked = s.alreadyLinked + 1
              /\ stats'[l].resolved = s.resolved
           \/ /\ stats'[l].resolved = s.resolved + 1
              /\ stats'[l].alreadyLinked = s.alreadyLinked
    BY <1>2, <2>2
  <2>5. /\ s.resolved \in Nat /\ s.ambiguous \in Nat /\ s.noMatch \in Nat
        /\ s.alreadyLinked \in Nat
    BY <1>2
  <2>6. s.callsScanned = Cardinality(todo[l]) + 1 + s.resolved + s.ambiguous
                            + s.noMatch + s.alreadyLinked
    BY <2>1, <2>3 DEF Accounted
  <2>7. Cardinality(todo'[l]) = Cardinality(todo[l])
    BY <2>1
  <2>8. s.callsScanned = Cardinality(todo[l]) + 0 + stats'[l].resolved
                            + stats'[l].ambiguous + stats'[l].noMatch
                            + stats'[l].alreadyLinked
    <3> HIDE DEF s
    <3> QED BY <1>3, <2>4, <2>5, <2>6
  <2>9. Accounted(l)'
    BY <2>1, <2>4, <2>7, <2>8 DEF Accounted
  <2>10. IsFiniteSet(todo'[l]) /\ pc'[l] # "listing"
    BY <1>1, <2>1
  <2> QED BY <2>9, <2>10
<1>10. CASE Finish(l)
  BY <1>1, <1>10 DEF Finish, Counting, Accounted
<1>11. CASE Fail(l) \/ FailAfterCommit(l)
  BY <1>1, <1>11 DEF Fail, FailAfterCommit, Counting
<1> QED BY <1>4, <1>5, <1>6, <1>7, <1>8, <1>9, <1>10, <1>11 DEF Step

\* A step of one pass leaves the counts of the others alone.
LEMMA CountsNext == LinkerInv /\ CountsInv /\ [LinkerNext]_vars => CountsInv'
<1> SUFFICES ASSUME LinkerInv, CountsInv, [LinkerNext]_vars
             PROVE  CountsInv'
  OBVIOUS
<1>1. \A l \in Linkers : Counting(l) => Accounted(l)
  BY AccountedIsStats DEF CountsInv
<1>2. CASE UNCHANGED vars
  BY <1>1, <1>2 DEF vars, linkerVars, CountsInv, StatsAddUp
<1>3. ASSUME NEW l \in Linkers, Start(l) \/ Step(l) \/ Fail(l) \/ FailAfterCommit(l)
      PROVE  CountsInv'
  <2>1. ASSUME NEW k \in Linkers, k # l
        PROVE  pc'[k] = pc[k] /\ stats'[k] = stats[k] /\ todo'[k] = todo[k]
    <3>1. /\ \A x \in Linkers : x # l => pc'[x] = pc[x]
          /\ \A x \in Linkers : x # l => todo'[x] = todo[x]
      BY <1>3 DEF Start, Step, ListUnresolved, SkipNoMatch, ReportAmbiguous, PickTarget,
                  Resolve, Finish, Fail, FailAfterCommit, TakeCall, LinkerInv, LinkerTypeOK
    <3>2. \A x \in Linkers : x # l => stats'[x] = stats[x]
      BY <1>3 DEF Start, Step, ListUnresolved, SkipNoMatch, ReportAmbiguous, PickTarget,
                  Resolve, Finish, Fail, FailAfterCommit, CountResolved,
                  CountAlreadyLinked, LinkerInv, LinkerTypeOK
    <3> QED BY <2>1, <3>1, <3>2
  <2>2. \A k \in Linkers : k # l =>
            /\ IsFiniteSet(todo'[k])
            /\ pc'[k] = "listing" => stats'[k] = NoStats
            /\ Counting(k)' => Accounted(k)'
    BY <1>1, <2>1 DEF Counting, Accounted, CountsInv
  <2>3. \A k \in Linkers :
            /\ IsFiniteSet(todo'[k])
            /\ pc'[k] = "listing" => stats'[k] = NoStats
            /\ Counting(k)' => Accounted(k)'
    BY <1>3, <2>2, StepAccounts
  <2> QED BY <2>3 DEF CountsInv, StatsAddUp, Counting, Accounted
<1> QED BY <1>2, <1>3 DEF LinkerNext

----------------------------------------------------------------------------
(* A pass that ran to its end has linked all it could. *)

\* The calls a pass still answers for.
Pending(l) ==
    {call.urn : call \in todo[l]} \cup (IF pc[l] = "resolving" THEN {cur[l].call} ELSE {})

\* A call that is unresolved and names one endpoint is still before every pass
\* that has listed: it was listed, and taking it leads to its transaction.
NothingLeftBehind ==
    /\ \A l \in Linkers : pc[l] = "done" => todo[l] = {}
    /\ \A l \in Linkers : Counting(l) =>
        \A c \in UnresolvedCalls : \A t \in URN :
            RouteMatches(c) = {t} => c \in Pending(l)

\* A resolution takes its call out of the unresolved and adds none.
LEMMA ResolveLeavesFewer ==
    ASSUME LinkerInv, NEW l \in Linkers, pc[l] = "resolving",
           ResolveCallHTTPTarget(cur[l].call, cur[l].target)
    PROVE  UnresolvedCalls' \subseteq UnresolvedCalls \ {cur[l].call}
<1> PICK c, t : c = cur[l].call /\ t = cur[l].target
  OBVIOUS
<1>1. GraphTypeOK /\ c \in DOMAIN nodes /\ c \in URN /\ t \in URN
  BY DEF LinkerInv, InFlightFaithful, IsKind, LinkerTypeOK, GraphTypeOK
<1>2. /\ DOMAIN nodes' = DOMAIN nodes
      /\ \A u \in DOMAIN nodes : u # c => nodes'[u] = nodes[u]
  BY OwnersKept
<1>3. nodes'[c].resolved = TRUE
  BY <1>1, ResolveSetsTarget, ResolveKeepsTargets
<1>4. TRUE # Absent
  BY AbsentAssumption
<1> QED BY <1>2, <1>3, <1>4 DEF UnresolvedCalls

\* The paths of the loop again: what each takes off the listing is linked, in
\* flight, or names no endpoint or several.
LEMMA LeftBehindStep ==
    ASSUME LinkerInv, NothingLeftBehind, NEW l \in Linkers,
           Start(l) \/ Step(l) \/ Fail(l) \/ FailAfterCommit(l)
    PROVE  NothingLeftBehind'
<1>1. /\ pc \in [Linkers -> {"idle"} \cup Active \cup Over]
      /\ DOMAIN todo = Linkers /\ DOMAIN cur = Linkers
      /\ UnresolvedCalls \subseteq DOMAIN nodes /\ UnresolvedCalls' \subseteq DOMAIN nodes'
  BY DEF LinkerInv, LinkerTypeOK, UnresolvedCalls
<1>2. \/ UNCHANGED graph
      \/ /\ pc[l] = "resolving"
         /\ ResolveCallHTTPTarget(cur[l].call, cur[l].target)
  BY DEF Start, Step, ListUnresolved, SkipNoMatch, ReportAmbiguous, PickTarget, Resolve,
         Finish, Fail, FailAfterCommit
<1>3. /\ UnresolvedCalls' \subseteq UnresolvedCalls
      /\ \A c \in UnresolvedCalls : RouteMatches(c)' = RouteMatches(c)
  <2>1. CASE UNCHANGED graph
    BY <2>1, GraphKept DEF UnresolvedCalls, graph
  <2>2. CASE pc[l] = "resolving" /\ ResolveCallHTTPTarget(cur[l].call, cur[l].target)
    BY <1>1, <2>2, ResolveLeavesFewer, ResolveKeepsTargets
  <2> QED BY <1>2, <2>1, <2>2
<1>0. \A k \in Linkers : pc'[k] = "done" => todo'[k] = {}
  <2>1. \A k \in Linkers : k # l => pc'[k] = pc[k] /\ todo'[k] = todo[k]
    BY <1>1 DEF Start, Step, ListUnresolved, SkipNoMatch, ReportAmbiguous, PickTarget,
                Resolve, Finish, Fail, FailAfterCommit, TakeCall
  <2>2. pc'[l] = "done" => todo'[l] = {}
    BY <1>1 DEF Start, Step, ListUnresolved, SkipNoMatch, ReportAmbiguous, PickTarget,
                Resolve, Finish, Fail, FailAfterCommit, TakeCall
  <2> QED BY <2>1, <2>2 DEF NothingLeftBehind
<1> SUFFICES ASSUME NEW k \in Linkers, Counting(k)', NEW c \in UnresolvedCalls',
                    NEW t \in URN, RouteMatches(c)' = {t}
             PROVE  c \in Pending(k)'
  BY <1>0 DEF NothingLeftBehind
<1>4. c \in UnresolvedCalls /\ RouteMatches(c) = {t}
  BY <1>3
<1>5. CASE k # l
  <2>1. pc'[k] = pc[k] /\ todo'[k] = todo[k] /\ cur'[k] = cur[k]
    BY <1>1, <1>5 DEF Start, Step, ListUnresolved, SkipNoMatch, ReportAmbiguous, PickTarget,
                  Resolve, Finish, Fail, FailAfterCommit, TakeCall
  <2> QED BY <1>4, <2>1 DEF NothingLeftBehind, Counting, Pending
<1>6. CASE k = l /\ Start(l)
  BY <1>1, <1>6 DEF Start, Counting
<1>7. CASE k = l /\ ListUnresolved(l)
  <2>1. todo'[l] = {[urn |-> u, method |-> Upper[nodes[u].method],
                     path |-> nodes[u].path] : u \in UnresolvedCalls}
    BY <1>1, <1>7 DEF ListUnresolved
  <2> DEFINE x == [urn |-> c, method |-> Upper[nodes[c].method], path |-> nodes[c].path]
  <2>2. x \in todo'[l] /\ x.urn = c
    BY <1>4, <2>1
  <2> HIDE DEF x
  <2> QED BY <1>7, <2>2 DEF Pending
<1>8. ASSUME k = l, NEW call, TakeCall(l, call)
      PROVE  c \in {x.urn : x \in todo'[l]} \/ (c = call.urn /\ Matches(l, call) = {t})
  <2>1. call \in todo[l] /\ todo'[l] = todo[l] \ {call} /\ pc[l] = "matching"
    BY <1>1, <1>8 DEF TakeCall
  <2>2. c \in {x.urn : x \in todo[l]}
    BY <1>4, <2>1 DEF NothingLeftBehind, Counting, Pending
  <2>3. c = call.urn => Matches(l, call) = {t}
    BY <1>4, <2>1, MatchesAreRouteMatches DEF LinkerInv
  <2> QED BY <2>1, <2>2, <2>3
<1>9. CASE k = l /\ (SkipNoMatch(l) \/ ReportAmbiguous(l))
  <2>1. PICK call : /\ TakeCall(l, call)
                    /\ Matches(l, call) = {} \/ \E x, y \in Matches(l, call) : x # y
    BY <1>9 DEF SkipNoMatch, ReportAmbiguous
  <2> QED BY <1>8, <1>9, <2>1 DEF Pending
<1>10. CASE k = l /\ PickTarget(l)
  <2>1. PICK call, u : /\ TakeCall(l, call)
                       /\ cur' = [cur EXCEPT ![l] = [call |-> call.urn, target |-> u]]
                       /\ pc' = [pc EXCEPT ![l] = "resolving"]
    BY <1>10 DEF PickTarget
  <2>2. pc'[l] = "resolving" /\ cur'[l].call = call.urn
    BY <1>1, <2>1
  <2> QED BY <1>8, <1>10, <2>1, <2>2 DEF Pending
<1>11. CASE k = l /\ Resolve(l)
  <2>1. c # cur[l].call /\ pc[l] = "resolving" /\ todo' = todo
    BY <1>11, ResolveLeavesFewer DEF Resolve
  <2> QED BY <1>4, <1>11, <2>1 DEF NothingLeftBehind, Counting, Pending
<1>12. CASE k = l /\ Finish(l)
  BY <1>4, <1>12 DEF Finish, NothingLeftBehind, Counting, Pending
<1>13. CASE k = l /\ (Fail(l) \/ FailAfterCommit(l))
  BY <1>1, <1>13 DEF Fail, FailAfterCommit, Counting
<1> QED BY <1>5, <1>6, <1>7, <1>9, <1>10, <1>11, <1>12, <1>13 DEF Step

\* So does every step of the system.
LEMMA LeftBehindNext ==
    LinkerInv /\ NothingLeftBehind /\ [LinkerNext]_vars => NothingLeftBehind'
<1> SUFFICES ASSUME LinkerInv, NothingLeftBehind, UNCHANGED vars
             PROVE  NothingLeftBehind'
  BY LeftBehindStep DEF LinkerNext
<1>1. UNCHANGED graph /\ nodes' = nodes /\ pc' = pc /\ todo' = todo /\ cur' = cur
  BY DEF vars, linkerVars, graph
<1>2. UnresolvedCalls' = UnresolvedCalls
  BY <1>1 DEF UnresolvedCalls
<1>3. \A c : RouteMatches(c)' = RouteMatches(c)
  BY <1>1, GraphKept
<1>4. \A l : Pending(l)' = Pending(l) /\ (Counting(l)' <=> Counting(l))
  BY <1>1 DEF Pending, Counting
<1> QED BY <1>1, <1>2, <1>3, <1>4 DEF NothingLeftBehind

----------------------------------------------------------------------------
(* What a pass reports as written was written. *)

\* An extraction that gives a route a serviceURN gives it the service its URN
\* names: urn:cg:<slug>:... (schema/fixtures/nestjs-orders.cypher).
OwnersAreNamed ==
    \A g \in InitGraphs : \A u \in DOMAIN g.nodes :
        g.nodes[u].kind \in {"Endpoint", "CallHTTP"} =>
            g.nodes[u].serviceURN \in {Absent, SlugOf[u]}

\* So the slugs the linker compares are the owners the transaction compares.
OwnersAgree ==
    \A u \in DOMAIN nodes : nodes[u].kind \in {"Endpoint", "CallHTTP"} => OwnerOf(u) = SlugOf[u]

\* Every MERGE on {via:'http'} leaves a trace.
LEMMA AddHttpChanges ==
    ASSUME NEW rels \in Seq(DependsOn)
    PROVE  AddHttpDependency(rels) # rels
<1>1. CASE \E i \in DOMAIN rels : rels[i].via = "http"
  <2>1. PICK i \in DOMAIN rels : rels[i].via = "http"
    BY <1>1
  <2>2. rels[i] \in [via : Maybe(Via), weight : Maybe(Nat)]
    <3>1. rels[i] \in DependsOn
      OBVIOUS
    <3> QED BY <3>1 DEF DependsOn
  <2>3. AddHttpDependency(rels)[i] =
            [rels[i] EXCEPT !.weight = IF rels[i].weight = Absent THEN 1 ELSE rels[i].weight + 1]
    BY <1>1, <2>1 DEF AddHttpDependency
  <2>4. AddHttpDependency(rels)[i].weight =
            IF rels[i].weight = Absent THEN 1 ELSE rels[i].weight + 1
    BY <2>2, <2>3
  <2>5. AddHttpDependency(rels)[i].weight # rels[i].weight
    <3>1. rels[i].weight \in Maybe(Nat)
      BY <2>2
    <3> QED BY <2>4, <3>1, AbsentAssumption DEF Maybe
  <2> QED BY <2>5
<1>2. CASE ~\E i \in DOMAIN rels : rels[i].via = "http"
  <2>1. AddHttpDependency(rels) = Append(rels, [via |-> "http", weight |-> 1])
    BY <1>2 DEF AddHttpDependency
  <2>2. Len(Append(rels, [via |-> "http", weight |-> 1])) = Len(rels) + 1 /\ Len(rels) \in Nat
    OBVIOUS
  <2> QED BY <2>1, <2>2
<1> QED BY <1>1, <1>2

\* No transaction of the linker gives a route another owner.
LEMMA OwnersStayAgreed ==
    LinkerInv /\ OwnersAgree /\ [LinkerNext]_vars => OwnersAgree'
<1> SUFFICES ASSUME LinkerInv, OwnersAgree, [LinkerNext]_vars PROVE OwnersAgree'
  OBVIOUS
<1>1. CASE UNCHANGED graph
  BY <1>1 DEF graph, OwnersAgree, OwnerOf
<1>2. ASSUME NEW l \in Linkers, pc[l] = "resolving",
             ResolveCallHTTPTarget(cur[l].call, cur[l].target)
      PROVE  OwnersAgree'
  <2>1. GraphTypeOK /\ cur[l].call \in URN /\ cur[l].target \in URN
    BY <1>2 DEF LinkerInv, LinkerTypeOK, InFlightFaithful, IsKind, GraphTypeOK
  <2>2. /\ DOMAIN nodes' = DOMAIN nodes
        /\ \A u \in DOMAIN nodes : /\ nodes'[u].kind = nodes[u].kind
                                   /\ nodes'[u].serviceURN = nodes[u].serviceURN
    BY <1>2, <2>1, ResolveKeepsRoutes
  <2> QED BY <2>2 DEF OwnersAgree, OwnerOf
<1> QED BY <1>1, <1>2, CommitOrKeep

\* The count and the dependency go up together.
LEMMA UpdatesAreWritten ==
    ASSUME LinkerInv, OwnersAgree, [LinkerNext]_vars,
           NEW l \in Linkers, pc[l] = "resolving", pc'[l] = "matching"
    PROVE  stats'[l].dependsUpdated > stats[l].dependsUpdated <=> deps' # deps
<1> DEFINE c == cur[l].call
           t == cur[l].target
<1>1. Resolve(l)
  BY DEF LinkerInv, LinkerTypeOK, LinkerNext, Start, Step, ListUnresolved, SkipNoMatch,
         ReportAmbiguous, PickTarget, TakeCall, Resolve, Finish, Fail, FailAfterCommit, vars,
         linkerVars, Active
<1>2. stats[l] \in LinkStats /\ stats[l].dependsUpdated \in Nat /\ GraphTypeOK
  <2>1. stats[l] \in LinkStats /\ GraphTypeOK
    BY DEF LinkerInv, LinkerTypeOK
  <2> QED BY <2>1 DEF LinkStats
<1>3. CASE ~ResolveReturnsRow(c, t)
  <2>1. deps' = deps
    BY <1>1, <1>3 DEF Resolve, ResolveCallHTTPTarget
  <2>2. CountAlreadyLinked(l)
    BY <1>1, <1>3 DEF Resolve
  <2>3. stats'[l].dependsUpdated = stats[l].dependsUpdated
    <3>1. stats'[l] = [stats[l] EXCEPT !.alreadyLinked = @ + 1]
      BY <2>2 DEF CountAlreadyLinked, LinkerInv, LinkerTypeOK
    <3> QED BY <1>2, <3>1 DEF LinkStats
  <2> QED BY <1>2, <2>1, <2>3
<1>4. CASE ResolveReturnsRow(c, t)
  <2>1. /\ OwnerOf(c) = SlugOf[c] /\ OwnerOf(t) = SlugOf[t] /\ OwnerOf(c) # OwnerOf(t)
        /\ OwnerOf(c) \in Service /\ OwnerOf(t) \in Service
    <3>1. IsKind(c, "CallHTTP") /\ IsKind(t, "Endpoint")
      BY <1>4 DEF ResolveReturnsRow, CanResolve
    <3>2. c \in URN /\ t \in URN
      BY <1>2, <3>1 DEF GraphTypeOK, IsKind
    <3> QED BY <1>4, <3>1, <3>2, URNAssumption DEF OwnersAgree, IsKind, ResolveReturnsRow
  <2> DEFINE pair == <<OwnerOf(c), OwnerOf(t)>>
  <2>2. pair \in Pairs /\ deps' = [deps EXCEPT ![pair] = AddHttpDependency(deps[pair])]
    BY <1>1, <1>4, <2>1 DEF Resolve, ResolveCallHTTPTarget, Pairs
  <2>3. deps' # deps
    <3> HIDE DEF pair
    <3>1. deps[pair] \in Seq(DependsOn) /\ deps'[pair] = AddHttpDependency(deps[pair])
      BY <1>2, <2>2 DEF GraphTypeOK
    <3> QED BY <3>1, AddHttpChanges
  <2>4. CountResolved(l)
    BY <1>1, <1>4 DEF Resolve
  <2>5. stats'[l].dependsUpdated = stats[l].dependsUpdated + 1
    <3>1. stats'[l] = [stats[l] EXCEPT !.resolved = @ + 1, !.dependsUpdated = @ + 1]
      BY <2>1, <2>4 DEF CountResolved, LinkerInv, LinkerTypeOK
    <3> QED BY <1>2, <3>1 DEF LinkStats
  <2> QED BY <1>2, <2>3, <2>5
<1> QED BY <1>3, <1>4

----------------------------------------------------------------------------
(* The theorems. *)

\* The service map never shows a dependency nobody causes, nor misses a linked
\* call, however passes overlap and fail (cypherResolveCallHTTPTarget).
THEOREM MapCovers == Spec => []DependsCovers
<1>1. WeightsCover => DependsCovers
  BY DEF WeightsCover, DependsCovers
<1> QED BY <1>1, CoverInit, CoverNext, InvariantHolds, PTL DEF Spec

\* Every call of the listing is in exactly one of the counts of LinkStats, or
\* still to come (the loop of Link, linker.go:130-184).
THEOREM CountsAddUp == Spec => []StatsAddUp
<1>1. Init => CountsInv
  BY FS_EmptySet DEF Init, LinkerInit, CountsInv, StatsAddUp
<1>2. CountsInv => StatsAddUp
  BY DEF CountsInv
<1> QED BY <1>1, <1>2, CountsNext, InvariantHolds, PTL DEF Spec

\* After any pass that ran to its end, what is unresolved names no endpoint or
\* several (linker.go:104-105), whichever passes ran beside it.
THEOREM DonePassesLinkAll == Spec => []DonePassLinksAll
<1>1. Init => NothingLeftBehind
  BY DEF Init, LinkerInit, NothingLeftBehind, Counting
<1>2. NothingLeftBehind => DonePassLinksAll
  <2> SUFFICES ASSUME NothingLeftBehind, NEW l \in Linkers, pc[l] = "done"
               PROVE  \A c \in UnresolvedCalls : \A t \in URN : RouteMatches(c) # {t}
    BY DEF DonePassLinksAll
  <2> QED BY DEF NothingLeftBehind, Counting, Pending
<1> QED BY <1>1, <1>2, LeftBehindNext, InvariantHolds, PTL DEF Spec

\* DependsUpdated counts what was written (linker.go:46), although the linker
\* compares the slugs of two URNs and the transaction two serviceURNs.
THEOREM UpdatesCounted == OwnersAreNamed /\ Spec => DependsUpdatedIsWhatWasWritten
<1>1. CASE OwnersAreNamed
  <2>1. Init => OwnersAgree
    <3> SUFFICES ASSUME Init PROVE OwnersAgree
      OBVIOUS
    <3>1. PICK g \in InitGraphs : nodes = g.nodes
      BY DEF Init
    <3> QED BY <1>1, <3>1 DEF OwnersAreNamed, OwnersAgree, OwnerOf
  <2>2. LinkerInv /\ OwnersAgree /\ [LinkerNext]_vars =>
          [\A l \in Linkers : (pc[l] = "resolving" /\ pc'[l] = "matching") =>
              (stats'[l].dependsUpdated > stats[l].dependsUpdated <=> deps' # deps)]_vars
    BY UpdatesAreWritten
  <2> QED BY <2>1, <2>2, OwnersStayAgreed, InvariantHolds, PTL
          DEF Spec, DependsUpdatedIsWhatWasWritten
<1>2. CASE ~OwnersAreNamed
  BY <1>2
<1> QED BY <1>1, <1>2
=============================================================================
