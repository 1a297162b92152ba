--------------------------- MODULE PipelineProofs ---------------------------
(****************************************************************************)
(* What TLAPS proves of Pipeline, for every set of loaders, linkers and     *)
(* payloads, with no rule between the programs: what the graph keeps while  *)
(* loads, passes, failures and deletions interleave.                        *)
(****************************************************************************)
EXTENDS Pipeline, LinkerProofs, LoaderProofs

\* The inductive invariant: nothing but the types is needed to see that a
\* transaction leaves no relationship without an end.
PipeInv == PipeTypeOK /\ NoDanglingEdges

\* What a transaction of a load or of a pass does to the nodes and edges that
\* were there.
Grows ==
    /\ DOMAIN nodes \subseteq DOMAIN nodes'
    /\ \A u \in DOMAIN nodes : nodes'[u].kind = nodes[u].kind
    /\ DOMAIN edges \subseteq DOMAIN edges'

----------------------------------------------------------------------------
(* The transactions. *)

\* A transaction of a load adds; a node it rewrites keeps its kind, by the
\* label in the MERGE.
LEMMA WriteItemGrows ==
    ASSUME LoaderTypeOK, NoDanglingEdges, NEW l \in Loaders, WriteItem(l)
    PROVE  GraphTypeOK' /\ NoDanglingEdges' /\ Grows
<1>1. CASE /\ At(l, "node") /\ KnownKind(Current(l))
           /\ CanUpsertNode(Current(l).urn, Current(l))
           /\ UpsertNode(Current(l).urn, Stored(Current(l)))
  <2>1. /\ GraphTypeOK'
        /\ DOMAIN nodes' = DOMAIN nodes \cup {Current(l).urn}
        /\ nodes'[Current(l).urn] = Stored(Current(l))
        /\ \A u \in DOMAIN nodes : u # Current(l).urn => nodes'[u] = nodes[u]
        /\ UNCHANGED <<edges, deps>>
    BY <1>1, WriteNode
  <2>2. Stored(Current(l)).kind = Current(l).kind
    BY DEF Stored
  <2>3. \A u \in DOMAIN nodes : nodes'[u].kind = nodes[u].kind
    BY <1>1, <2>1, <2>2 DEF CanUpsertNode
  <2> QED BY <2>1, <2>3 DEF NoDanglingEdges, Grows
<1>2. CASE /\ At(l, "edge") /\ KnownEdgeType(Current(l))
           /\ CanUpsertEdge(Current(l).from, Current(l).to)
           /\ WriteEdge(Current(l))
  <2>1. GraphTypeOK' /\ NoDanglingEdges' /\ UNCHANGED nodes
    BY <1>2, WriteEdgeKeeps
  <2>2. DOMAIN edges \subseteq DOMAIN edges'
    BY <1>2 DEF WriteEdge, UpsertEdge, UpsertDependsOn
  <2> QED BY <2>1, <2>2 DEF Grows
<1> QED BY <1>1, <1>2 DEF WriteItem

\* The resolving transaction joins nodes its MATCH clauses have bound.
LEMMA ResolveGrows ==
    ASSUME GraphTypeOK, NoDanglingEdges, NEW c \in URN, NEW t \in URN,
           ResolveCallHTTPTarget(c, t)
    PROVE  GraphTypeOK' /\ NoDanglingEdges' /\ Grows
<1>1. GraphTypeOK'
  BY ResolveType
<1>2. /\ DOMAIN nodes' = DOMAIN nodes
      /\ \A u \in DOMAIN nodes : nodes'[u].kind = nodes[u].kind
  BY ResolveKeepsRoutes
<1>3. /\ DOMAIN edges \subseteq DOMAIN edges'
      /\ \A k \in DOMAIN edges' : k \in DOMAIN edges \/ {k[1], k[2]} \subseteq DOMAIN nodes
  BY DEF ResolveCallHTTPTarget, CanResolve, IsKind
<1>4. \A p \in Pairs : deps'[p] # <<>> =>
            deps[p] # <<>> \/ {p[1], p[2]} \subseteq DOMAIN nodes
  <2>1. CASE ResolveReturnsRow(c, t)
    <3> DEFINE pair == <<OwnerOf(c), OwnerOf(t)>>
    <3>1. pair[1] \in DOMAIN nodes /\ pair[2] \in DOMAIN nodes
      BY <2>1 DEF ResolveReturnsRow, IsKind
    <3>2. deps' = [deps EXCEPT ![pair] = AddHttpDependency(deps[pair])]
      BY <2>1 DEF ResolveCallHTTPTarget
    <3> HIDE DEF pair
    <3> QED BY <3>1, <3>2 DEF GraphTypeOK
  <2>2. CASE ~ResolveReturnsRow(c, t)
    BY <2>2 DEF ResolveCallHTTPTarget
  <2> QED BY <2>1, <2>2
<1> QED BY <1>1, <1>2, <1>3, <1>4 DEF NoDanglingEdges, Grows

\* DETACH DELETE takes the relationships of the node with it.
LEMMA DeleteKeeps ==
    ASSUME GraphTypeOK, NoDanglingEdges, NEW u \in URN, DeleteNode(u)
    PROVE  GraphTypeOK' /\ NoDanglingEdges'
<1>1. IsFiniteSet(DOMAIN nodes \ {u})
  BY FS_Subset DEF GraphTypeOK
<1>2. <<>> \in Seq(DependsOn)
  OBVIOUS
<1>3. GraphTypeOK'
  BY <1>1, <1>2 DEF GraphTypeOK, DeleteNode
<1>4. NoDanglingEdges'
  BY DEF NoDanglingEdges, DeleteNode
<1> QED BY <1>3, <1>4

----------------------------------------------------------------------------
(* The types of the programs' own state. *)

\* Taking a call keeps the types of the listing and of the cache.
LEMMA TakeCallTypes ==
    ASSUME LinkerTypeOK, NEW l \in Linkers, NEW call, TakeCall(l, call)
    PROVE  /\ call \in UnresolvedCall
           /\ todo' \in [Linkers -> SUBSET UnresolvedCall]
           /\ DOMAIN cands' = Linkers
           /\ \A k \in Linkers : /\ DOMAIN cands'[k] \subseteq Method
                                 /\ \A m \in DOMAIN cands'[k] : cands'[k][m] \subseteq Candidate
<1>1. /\ todo \in [Linkers -> SUBSET UnresolvedCall]
      /\ DOMAIN cands = Linkers
      /\ \A k \in Linkers : /\ DOMAIN cands[k] \subseteq Method
                            /\ \A m \in DOMAIN cands[k] : cands[k][m] \subseteq Candidate
      /\ GraphTypeOK
  BY DEF LinkerTypeOK
<1>2. call \in UnresolvedCall /\ call.method \in Method
  BY <1>1 DEF TakeCall, UnresolvedCall
<1>3. todo' = [todo EXCEPT ![l] = @ \ {call}]
  BY DEF TakeCall
<1>4. \A m \in DOMAIN cands[l] \cup {call.method} : LoadCandidates(l, m) \subseteq Candidate
  BY <1>1, CandidatesType DEF LoadCandidates
<1>5. /\ DOMAIN cands' = Linkers
      /\ \A k \in Linkers : k # l => cands'[k] = cands[k]
      /\ cands'[l] = [m \in DOMAIN cands[l] \cup {call.method} |-> LoadCandidates(l, m)]
  BY <1>1 DEF TakeCall
<1>6. \A k \in Linkers : /\ DOMAIN cands'[k] \subseteq Method
                         /\ \A m \in DOMAIN cands'[k] : cands'[k][m] \subseteq Candidate
  BY <1>1, <1>2, <1>4, <1>5
<1> QED BY <1>1, <1>2, <1>3, <1>5, <1>6

\* A count goes up; no other field of the statistics changes its type.
LEMMA CountsType ==
    ASSUME NEW s \in LinkStats
    PROVE  /\ [s EXCEPT !.noMatch = @ + 1] \in LinkStats
           /\ [s EXCEPT !.ambiguous = @ + 1] \in LinkStats
           /\ [s EXCEPT !.alreadyLinked = @ + 1] \in LinkStats
           /\ [s EXCEPT !.resolved = @ + 1, !.dependsUpdated = @ + 1] \in LinkStats
           /\ [s EXCEPT !.resolved = @ + 1, !.dependsUpdated = @] \in LinkStats
<1>1. \A x \in LinkStats : /\ [x EXCEPT !.dependsUpdated = @ + 1] \in LinkStats
                           /\ [x EXCEPT !.dependsUpdated = @] \in LinkStats
  BY DEF LinkStats
<1>2. [s EXCEPT !.resolved = @ + 1] \in LinkStats
  BY DEF LinkStats
<1>3. /\ [s EXCEPT !.noMatch = @ + 1] \in LinkStats
      /\ [s EXCEPT !.ambiguous = @ + 1] \in LinkStats
      /\ [s EXCEPT !.alreadyLinked = @ + 1] \in LinkStats
  BY DEF LinkStats
<1> QED BY <1>1, <1>2, <1>3

\* A step of a pass that sends no transaction: what it has read, counted and
\* picked keeps its types, and the graph is as it was.
LEMMA ReadOnlyTypes ==
    ASSUME PipeTypeOK, NEW l \in Linkers,
           \/ Start(l) \/ ListUnresolved(l) \/ SkipNoMatch(l) \/ ReportAmbiguous(l)
           \/ PickTarget(l) \/ Finish(l) \/ Fail(l)
    PROVE  /\ UNCHANGED graph
           /\ LinkerTypeOK'
           /\ (\A k \in Linkers : pc[k] = "resolving" =>
                    {cur[k].call, cur[k].target} \subseteq URN)'
<1>1. LinkerTypeOK /\ \A k \in Linkers : pc[k] = "resolving" =>
                            {cur[k].call, cur[k].target} \subseteq URN
  BY DEF PipeTypeOK
<1>2. UNCHANGED graph => GraphTypeOK'
  BY <1>1 DEF LinkerTypeOK, graph, GraphTypeOK
<1>3. stats[l] \in LinkStats /\ DOMAIN stats = Linkers /\ DOMAIN cur = Linkers
      /\ DOMAIN pc = Linkers
  BY <1>1 DEF LinkerTypeOK
<1>4. CASE Start(l)
  <2>1. NoStats \in LinkStats /\ Idle \in [call : Maybe(URN), target : Maybe(URN)]
    BY DEF NoStats, LinkStats, Idle, Maybe
  <2>2. passes' \in 0 .. MaxPasses
    BY <1>1, <1>4, LinkerAssumption DEF Start, LinkerTypeOK
  <2>3. LinkerTypeOK'
    BY <1>1, <1>2, <1>4, <2>1, <2>2 DEF Start, LinkerTypeOK, Active
  <2> QED BY <1>1, <1>3, <1>4, <2>3 DEF Start
<1>5. CASE ListUnresolved(l)
  <2>1. [stats[l] EXCEPT !.callsScanned = Cardinality(UnresolvedCalls)] \in LinkStats
    BY <1>1, <1>3, ListingType DEF LinkerTypeOK, LinkStats
  <2>2. todo' \in [Linkers -> SUBSET UnresolvedCall]
    BY <1>1, <1>5, ListingType DEF LinkerTypeOK, ListUnresolved
  <2>3. LinkerTypeOK'
    BY <1>1, <1>2, <1>5, <2>1, <2>2 DEF ListUnresolved, LinkerTypeOK, Active
  <2> QED BY <1>1, <1>3, <1>5, <2>3 DEF ListUnresolved
<1>6. CASE SkipNoMatch(l) \/ ReportAmbiguous(l)
  <2>1. /\ \E call \in todo[l] : TakeCall(l, call)
        /\ UNCHANGED <<graph, pc, cur, passes>>
        /\ \/ stats' = [stats EXCEPT ![l].noMatch = @ + 1]
           \/ stats' = [stats EXCEPT ![l].ambiguous = @ + 1]
    BY <1>6 DEF SkipNoMatch, ReportAmbiguous
  <2>2. stats' \in [Linkers -> LinkStats]
    BY <1>1, <1>3, <2>1, CountsType DEF LinkerTypeOK
  <2>3. LinkerTypeOK'
    BY <1>1, <1>2, <2>1, <2>2, TakeCallTypes DEF LinkerTypeOK
  <2> QED BY <1>1, <2>1, <2>3
<1>7. CASE PickTarget(l)
  <2>1. PICK call \in todo[l], t \in URN :
          /\ TakeCall(l, call)
          /\ stats' = [stats EXCEPT ![l].selfLoopSkip =
                          IF SlugOf[call.urn] = SlugOf[t] THEN @ + 1 ELSE @]
          /\ cur' = [cur EXCEPT ![l] = [call |-> call.urn, target |-> t]]
          /\ pc' = [pc EXCEPT ![l] = "resolving"]
          /\ UNCHANGED <<graph, passes>>
    BY <1>7 DEF PickTarget
  <2>2. call.urn \in URN
    BY <1>1, <2>1, TakeCallTypes DEF UnresolvedCall
  <2>3. stats' \in [Linkers -> LinkStats]
    <3>1. \A s \in LinkStats : [s EXCEPT !.selfLoopSkip =
                IF SlugOf[call.urn] = SlugOf[t] THEN @ + 1 ELSE @] \in LinkStats
      BY DEF LinkStats
    <3>2. stats \in [Linkers -> LinkStats]
      BY <1>1 DEF LinkerTypeOK
    <3>3. stats' = [stats EXCEPT ![l] = [stats[l] EXCEPT !.selfLoopSkip =
                IF SlugOf[call.urn] = SlugOf[t] THEN @ + 1 ELSE @]]
      BY <2>1, <3>2
    <3> QED BY <1>3, <3>1, <3>2, <3>3
  <2>4. cur' \in [Linkers -> [call: Maybe(URN), target: Maybe(URN)]]
    BY <1>1, <2>1, <2>2 DEF LinkerTypeOK, Maybe
  <2>5. pc' \in [Linkers -> {"idle"} \cup Active \cup Over]
    BY <1>1, <2>1 DEF LinkerTypeOK, Active
  <2>6. LinkerTypeOK'
    BY <1>1, <1>2, <2>1, <2>3, <2>4, <2>5, TakeCallTypes DEF LinkerTypeOK
  <2> QED BY <1>1, <1>3, <2>1, <2>2, <2>6
<1>8. CASE Finish(l) \/ Fail(l)
  <2>1. /\ \/ pc' = [pc EXCEPT ![l] = "done"]
           \/ pc' = [pc EXCEPT ![l] = "failed"]
        /\ UNCHANGED <<graph, todo, cands, cur, stats, passes>>
    BY <1>8 DEF Finish, Fail
  <2>2. LinkerTypeOK'
    BY <1>1, <1>2, <2>1 DEF LinkerTypeOK, Over
  <2> QED BY <1>1, <1>3, <2>1, <2>2
<1> QED BY <1>4, <1>5, <1>6, <1>7, <1>8
            DEF Start, ListUnresolved, SkipNoMatch, ReportAmbiguous, PickTarget,
                Finish, Fail

\* The step that sends the transaction, and the crash after its commit.
LEMMA ResolvingTypes ==
    ASSUME PipeTypeOK, NoDanglingEdges, NEW l \in Linkers,
           Resolve(l) \/ FailAfterCommit(l)
    PROVE  /\ LinkerTypeOK'
           /\ (\A k \in Linkers : pc[k] = "resolving" =>
                    {cur[k].call, cur[k].target} \subseteq URN)'
           /\ NoDanglingEdges' /\ Grows
<1>1. LinkerTypeOK /\ \A k \in Linkers : pc[k] = "resolving" =>
                            {cur[k].call, cur[k].target} \subseteq URN
  BY DEF PipeTypeOK
<1>2. /\ pc[l] = "resolving"
      /\ ResolveCallHTTPTarget(cur[l].call, cur[l].target)
      /\ UNCHANGED <<todo, cands, passes>>
      /\ \/ /\ CountResolved(l) \/ CountAlreadyLinked(l)
            /\ cur' = [cur EXCEPT ![l] = Idle]
            /\ pc' = [pc EXCEPT ![l] = "matching"]
         \/ /\ UNCHANGED <<cur, stats>>
            /\ pc' = [pc EXCEPT ![l] = "failed"]
  BY DEF Resolve, FailAfterCommit
<1>3. cur[l].call \in URN /\ cur[l].target \in URN /\ GraphTypeOK
  BY <1>1, <1>2 DEF LinkerTypeOK
<1>4. GraphTypeOK' /\ NoDanglingEdges' /\ Grows
  BY <1>2, <1>3, ResolveGrows
<1>5. stats' \in [Linkers -> LinkStats]
  <2>1. stats \in [Linkers -> LinkStats] /\ stats[l] \in LinkStats
    BY <1>1 DEF LinkerTypeOK
  <2>2. \/ stats' = stats
        \/ stats' = [stats EXCEPT ![l] = [stats[l] EXCEPT !.alreadyLinked = @ + 1]]
        \/ stats' = [stats EXCEPT ![l] =
                [stats[l] EXCEPT !.resolved = @ + 1, !.dependsUpdated = @ + 1]]
        \/ stats' = [stats EXCEPT ![l] =
                [stats[l] EXCEPT !.resolved = @ + 1, !.dependsUpdated = @]]
    BY <1>2, <2>1 DEF CountResolved, CountAlreadyLinked, LinkStats
  <2> QED BY <2>1, <2>2, CountsType
<1>6. cur' \in [Linkers -> [call: Maybe(URN), target: Maybe(URN)]]
  BY <1>1, <1>2 DEF LinkerTypeOK, Idle, Maybe
<1>7. pc' \in [Linkers -> {"idle"} \cup Active \cup Over]
  BY <1>1, <1>2 DEF LinkerTypeOK, Active, Over
<1>8. LinkerTypeOK'
  BY <1>1, <1>2, <1>4, <1>5, <1>6, <1>7 DEF LinkerTypeOK
<1>9. ASSUME NEW k \in Linkers, pc'[k] = "resolving"
      PROVE  {cur'[k].call, cur'[k].target} \subseteq URN
  <2>1. k # l
    BY <1>1, <1>2, <1>9 DEF LinkerTypeOK
  <2>2. pc'[k] = pc[k] /\ cur'[k] = cur[k]
    BY <1>1, <1>2, <2>1 DEF LinkerTypeOK
  <2> QED BY <1>1, <1>9, <2>2
<1> QED BY <1>4, <1>8, <1>9

\* The own state of the loads.
LEMMA LoaderStateTypes ==
    ASSUME LoaderTypeOK, NEW l \in Loaders, GraphTypeOK',
           StartLoad(l) \/ LoadStep(l) \/ FailLoad(l) \/ FailLoadAfterCommit(l)
    PROVE  LoaderTypeOK'
<1>1. CASE StartLoad(l)
  <2>1. loads' \in 0 .. MaxLoads
    BY <1>1, LoaderAssumption DEF StartLoad, LoaderTypeOK
  <2> QED BY <1>1, <2>1 DEF StartLoad, LoaderTypeOK
<1>2. CASE SkipItem(l) \/ LoadItem(l)
  <2>1. Advance(l)
    BY <1>2 DEF SkipItem, LoadItem
  <2> QED BY <2>1 DEF Advance, LoaderTypeOK
<1>3. CASE Reject(l) \/ FinishLoad(l) \/ FailLoad(l) \/ FailLoadAfterCommit(l)
  <2>1. PICK how \in Ended : End(l, how)
    BY <1>3 DEF Reject, FinishLoad, FailLoad, FailLoadAfterCommit, Ended
  <2> QED BY <2>1 DEF End, LoaderTypeOK
<1> QED BY <1>1, <1>2, <1>3 DEF LoadStep

----------------------------------------------------------------------------
(* The programs in the one graph. *)

\* Leaving the graph alone keeps all that is said of it.
LEMMA GraphUnchanged ==
    ASSUME UNCHANGED graph
    PROVE  /\ GraphTypeOK => GraphTypeOK'
           /\ NoDanglingEdges => NoDanglingEdges'
           /\ Grows
BY DEF graph, GraphTypeOK, NoDanglingEdges, Grows

\* What linkers have read and picked is not touched by a load or a deletion,
\* nor is what loads have written so far by a pass.
LEMMA OthersKeep ==
    ASSUME PipeTypeOK, GraphTypeOK'
    PROVE  /\ UNCHANGED linkerVars =>
                /\ LinkerTypeOK'
                /\ (\A k \in Linkers : pc[k] = "resolving" =>
                        {cur[k].call, cur[k].target} \subseteq URN)'
           /\ UNCHANGED loaderVars => LoaderTypeOK'
<1>1. UNCHANGED linkerVars =>
        /\ LinkerTypeOK'
        /\ (\A k \in Linkers : pc[k] = "resolving" =>
                {cur[k].call, cur[k].target} \subseteq URN)'
  BY DEF PipeTypeOK, LinkerTypeOK, linkerVars
<1>2. UNCHANGED loaderVars => LoaderTypeOK'
  BY DEF PipeTypeOK, LoaderTypeOK, loaderVars
<1> QED BY <1>1, <1>2

\* A load, begun or continued.
LEMMA LoadKeeps ==
    ASSUME PipeInv, NEW l \in Loaders, BeginLoad(l) \/ ContinueLoad(l)
    PROVE  PipeInv' /\ Grows
<1>1. /\ StartLoad(l) \/ LoadStep(l) \/ FailLoad(l) \/ FailLoadAfterCommit(l)
      /\ UNCHANGED <<linkerVars, deletes>>
      /\ quiet' = [k \in Linkers |-> FALSE] \/ UNCHANGED quiet
  BY DEF BeginLoad, ContinueLoad
<1>2. WriteItem(l) \/ UNCHANGED graph
  BY <1>1 DEF StartLoad, LoadStep, SkipItem, LoadItem, Reject, FinishLoad,
              FailLoad, FailLoadAfterCommit
<1>3. LoaderTypeOK /\ NoDanglingEdges /\ GraphTypeOK /\ PipeTypeOK
  BY DEF PipeInv, PipeTypeOK, LoaderTypeOK
<1>4. GraphTypeOK' /\ NoDanglingEdges' /\ Grows
  BY <1>2, <1>3, WriteItemGrows, GraphUnchanged
<1>5. LoaderTypeOK'
  BY <1>1, <1>3, <1>4, LoaderStateTypes
<1>6. /\ LinkerTypeOK'
      /\ (\A k \in Linkers : pc[k] = "resolving" =>
                {cur[k].call, cur[k].target} \subseteq URN)'
  BY <1>1, <1>3, <1>4, OthersKeep
<1>7. quiet' \in [Linkers -> BOOLEAN] /\ deletes' \in 0 .. MaxDeletes
  BY <1>1, <1>3 DEF PipeTypeOK
<1> QED BY <1>4, <1>5, <1>6, <1>7 DEF PipeInv, PipeTypeOK

\* A pass, begun or continued.
LEMMA PassKeeps ==
    ASSUME PipeInv, NEW l \in Linkers, BeginPass(l) \/ ContinuePass(l)
    PROVE  PipeInv' /\ Grows
<1>1. /\ Start(l) \/ Step(l) \/ Fail(l) \/ FailAfterCommit(l)
      /\ UNCHANGED <<loaderVars, deletes>>
      /\ quiet' = [quiet EXCEPT ![l] = ~Loading] \/ UNCHANGED quiet
  BY DEF BeginPass, ContinuePass
<1>2. NoDanglingEdges /\ GraphTypeOK /\ PipeTypeOK
  BY DEF PipeInv, PipeTypeOK, LoaderTypeOK
<1>3. /\ LinkerTypeOK'
      /\ (\A k \in Linkers : pc[k] = "resolving" =>
                {cur[k].call, cur[k].target} \subseteq URN)'
      /\ NoDanglingEdges' /\ Grows
  <2>1. CASE Resolve(l) \/ FailAfterCommit(l)
    BY <1>2, <2>1, ResolvingTypes
  <2>2. CASE \/ Start(l) \/ ListUnresolved(l) \/ SkipNoMatch(l) \/ ReportAmbiguous(l)
             \/ PickTarget(l) \/ Finish(l) \/ Fail(l)
    BY <1>2, <2>2, ReadOnlyTypes, GraphUnchanged
  <2> QED BY <1>1, <2>1, <2>2 DEF Step
<1>4. LoaderTypeOK'
  BY <1>1, <1>2, <1>3, OthersKeep DEF LinkerTypeOK
<1>5. deletes' \in 0 .. MaxDeletes
  BY <1>1, <1>2 DEF PipeTypeOK
<1>6. quiet' \in [Linkers -> BOOLEAN]
  <2>1. Loading \in BOOLEAN
    BY DEF Loading
  <2> QED BY <1>1, <1>2, <2>1 DEF PipeTypeOK
<1> QED BY <1>3, <1>4, <1>5, <1>6 DEF PipeInv, PipeTypeOK

\* A deletion takes nodes away, and every relationship that joined them.
LEMMA DeletionKeeps ==
    ASSUME PipeInv, NEW u \in URN, Delete(u)
    PROVE  PipeInv' /\ deletes' # deletes
<1>1. /\ DeleteNode(u)
      /\ quiet' = [l \in Linkers |-> FALSE]
      /\ deletes < MaxDeletes /\ deletes' = deletes + 1
      /\ UNCHANGED linkerVars /\ UNCHANGED loaderVars
  BY DEF Delete
<1>2. NoDanglingEdges /\ GraphTypeOK /\ PipeTypeOK
  BY DEF PipeInv, PipeTypeOK, LoaderTypeOK
<1>3. GraphTypeOK' /\ NoDanglingEdges'
  BY <1>1, <1>2, DeleteKeeps
<1>4. /\ LinkerTypeOK' /\ LoaderTypeOK'
      /\ (\A k \in Linkers : pc[k] = "resolving" =>
                {cur[k].call, cur[k].target} \subseteq URN)'
  BY <1>1, <1>2, <1>3, OthersKeep
<1>5. deletes' \in 0 .. MaxDeletes /\ deletes' # deletes
  BY <1>1, <1>2, PipelineAssumption DEF PipeTypeOK
<1>6. quiet' \in [Linkers -> BOOLEAN]
  BY <1>1
<1> QED BY <1>3, <1>4, <1>5, <1>6 DEF PipeInv, PipeTypeOK

\* An empty database and no program running.
LEMMA PipeInitInv == PipeInit => PipeInv
<1> SUFFICES ASSUME PipeInit PROVE PipeInv
  OBVIOUS
<1>1. LoaderTypeOK /\ NoDanglingEdges
  BY LoadInitInv DEF PipeInit, LoadInit, LoaderInv
<1>2. LinkerTypeOK
  <2>1. NoStats \in LinkStats /\ Idle \in [call : Maybe(URN), target : Maybe(URN)]
    BY DEF NoStats, LinkStats, Idle, Maybe
  <2>2. GraphTypeOK /\ 0 \in 0 .. MaxPasses
    BY <1>1, LinkerAssumption DEF LoaderTypeOK
  <2> QED BY <2>1, <2>2 DEF PipeInit, LinkerInit, LinkerTypeOK
<1>3. 0 \in 0 .. MaxDeletes
  BY PipelineAssumption
<1> QED BY <1>1, <1>2, <1>3 DEF PipeInit, LinkerInit, PipeInv, PipeTypeOK

\* Every step keeps the invariant, and only a deletion takes anything away.
LEMMA PipeNextInv ==
    PipeInv /\ [PipeNext]_pipeVars => PipeInv' /\ (deletes' = deletes => Grows)
<1> SUFFICES ASSUME PipeInv, [PipeNext]_pipeVars
             PROVE  PipeInv' /\ (deletes' = deletes => Grows)
  OBVIOUS
<1>1. ASSUME NEW l \in Loaders, BeginLoad(l) \/ ContinueLoad(l)
      PROVE  PipeInv' /\ Grows
  BY <1>1, LoadKeeps
<1>2. ASSUME NEW l \in Linkers, BeginPass(l) \/ ContinuePass(l)
      PROVE  PipeInv' /\ Grows
  BY <1>2, PassKeeps
<1>3. ASSUME NEW u \in URN, Delete(u)
      PROVE  PipeInv' /\ deletes' # deletes
  BY <1>3, DeletionKeeps
<1>4. CASE UNCHANGED pipeVars
  <2>1. /\ UNCHANGED graph /\ UNCHANGED linkerVars /\ UNCHANGED loaderVars
        /\ UNCHANGED quiet /\ UNCHANGED deletes
    BY <1>4 DEF pipeVars
  <2>2. NoDanglingEdges /\ GraphTypeOK /\ PipeTypeOK
    BY DEF PipeInv, PipeTypeOK, LoaderTypeOK
  <2>3. GraphTypeOK' /\ NoDanglingEdges' /\ Grows
    BY <2>1, <2>2, GraphUnchanged
  <2>4. /\ LinkerTypeOK' /\ LoaderTypeOK'
        /\ (\A k \in Linkers : pc[k] = "resolving" =>
                {cur[k].call, cur[k].target} \subseteq URN)'
    BY <2>1, <2>2, <2>3, OthersKeep
  <2> QED BY <2>1, <2>2, <2>3, <2>4 DEF PipeInv, PipeTypeOK
<1> QED BY <1>1, <1>2, <1>3, <1>4 DEF PipeNext

\* A slot of a call leads to a node that exists and whose kind does not change.
LEMMA SlotStaysOpen ==
    ASSUME PipeInv, [PipeNext]_pipeVars, deletes' = deletes, NEW c \in DOMAIN nodes
    PROVE  Openable(c) \subseteq Openable(c)'
<1>1. Grows /\ NoDanglingEdges
  BY PipeNextInv DEF PipeInv
<1> SUFFICES ASSUME NEW t \in Openable(c)
             PROVE  t \in Openable(c)'
  OBVIOUS
<1>2. t \in DOMAIN nodes /\ <<c, t, "EXPANDS_TO">> \in DOMAIN edges /\ nodes[t].kind = "Endpoint"
  BY DEF Openable, Joined
<1> QED BY <1>1, <1>2 DEF Grows, Openable, Joined

----------------------------------------------------------------------------
(* Links are whole. *)

\* The extractor leaves targetURN to the linker ("resolvido pelo linker, nil se
\* ainda não linkado", domain/kinds.go:240).
TargetsAreTheLinkers ==
    \A p \in Payloads : \A i \in DOMAIN p.nodes :
        p.nodes[i].kind = "CallHTTP" => p.nodes[i].targetURN = Absent

WholeInv == PipeInv /\ LinksAreWhole

\* An EXPANDS_TO to an endpoint stays one when the graph only grows.
LEMMA WholeStays ==
    ASSUME Grows, NEW c \in DOMAIN nodes, nodes'[c] = nodes[c],
           nodes[c].resolved = TRUE, IsKind(nodes[c].targetURN, "Endpoint"),
           <<c, nodes[c].targetURN, "EXPANDS_TO">> \in DOMAIN edges
    PROVE  /\ nodes'[c].resolved = TRUE
           /\ IsKind(nodes[c].targetURN, "Endpoint")'
           /\ <<c, nodes'[c].targetURN, "EXPANDS_TO">> \in DOMAIN edges'
<1> DEFINE t == nodes[c].targetURN
<1>1. t \in DOMAIN nodes' /\ nodes'[t].kind = "Endpoint"
  BY DEF Grows, IsKind
<1> QED BY <1>1 DEF Grows, IsKind

\* A load writes a call without a target, and leaves every other one alone.
LEMMA WriteKeepsWhole ==
    ASSUME TargetsAreTheLinkers, LoaderTypeOK, NoDanglingEdges,
           NEW l \in Loaders, WriteItem(l), deletes' = deletes, LinksAreWhole
    PROVE  LinksAreWhole'
<1> SUFFICES ASSUME deletes = 0, NEW c \in DOMAIN nodes', Linked(c)'
             PROVE  /\ nodes'[c].resolved = TRUE
                    /\ IsKind(nodes[c].targetURN, "Endpoint")'
                    /\ <<c, nodes'[c].targetURN, "EXPANDS_TO">> \in DOMAIN edges'
  BY DEF LinksAreWhole, IsKind
<1>1. c \in DOMAIN nodes /\ nodes'[c] = nodes[c]
  <2>1. CASE At(l, "node") /\ KnownKind(Current(l))
             /\ UpsertNode(Current(l).urn, Stored(Current(l)))
    <3>1. /\ DOMAIN nodes' = DOMAIN nodes \cup {Current(l).urn}
          /\ nodes'[Current(l).urn] = Stored(Current(l))
          /\ \A u \in DOMAIN nodes : u # Current(l).urn => nodes'[u] = nodes[u]
      BY <2>1, WriteNode
    <3>2. Current(l).kind = "CallHTTP" => Current(l).targetURN = Absent
      BY <2>1, CurrentNode DEF TargetsAreTheLinkers
    <3>3. c # Current(l).urn
      BY <3>1, <3>2 DEF Linked, IsKind, Stored
    <3> QED BY <3>1, <3>3
  <2>2. CASE At(l, "edge") /\ KnownEdgeType(Current(l))
             /\ CanUpsertEdge(Current(l).from, Current(l).to)
             /\ WriteEdge(Current(l))
    BY <2>2, WriteEdgeKeeps
  <2> QED BY <2>1, <2>2 DEF WriteItem
<1>2. Linked(c)
  BY <1>1 DEF Linked, IsKind
<1>3. Grows
  BY WriteItemGrows
<1> QED BY <1>1, <1>2, <1>3, WholeStays DEF LinksAreWhole

\* The resolving transaction sets the three together, or none of them.
LEMMA ResolveKeepsWhole ==
    ASSUME GraphTypeOK, NoDanglingEdges, NEW c \in URN, NEW t \in URN,
           ResolveCallHTTPTarget(c, t), deletes' = deletes, LinksAreWhole
    PROVE  LinksAreWhole'
<1> SUFFICES ASSUME deletes = 0, NEW d \in DOMAIN nodes', Linked(d)'
             PROVE  /\ nodes'[d].resolved = TRUE
                    /\ IsKind(nodes[d].targetURN, "Endpoint")'
                    /\ <<d, nodes'[d].targetURN, "EXPANDS_TO">> \in DOMAIN edges'
  BY DEF LinksAreWhole, IsKind
<1>1. Grows /\ DOMAIN nodes' = DOMAIN nodes
      /\ \A u \in DOMAIN nodes : u # c => nodes'[u] = nodes[u]
  BY ResolveGrows, ResolveKeepsRoutes
<1>2. CASE CanResolve(c, t) /\ d = c
  <2>1. nodes'[c].targetURN = t /\ nodes'[c].resolved = TRUE
    BY <1>2, ResolveSetsTarget
  <2>2. t \in DOMAIN nodes' /\ nodes'[t].kind = "Endpoint"
    BY <1>1, <1>2 DEF CanResolve, IsKind, Grows
  <2>3. <<c, t, "EXPANDS_TO">> \in DOMAIN edges'
    BY <1>2 DEF ResolveCallHTTPTarget
  <2> QED BY <1>2, <2>1, <2>2, <2>3 DEF IsKind
<1>3. CASE ~(CanResolve(c, t) /\ d = c)
  <2>1. d \in DOMAIN nodes /\ nodes'[d] = nodes[d]
    BY <1>1, <1>3, ResolveSetsTarget
  <2>2. Linked(d)
    BY <2>1 DEF Linked, IsKind
  <2> QED BY <1>1, <2>1, <2>2, WholeStays DEF LinksAreWhole
<1> QED BY <1>2, <1>3

\* So does every step; a deletion ends what is claimed.
LEMMA WholeNext ==
    TargetsAreTheLinkers /\ WholeInv /\ [PipeNext]_pipeVars => WholeInv'
<1> SUFFICES ASSUME TargetsAreTheLinkers, WholeInv, [PipeNext]_pipeVars
             PROVE  LinksAreWhole'
  BY PipeNextInv DEF WholeInv
<1>1. /\ LoaderTypeOK /\ LinkerTypeOK /\ GraphTypeOK /\ NoDanglingEdges /\ LinksAreWhole
      /\ \A k \in Linkers : pc[k] = "resolving" => {cur[k].call, cur[k].target} \subseteq URN
      /\ deletes \in Nat
  BY PipelineAssumption DEF WholeInv, PipeInv, PipeTypeOK, LoaderTypeOK
<1>2. UNCHANGED <<graph, deletes>> => LinksAreWhole'
  BY <1>1 DEF graph, LinksAreWhole, Linked, IsKind
<1>3. ASSUME NEW l \in Loaders, BeginLoad(l) \/ ContinueLoad(l)
      PROVE  LinksAreWhole'
  <2>1. deletes' = deletes /\ (WriteItem(l) \/ UNCHANGED graph)
    BY <1>3 DEF BeginLoad, ContinueLoad, StartLoad, LoadStep, SkipItem, LoadItem,
                Reject, FinishLoad, FailLoad, FailLoadAfterCommit
  <2> QED BY <1>1, <1>2, <2>1, WriteKeepsWhole
<1>4. ASSUME NEW l \in Linkers, BeginPass(l) \/ ContinuePass(l)
      PROVE  LinksAreWhole'
  <2>1. /\ deletes' = deletes
        /\ \/ UNCHANGED graph
           \/ /\ pc[l] = "resolving"
              /\ ResolveCallHTTPTarget(cur[l].call, cur[l].target)
    BY <1>4 DEF BeginPass, ContinuePass, Start, Step, ListUnresolved, SkipNoMatch,
                ReportAmbiguous, PickTarget, Resolve, Finish, Fail, FailAfterCommit
  <2> QED BY <1>1, <1>2, <2>1, ResolveKeepsWhole
<1>5. ASSUME NEW u \in URN, Delete(u)
      PROVE  LinksAreWhole'
  BY <1>1, <1>5 DEF Delete, LinksAreWhole
<1>6. CASE UNCHANGED pipeVars
  BY <1>2, <1>6 DEF pipeVars
<1> QED BY <1>3, <1>4, <1>5, <1>6 DEF PipeNext

----------------------------------------------------------------------------
(* The theorems. *)

\* Nothing but the types and the ends of the relationships is needed.
THEOREM PipelineInvariant == PipeSpec => []PipeInv
<1>1. PipeInv /\ [PipeNext]_pipeVars => PipeInv'
  BY PipeNextInv
<1> QED BY PipeInitInv, <1>1, PTL DEF PipeSpec

\* The graph and what each program holds keep their types, whichever loads,
\* passes and deletions overlap (no command of the repository excludes another).
THEOREM PipelineTypeCorrect == PipeSpec => []PipeTypeOK
<1>1. PipeInv => PipeTypeOK
  BY DEF PipeInv
<1> QED BY <1>1, PipelineInvariant, PTL

\* What a client was offered to expand (ExpandFlow) stays there: a later load
\* or pass, complete or not, only adds to it, and only a deletion takes away.
THEOREM SlotsStayOpen == PipeSpec => OpensStayOpen
<1>1. PipeInv /\ [PipeNext]_pipeVars =>
        [deletes' = deletes => \A c \in DOMAIN nodes : Openable(c) \subseteq Openable(c)']_pipeVars
  BY SlotStaysOpen
<1> QED BY <1>1, PipelineInvariant, PTL DEF PipeSpec, OpensStayOpen

\* As long as no node has been deleted and no payload names a target, a linked
\* call has its flag, its endpoint and its EXPANDS_TO, however loads and passes
\* overlap and wherever they fail (ResolveCallHTTPTarget, UpsertNode).
THEOREM LinksStayWhole == TargetsAreTheLinkers /\ PipeSpec => []LinksAreWhole
<1>1. PipeInit => WholeInv
  BY PipeInitInv DEF WholeInv, PipeInit, EmptyGraph, LinksAreWhole
<1>2. CASE TargetsAreTheLinkers
  <2>1. WholeInv /\ [PipeNext]_pipeVars => WholeInv'
    BY <1>2, WholeNext
  <2>2. WholeInv => LinksAreWhole
    BY DEF WholeInv
  <2> QED BY <1>1, <2>1, <2>2, PTL DEF PipeSpec
<1>3. CASE ~TargetsAreTheLinkers
  BY <1>3
<1> QED BY <1>2, <1>3
=============================================================================
