------------------------------- MODULE Linker -------------------------------
(****************************************************************************)
(* infra/neo4j/linker.go, run by cmd/rhaxis-link: a pass lists the          *)
(* unresolved CallHTTP nodes, matches each one against the endpoints of its *)
(* HTTP method by normalised route, and resolves the call when exactly one  *)
(* endpoint matches.  Every step below makes at most one transaction, so    *)
(* passes interleave (with each other, and in Pipeline with loads) exactly  *)
(* where the code lets them.  In this module only linkers write.            *)
(****************************************************************************)
EXTENDS CodeGraph

CONSTANTS
    Linkers,    \* rhaxis-link processes
    Upper,      \* strings.ToUpper on Method
    Norm,       \* normalizePath on Path
    Overlap,    \* may a pass start while another one is running?
    MaxPasses,  \* bound on the passes started
    InitGraphs  \* graphs as the loads leave them, before any linking

VARIABLES
    pc,         \* where each linker is
    todo,       \* listed calls not yet looked at: [urn, method, path]
    cands,      \* candidatesByMethod: method -> set of [urn, path]
    cur,        \* the call and target of the transaction being sent
    stats,      \* LinkStats
    passes      \* passes started so far

linkerVars == <<pc, todo, cands, cur, stats, passes>>
vars == <<graph, linkerVars>>

UnresolvedCall == [urn: URN, method: Method, path: Path]
Candidate == [urn: URN, path: Path]
LinkStats == [callsScanned: Nat, resolved: Nat, ambiguous: Nat, noMatch: Nat,
              alreadyLinked: Nat, selfLoopSkip: Nat, dependsUpdated: Nat]
NoStats == [callsScanned |-> 0, resolved |-> 0, ambiguous |-> 0, noMatch |-> 0,
            alreadyLinked |-> 0, selfLoopSkip |-> 0, dependsUpdated |-> 0]
Idle == [call |-> Absent, target |-> Absent]

Active == {"listing", "matching", "resolving"}
Over == {"done", "failed"}

\* A loaded graph: no call has a target or an EXPANDS_TO yet, though other nodes
\* may have one, and no dependency is http's.
Loaded(g) ==
    /\ IsFiniteSet(DOMAIN g.nodes)
    /\ DOMAIN g.nodes \subseteq URN
    /\ g.nodes = [u \in DOMAIN g.nodes |-> g.nodes[u]]
    /\ \A u \in DOMAIN g.nodes :
        /\ g.nodes[u] \in Node
        /\ g.nodes[u].kind = "CallHTTP" => g.nodes[u].targetURN = Absent
    /\ DOMAIN g.edges \subseteq EdgeKey
    /\ \A k \in DOMAIN g.edges : g.edges[k] \in Maybe(Prop)
    /\ \A k \in DOMAIN g.edges :
            k[3] = "EXPANDS_TO" /\ k[1] \in DOMAIN g.nodes
                => g.nodes[k[1]].kind # "CallHTTP"
    /\ g.deps \in [Pairs -> Seq(DependsOn)]
    /\ \A p \in Pairs : \A i \in DOMAIN g.deps[p] : g.deps[p][i].via # "http"

ASSUME LinkerAssumption ==
    /\ Upper \in [Method -> Method]
    /\ \A m \in Method : Upper[Upper[m]] = Upper[m]
    /\ DOMAIN Norm = Path
    /\ Overlap \in BOOLEAN
    /\ MaxPasses \in Nat
    /\ \A g \in InitGraphs : Loaded(g)

----------------------------------------------------------------------------
(* The two read queries. *)

\* Mutant: the listing forgets c.resolved = false OR c.resolved IS NULL.
AllCalls ==
    {c \in DOMAIN nodes : /\ nodes[c].kind = "CallHTTP"
                          /\ nodes[c].method # Absent
                          /\ nodes[c].path # Absent}

\* cypherListUnresolvedCallHTTP.  Link drops a call whose urn, method or path
\* is the empty text, and an endpoint likewise (linker.go:208-210, 240-242):
\* no encoder writes an empty text, so neither is in the graph.
UnresolvedCalls ==
    {c \in DOMAIN nodes : /\ nodes[c].kind = "CallHTTP"
                          /\ nodes[c].resolved \in {FALSE, Absent}
                          /\ nodes[c].method # Absent
                          /\ nodes[c].path # Absent}

\* cypherListEndpointsForMethod: the stored method is compared as it is, only
\* the requested one has been upper-cased.
EndpointsForMethod(m) ==
    {[urn |-> e, path |-> nodes[e].path] :
        e \in {u \in DOMAIN nodes : /\ nodes[u].kind = "Endpoint"
                                    /\ nodes[u].method = m
                                    /\ nodes[u].path # Absent}}

\* Mutant: one cached list serves every method.
CachedWhateverTheMethod(l, m) ==
    IF DOMAIN cands[l] # {}
    THEN UNION {cands[l][k] : k \in DOMAIN cands[l]}
    ELSE EndpointsForMethod(m)

\* The closure load(method): the cached list, or a fresh query.
LoadCandidates(l, m) ==
    IF m \in DOMAIN cands[l] THEN cands[l][m] ELSE EndpointsForMethod(m)

\* Mutant: the comparison loop stops at its first match.
FirstMatch(l, call) ==
    LET found == {x \in LoadCandidates(l, call.method) :
                        Norm[x.path] = Norm[call.path]}
    IN  IF found = {} THEN {} ELSE {(CHOOSE x \in found : TRUE).urn}

Matches(l, call) ==
    {e.urn : e \in {x \in LoadCandidates(l, call.method) :
                        Norm[x.path] = Norm[call.path]}}

----------------------------------------------------------------------------
(* One pass. *)

LinkerInit ==
    /\ pc = [l \in Linkers |-> "idle"]
    /\ todo = [l \in Linkers |-> {}]
    /\ cands = [l \in Linkers |-> <<>>]
    /\ cur = [l \in Linkers |-> Idle]
    /\ stats = [l \in Linkers |-> NoStats]
    /\ passes = 0

Init ==
    /\ \E g \in InitGraphs : nodes = g.nodes /\ edges = g.edges /\ deps = g.deps
    /\ LinkerInit

\* Mutant: the cache is a field of the Linker and outlives the pass.
KeepCache(l) ==
    /\ pc[l] \notin Active
    /\ passes < MaxPasses
    /\ Overlap \/ \A k \in Linkers : pc[k] \notin Active
    /\ pc' = [pc EXCEPT ![l] = "listing"]
    /\ todo' = [todo EXCEPT ![l] = {}]
    /\ cur' = [cur EXCEPT ![l] = Idle]
    /\ stats' = [stats EXCEPT ![l] = NoStats]
    /\ passes' = passes + 1
    /\ UNCHANGED <<graph, cands>>

\* main and the head of Link: a fresh process with empty statistics.  The
\* index EnsureRouteIndex creates changes no result of the queries above.
Start(l) ==
    /\ pc[l] \notin Active
    /\ passes < MaxPasses
    /\ Overlap \/ \A k \in Linkers : pc[k] \notin Active
    /\ pc' = [pc EXCEPT ![l] = "listing"]
    /\ todo' = [todo EXCEPT ![l] = {}]
    /\ cands' = [cands EXCEPT ![l] = <<>>]
    /\ cur' = [cur EXCEPT ![l] = Idle]
    /\ stats' = [stats EXCEPT ![l] = NoStats]
    /\ passes' = passes + 1
    /\ UNCHANGED graph

ListUnresolved(l) ==
    /\ pc[l] = "listing"
    /\ todo' = [todo EXCEPT ![l] =
                  {[urn |-> c, method |-> Upper[nodes[c].method],
                    path |-> nodes[c].path] : c \in UnresolvedCalls}]
    /\ stats' = [stats EXCEPT ![l].callsScanned = Cardinality(UnresolvedCalls)]
    /\ pc' = [pc EXCEPT ![l] = "matching"]
    /\ UNCHANGED <<graph, cands, cur, passes>>

\* The next call of the listing (its order is the database's) is taken and
\* its candidates are cached under its method.
TakeCall(l, call) ==
    /\ pc[l] = "matching"
    /\ call \in todo[l]
    /\ todo' = [todo EXCEPT ![l] = @ \ {call}]
    /\ cands' = [cands EXCEPT ![l] =
                   [m \in DOMAIN cands[l] \cup {call.method} |->
                        LoadCandidates(l, m)]]

SkipNoMatch(l) == \E call \in todo[l] :
    /\ TakeCall(l, call)
    /\ Matches(l, call) = {}
    /\ stats' = [stats EXCEPT ![l].noMatch = @ + 1]
    /\ UNCHANGED <<graph, pc, cur, passes>>

ReportAmbiguous(l) == \E call \in todo[l] :
    /\ TakeCall(l, call)
    /\ \E s, t \in Matches(l, call) : s # t
    /\ stats' = [stats EXCEPT ![l].ambiguous = @ + 1]
    /\ UNCHANGED <<graph, pc, cur, passes>>

\* Exactly one match: a call to an endpoint of its own service is counted as
\* a self-loop, and is sent to the writer all the same.
PickTarget(l) == \E call \in todo[l], t \in URN :
    /\ TakeCall(l, call)
    /\ Matches(l, call) = {t}
    /\ stats' = [stats EXCEPT ![l].selfLoopSkip =
                    IF SlugOf[call.urn] = SlugOf[t] THEN @ + 1 ELSE @]
    /\ cur' = [cur EXCEPT ![l] = [call |-> call.urn, target |-> t]]
    /\ pc' = [pc EXCEPT ![l] = "resolving"]
    /\ UNCHANGED <<graph, passes>>

\* The transaction returned a row.
CountResolved(l) ==
    stats' = [stats EXCEPT
        ![l].resolved = @ + 1,
        ![l].dependsUpdated =
            IF SlugOf[cur[l].call] # SlugOf[cur[l].target] THEN @ + 1 ELSE @]

\* Mutant: counted as resolved up front and taken back on the error.
TakeBackResolved(l) == stats' = [stats EXCEPT ![l].resolved = @ - 1]

\* Mutant: the continue comes before the counter.
ForgetAlreadyLinked(l) == UNCHANGED stats

\* It returned none: the writer's "not found" error is counted as linked by
\* another pass, and the loop continues.
CountAlreadyLinked(l) == stats' = [stats EXCEPT ![l].alreadyLinked = @ + 1]

\* Mutant: a call whose transaction returned no row is tried again.
RetryNotFound(l) ==
    /\ pc[l] = "resolving"
    /\ ResolveCallHTTPTarget(cur[l].call, cur[l].target)
    /\ IF ResolveReturnsRow(cur[l].call, cur[l].target)
       THEN /\ CountResolved(l)
            /\ cur' = [cur EXCEPT ![l] = Idle]
            /\ pc' = [pc EXCEPT ![l] = "matching"]
       ELSE UNCHANGED <<pc, cur, stats>>
    /\ UNCHANGED <<todo, cands, passes>>

\* Mutant: the call's own properties are set only once the dependency is.
ResolveRowsOnly(l) ==
    /\ pc[l] = "resolving"
    /\ IF ResolveReturnsRow(cur[l].call, cur[l].target)
       THEN /\ ResolveCallHTTPTarget(cur[l].call, cur[l].target)
            /\ CountResolved(l)
       ELSE UNCHANGED graph /\ CountAlreadyLinked(l)
    /\ cur' = [cur EXCEPT ![l] = Idle]
    /\ pc' = [pc EXCEPT ![l] = "matching"]
    /\ UNCHANGED <<todo, cands, passes>>

Resolve(l) ==
    /\ pc[l] = "resolving"
    /\ ResolveCallHTTPTarget(cur[l].call, cur[l].target)
    /\ \/ /\ ResolveReturnsRow(cur[l].call, cur[l].target)
          /\ CountResolved(l)
       \/ /\ ~ResolveReturnsRow(cur[l].call, cur[l].target)
          /\ CountAlreadyLinked(l)
    /\ cur' = [cur EXCEPT ![l] = Idle]
    /\ pc' = [pc EXCEPT ![l] = "matching"]
    /\ UNCHANGED <<todo, cands, passes>>

Finish(l) ==
    /\ pc[l] = "matching"
    /\ todo[l] = {}
    /\ pc' = [pc EXCEPT ![l] = "done"]
    /\ UNCHANGED <<graph, todo, cands, cur, stats, passes>>

\* The five-minute deadline, a driver error or the end of the process, with
\* no transaction committed.  The rest of the pass is lost.
Fail(l) ==
    /\ pc[l] \in Active
    /\ pc' = [pc EXCEPT ![l] = "failed"]
    /\ UNCHANGED <<graph, todo, cands, cur, stats, passes>>

\* The transaction commits and its reply is lost: the pass ends without
\* having counted what it did.
FailAfterCommit(l) ==
    /\ pc[l] = "resolving"
    /\ ResolveCallHTTPTarget(cur[l].call, cur[l].target)
    /\ pc' = [pc EXCEPT ![l] = "failed"]
    /\ UNCHANGED <<todo, cands, cur, stats, passes>>

Step(l) ==
    \/ ListUnresolved(l)
    \/ SkipNoMatch(l)
    \/ ReportAmbiguous(l)
    \/ PickTarget(l)
    \/ Resolve(l)
    \/ Finish(l)

LinkerNext == \E l \in Linkers : Start(l) \/ Step(l) \/ Fail(l) \/ FailAfterCommit(l)

\* The system may stop: no pass has to be started.
Spec == Init /\ [][LinkerNext]_vars

\* A running pass is a sequential loop of calls with a deadline: it cannot
\* stop between two of them.  Starting a pass is the operator's choice, and
\* failures are never required.
FairSpec == Spec /\ \A l \in Linkers : WF_vars(Step(l))

----------------------------------------------------------------------------
(* Properties. *)

LinkerTypeOK ==
    /\ GraphTypeOK
    /\ pc \in [Linkers -> {"idle"} \cup Active \cup Over]
    /\ todo \in [Linkers -> SUBSET UnresolvedCall]
    /\ DOMAIN cands = Linkers
    /\ \A l \in Linkers : /\ DOMAIN cands[l] \subseteq Method
                          /\ \A m \in DOMAIN cands[l] : cands[l][m] \subseteq Candidate
    /\ cur \in [Linkers -> [call: Maybe(URN), target: Maybe(URN)]]
    /\ stats \in [Linkers -> LinkStats]
    /\ passes \in 0 .. MaxPasses

\* The endpoints a call's route names in the graph itself, with no listing or
\* cache in between.
RouteMatches(c) ==
    {e \in DOMAIN nodes :
        /\ nodes[e].kind = "Endpoint"
        /\ nodes[e].path # Absent
        /\ nodes[c].method # Absent /\ nodes[c].path # Absent
        /\ nodes[e].method = Upper[nodes[c].method]
        /\ Norm[nodes[e].path] = Norm[nodes[c].path]}

\* The linker refuses to choose (linker.go:49-50): a linked call points at the
\* only endpoint its route names, however its passes cached, interleaved or
\* crashed; resolved, targetURN and EXPANDS_TO never disagree.
TargetsAreUnique ==
    \A c \in DOMAIN nodes :
        /\ Linked(c) =>
                /\ RouteMatches(c) = {nodes[c].targetURN}
                /\ nodes[c].resolved = TRUE
                /\ \A k \in DOMAIN edges : (k[1] = c /\ k[3] = "EXPANDS_TO") <=>
                                           (k = <<c, nodes[c].targetURN, "EXPANDS_TO">>)
                /\ <<c, nodes[c].targetURN, "EXPANDS_TO">> \in DOMAIN edges
        /\ (IsKind(c, "CallHTTP") /\ ~Linked(c)) =>
                \A k \in DOMAIN edges : k[3] = "EXPANDS_TO" => k[1] # c

\* DependsOn.Weight is the "nº de calls concretas por trás"
\* (aggregates.go:24): a service pair has an http dependency exactly when a
\* call of the one is linked to an endpoint of the other, one relationship
\* for all of them, and its weight is their number.
DependsExact ==
    \A p \in Pairs :
        IF LinkedBetween(p) = {}
        THEN HttpRels(p) = {}
        ELSE \E i \in DOMAIN deps[p] :
                /\ HttpRels(p) = {i}
                /\ deps[p][i].weight = Cardinality(LinkedBetween(p))

\* What is left of it when passes overlap: no linked call is missing from the
\* dependency, and no dependency stands for no call.
DependsCovers ==
    \A p \in Pairs :
        IF LinkedBetween(p) = {}
        THEN HttpRels(p) = {}
        ELSE \E i \in DOMAIN deps[p] :
                /\ HttpRels(p) = {i}
                /\ deps[p][i].weight >= Cardinality(LinkedBetween(p))

\* The inductive invariant behind the three, in named parts.

\* What a pass carries from its reads still describes the graph it writes to:
\* no transaction of a linker touches what the listing and the cache hold.
ListingsFaithful ==
    \A l \in Linkers : \A call \in todo[l] :
        /\ IsKind(call.urn, "CallHTTP")
        /\ nodes[call.urn].method # Absent
        /\ nodes[call.urn].path # Absent
        /\ call.method = Upper[nodes[call.urn].method]
        /\ call.path = nodes[call.urn].path

CachesFaithful ==
    \A l \in Linkers : \A m \in DOMAIN cands[l] : cands[l][m] = EndpointsForMethod(m)

InFlightFaithful ==
    \A l \in Linkers : pc[l] = "resolving" =>
        /\ IsKind(cur[l].call, "CallHTTP")
        /\ IsKind(cur[l].target, "Endpoint")
        /\ RouteMatches(cur[l].call) = {cur[l].target}

\* A pass that is alone resolves no call twice: whatever it still has to look
\* at is unlinked, and its call in flight is in its list no more.
NothingTwice ==
    /\ \A k, l \in Linkers : (pc[k] \in Active /\ pc[l] \in Active) => k = l
    /\ \A l \in Linkers : pc[l] \in {"matching", "resolving"} =>
        \A call \in todo[l] : ~Linked(call.urn)
    /\ \A l \in Linkers : pc[l] = "resolving" =>
        /\ ~Linked(cur[l].call)
        /\ \A call \in todo[l] : call.urn # cur[l].call

LinkerInv ==
    /\ LinkerTypeOK
    /\ ListingsFaithful
    /\ CachesFaithful
    /\ InFlightFaithful
    /\ TargetsAreUnique
    /\ ~Overlap => NothingTwice /\ DependsExact

\* The promise of LinkSpec, read off the graph.
HttpWeight(p) ==
    IF HttpRels(p) = {} THEN 0 ELSE deps[p][CHOOSE i \in HttpRels(p) : TRUE].weight

Promise == INSTANCE LinkSpec WITH
    Call <- URN,
    Offer <- URN,
    Pair <- Pairs,
    None <- Absent,
    offers <- [c \in URN |-> IF IsKind(c, "CallHTTP") THEN RouteMatches(c) ELSE {}],
    crosses <- [x \in URN \X URN |->
                  IF ResolveReturnsRow(x[1], x[2])
                  THEN <<OwnerOf(x[1]), OwnerOf(x[2])>>
                  ELSE Absent],
    target <- [c \in URN |-> IF Linked(c) THEN nodes[c].targetURN ELSE Absent],
    weight <- [p \in Pairs |-> HttpWeight(p)]

\* Passes that do not overlap implement LinkSpec: whatever they cached and
\* wherever they failed, each call is linked at most once, where its route
\* says, and counted once.
LinksAsPromised == Promise!Spec

\* The linker owns the via 'http' relationships and no other: those that a
\* load wrote (event, db, none) survive every pass as they were.  (A load does
\* not spare them, writer.go:83: ChannelsAreKept of Pipeline.)
OtherDependenciesKept ==
    [][\A p \in Pairs : \A i \in DOMAIN deps[p] : deps[p][i].via # "http" =>
            i \in DOMAIN deps'[p] /\ deps'[p][i] = deps[p][i]]_vars

\* A pass that ran to its end left no call it could have linked: what is
\* still unresolved is ambiguous or matches nothing (linker.go:104-105).
DonePassLinksAll ==
    (\E l \in Linkers : pc[l] = "done") =>
        \A c \in UnresolvedCalls : \A t \in URN : RouteMatches(c) # {t}

\* No call of a listing is dropped from the statistics, and none is counted
\* twice, whichever way the loop leaves its body.
StatsAddUp ==
    \A l \in Linkers : pc[l] \in {"matching", "resolving", "done"} =>
        LET s == stats[l]
            inFlight == IF pc[l] = "resolving" THEN 1 ELSE 0
        IN  s.callsScanned = Cardinality(todo[l]) + inFlight + s.resolved
                              + s.ambiguous + s.noMatch + s.alreadyLinked

\* DependsUpdated counts "Service→Service DEPENDS_ON criadas/incrementadas"
\* (linker.go:46), decided from the slugs inside the two URNs while the
\* transaction decides from the serviceURN properties: a transaction whose
\* reply arrives is counted exactly when it wrote a dependency.
DependsUpdatedIsWhatWasWritten ==
    [][\A l \in Linkers : (pc[l] = "resolving" /\ pc'[l] = "matching") =>
            (stats'[l].dependsUpdated > stats[l].dependsUpdated <=> deps' # deps)]_vars

\* A pass ends: no outcome of a transaction sends the loop back.  With
\* DonePassLinksAll, every call a pass lists and can link is linked in the end
\* unless the pass fails.
PassEnds == \A l \in Linkers : pc[l] \in Active ~> pc[l] \notin Active
=============================================================================
