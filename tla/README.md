# A TLA+ model of rhaxis-code

This directory holds the formal development of rhaxis-code: TLA+ modules
translated from the Go sources, the TLC configurations that check them on small
instances, and theorems checked by TLAPS, the TLA+ proof system.  Line numbers
refer to the Go sources at the commit this directory lives next to
(`infra/neo4j/linker.go:162` is a path under the repository root).

Contents: [the system](#the-system) - [modules](#modules) - [runs](#runs) -
[fairness](#fairness) - [proofs](#proofs) - [divergences](#where-code-and-text-disagree) -
[not modelled](#what-is-not-modelled) - [plan](#plan) - [usage](#usage).

## The system

rhaxis-code keeps a *code graph* of several services in Neo4j.  Extractors (not
in this repository) emit one JSON payload per service; four programs here work
on the graph and **meet nowhere else**: there is no lock, no queue and no
protocol between them, only transactions on shared nodes and relationships.

| Component | Source | State | Operations |
|---|---|---|---|
| Domain and codec | `domain/` | none (kinds, URNs, registry) | decode by kind, encode to properties |
| Payload reader | `loader/payload.go` | none | `ReadPayload`, `normalizeNumbers` |
| Loader | `loader/loader.go`, `cmd/rhaxis-load` | position in the payload, report | `LoadInto`: one transaction per node, then one per edge |
| Writer | `infra/neo4j/writer.go`, `repository/writer.go` | the graph | `UpsertNode`, `UpsertEdge`, `DeleteNode`, `ResolveCallHTTPTarget` |
| Linker | `infra/neo4j/linker.go`, `cmd/rhaxis-link` | listing, cache of candidates by method, statistics | `Link`: list, match by normalised route, resolve |
| Reader | `infra/neo4j/reader.go`, `queries.go`, `mapper.go` | aggregates being grouped | `LoadServiceMap`, `ListEndpoints`, `LoadEndpointFlow`, `ExpandFlow` |
| HTTP API | `cmd/rhaxis-api`, `infra/neo4j/driver.go` | requests in flight, the driver | handlers, error to status, views, start and graceful shutdown |

How they interact:

- *rhaxis-load* writes nodes whole (`SET n = $props`) and edges by addition
  (`SET r += $props`).  It stops at the first error and is meant to be run
  again.
- *rhaxis-link* reads what the loads wrote (unresolved `CallHTTP` nodes,
  `Endpoint` nodes by HTTP method) and writes three things in one transaction:
  `resolved`/`targetURN` on the call, an `EXPANDS_TO` edge, and a
  `DEPENDS_ON {via:'http'}` relationship of the two services with a weight.
- *rhaxis-api* reads `DEPENDS_ON` for the service map and `EXPANDS_TO` for the
  flow of an endpoint.  A wrong link or weight shows up there, long after and
  far from the transaction that wrote it.

### What is hard

- *Interleaving*: every program issues many small transactions, so two loads,
  two passes, or a load and a pass interleave at each of them.  A pass reads a
  listing and a cache at its start and writes on the strength of them later.
- *Partial transactions*: in `cypherResolveCallHTTP` (writer.go:139-155) the
  first statements take effect even if a later `MATCH` binds nothing; the caller
  sees no row and takes it for a failure.
- *Crash and retry*: deadlines (60 s for loads, 5 min for passes) and driver
  errors stop a program between two transactions, or after a commit whose reply
  is lost.  Recovery is "run it again" everywhere, so everything rests on
  idempotence - except that the weight is a counter.
- *Long histories*: a service is extracted, loaded, linked, extracted again,
  loaded again (which resets its calls), linked again.
- *Names repeated*: a field of a kind is named in its struct, its decoder, its
  encoder and its view; properties of a payload may override any of them.
- *Shutdown*: handlers run on goroutines of their own and share one driver, which
  `main` closes when it returns, five seconds after the signal at the latest.
- *Open order*: Cypher gives rows in no order; the flow reader rebuilds a tree
  from a cartesian product of them, first row first.

`PROJECT.json` lists each of these hazards at its line with the properties that
watch it.

### What makes each component correct

- *normalizePath*: two templates share a normal form only when they name one
  route, and always when no slash is doubled.
- *Codec and payload reader*: exactly the nodes that say what they are get stored;
  what a reader decodes is what the loader encoded, in every kind; the numbers of
  a payload survive.
- *Writer*: a relationship always has both ends; a node is what one writer said
  of it.
- *Loader*: a load that ends well leaves the last its payload says of every node,
  edge and pair of services; running it again duplicates nothing; a complete
  payload is never refused.
- *Linker*: a linked call points at the only endpoint its route names; the
  `http` weight of two services is the number of calls linked between them; a
  finished pass leaves nothing linkable; other dependencies are untouched; every
  listed call is counted once; a pass ends.
- *All together*: links stay whole, every link is counted on the service map,
  the three screens agree, and what a client was shown can still be followed.
- *Flow reader*: each step once and in order, every branch, one drawing for one
  graph, whatever the order of the rows.
- *API*: a request that was begun is answered before the process ends, unless
  the five seconds are not enough; a signalled process ends in any case.

## Modules

```
 RoutePath ----(Norm)----.
                          v
 CodeGraph <--EXTENDS-- Linker <--EXTENDS-- Pipeline
   ^  ^                   |  ^               |   |
   |  '----EXTENDS---- Loader <---EXTENDS----'   |
   '-------EXTENDS---- Screens <----EXTENDS------'
                          |
 LinkSpec <-(refinement)--'
 LinkerProofs <--EXTENDS-- LinkerPasses, LinkerRefinement
 LinkerProofs, LoaderProofs <--EXTENDS-- PipelineProofs
 LinkerPasses, PipelineProofs <--EXTENDS-- PipelinePasses

 FlowReader <--EXTENDS-- Api <--EXTENDS-- ApiProofs     (one request, one process)

 RoutePath <--EXTENDS-- RouteIdentity                              (pure conversions)
 RouteIdentity, PayloadNumbers, Codec <--EXTENDS-- MCConversions
 RouteIdentity, PayloadNumbers, Codec <--EXTENDS-- ConversionProofs
```

| Module | Models | How it corresponds |
|---|---|---|
| `CodeGraph` | the Neo4j graph and `writer.go` | `nodes`, `edges`, `deps` are the database.  One guard and one effect operator per transaction; `ExecuteWrite` is all-or-nothing, so each effect is one step.  `DEPENDS_ON` is kept apart because a pair of services may have several *parallel* relationships of that type, a sequence in `deps`. |
| `RoutePath` | `normalizePath` | A template is the sequence `strings.Split(p, "/")` yields; a segment is a literal, a placeholder (`:id`, `{id}`, `<id>`) or empty. |
| `RouteIdentity` | what `normalizePath` is for | A template grown segment by segment, and `SameRoute`, the reference the normal form is compared with: the same named segments in the same order, slashes not counted. |
| `Linker` | `linker.go`, `rhaxis-link` | `pc` is the place in `Link`; `todo` the listing; `cands` the map `candidatesByMethod`; `cur` the transaction in flight; `stats` is `LinkStats`.  `Start`, `ListUnresolved`, `SkipNoMatch`, `ReportAmbiguous`, `PickTarget`, `Resolve`, `Finish` are the paths of the loop, `Fail` and `FailAfterCommit` its ends by error. |
| `LinkSpec` | what linking promises | Each call with exactly one offering endpoint may be linked to it, once; linking adds one to the dependency it crosses.  No pass, cache, transaction or crash. |
| `Loader` | `loader.go`, `rhaxis-load` | `Items` is the write order; `LoadItem`, `SkipItem`, `Reject`, `FinishLoad` the paths of `LoadInto`, `FailLoad`, `FailLoadAfterCommit` its ends by error.  `Stored` is what `flattenNode`, `DecodeByKind` and `EncodeNode` together do to the properties the queries read. |
| `Pipeline` | the programs together | `Linker` and `Loader` on one graph, plus `DeleteNode`, an operation of `repository.Writer` that no command calls: the run allows one by hand, as the state a deletion leaves bounds what the other properties may claim.  `Apart` and `Reload` say which rules the operator follows (rhaxis-link's `main.go:3` asks that it run after all loads; nothing enforces it). |
| `Screens` | screens 1 and 2: `LoadServiceMap`, `ListEndpoints`, their views | One operator each, a function of the graph, as each is one read transaction; the three collections of the map, and the status and endpoints of the list. |
| `Codec` | `domain/kinds.go`, `decoders.go`, `encoders.go`, `flattenNode`, `nodeView` | `FieldsOf`, `Decodes`, `Encodes`, `Shows` are the lists of names of the four files, each transcribed from its own; `Decode`, `EncodeBase`, `EncodeFields`, `View` read them with the rules of the helpers (`OptBool`, `OptTime`, ...).  A property is a pair of a type and a value. |
| `PayloadNumbers` | `normalizeNumbers` of `payload.go`, `optJSONMap` | A JSON object is a function from the paths of its leaves to the leaves, so that what the recursion does to a leaf depends on the steps into lists on its path (`ListSteps`); a numeral is in the range of int64, of float64, or of none. |
| `Api` | `rhaxis-api`'s `main`, `driver.go` | `main` is the place of the main goroutine; `Signal`, `Drained`, `ShutdownTimesOut`, `CloseDriver`, `Exit` are what follows `<-stop`.  It extends `FlowReader`, whose request is one of those in flight; `others` are the rest. |
| `FlowReader` | screen 3 of `reader.go`, its handlers | `Receive` routes a request to its handler, `LoadEndpointFlow` and `ExpandFlow` are its read transaction, `QueryFails` its failure; `rows` is the cartesian product the query builds; `GroupRow` is one turn of the loop of `buildStepChildren`, any row next; `Answer` sorts and materialises. |
| `MC*` | instances | Constants and initial graphs or payloads for TLC. |
| `LinkerProofs`, `LinkerPasses`, `LinkerRefinement`, `LoaderProofs`, `PipelineProofs`, `PipelinePasses`, `ApiProofs`, `ConversionProofs` | proofs | see [Proofs](#proofs). |

Abstractions common to all: property values the queries never look at are one
value `rev`; of the node kinds the five that a query names are kept and the rest
are a constant set, `OtherKind` (each is a label of its own, so that two of them on
one URN clash as they do in Neo4j); the edge types neither the linker nor the first
two screens follow are `"structural"`; URNs are opaque, with `SlugOf` standing
for the slug inside them.  `schema/schema.cypher` is assumed applied
(`node_urn_unique`).  Mutated forms of definitions ("Mutant: ...") stand before
the definition they would replace: each is a plausible bug of that code, and the
property listed with it in `PROJECT.json` is violated once it is in place.

## Runs

| Run (cfg) | Question | Instance |
|---|---|---|
| `conversions` (MCConversions) | Does a normal form stand for one route, and for which of its spellings?  Do numbers survive?  Which nodes are stored, and are they read and shown as they were loaded? | every template up to 4 segments over 2 literals, 3 placeholders and the empty segment, against every template up to 3; every JSON object of up to 3 leaves, at 26 places up to 3 deep, over 5 numerals, a text and an empty list; over 7000 nodes: for each of the 31 kinds every subset of its properties, each property with 7 wrong or empty values, base members repeated among the properties |
| `linker_passes` (MCLinker) | Passes one after the other, failing anywhere: all of the linker's promises, and `LinkSpec` | 2 services, 3 calls, 3 endpoints, 27 initial graphs, 3 passes |
| `linker_overlap` (MCLinkerOverlap) | What is left when two passes overlap; does every pass end? | the same with 9 graphs, 2 linkers, 2 passes, fairness |
| `loads` (MCLoader) | Loads interleaved, stopped and repeated | 2 loaders, 3 loads of 6 payloads of 2 services |
| `pipeline_free` (MCPipeline) | Loads, re-extractions, passes and a deletion with no rule between them; does what a client was shown stay good? | 3 loads, 2 passes, 1 deletion, 3 payloads |
| `pipeline_onboarding` (MCPipelineOnboard) | Following the rule "link after all loads": do the linker's exact properties hold on graphs loads really leave, and do the screens agree? | 2 overlapping loaders, 3 loads, then 2 passes |
| `flow` (MCFlowReader) | The tree drawn for every order of the rows; a process from its start to its end, with a signal, a failure or a timeout at every point of the requests | 7 graphs, every node asked for, both operations, one request beside it |
| `loader_unknown_kind`, `pipeline_relink`, `pipeline_stale_expansion`, `pipeline_channels`, `flow_missing` | the divergences below | the smallest instances showing them |

All runs set `CHECK_DEADLOCK FALSE`: every program may stop for good once the
bounds on passes, loads and deletions are used up, and operators need not start
anything.

### Why the bounds are enough

- *Linker*: a wrong target needs one call and two endpoints; a wrong weight two
  calls of one service to one other; a stale cache two calls with one method.
  The 27 graphs cross nine node layouts (two spellings of a route, an ambiguous
  one, one offered in another method, a lower-case endpoint, missing
  properties, a call to the own service, a service that was never loaded, explicit
  `serviceURN`, a payload without `resolved`) with three dependencies a load may
  have left (none, `event`, one without `via`).  Three passes: one that fails
  after a commit, one that fails between, one that completes.
- *Loader*: a race needs two loaders; recovery two loads of one, and the
  difference between "again" and "another extraction" a third.  The payloads
  cover changed and removed properties, a technology node two services
  share, a changed kind, an unknown kind and edge type, a malformed node and
  two `DEPENDS_ON` of one pair.
- *Pipeline*: one extraction of each service and one re-extraction; a pass over
  what the first left and one over the second.  The payloads of `pipeline_onboarding`
  add an endpoint offered by the calling service itself, reached by an `EXPANDS_TO` the
  extractor emits, a database and a broker; those of `pipeline_channels` an `event`
  dependency.
- *Conversions*: the codec treats each property by itself, so a wrong list shows
  with one property present, missing, empty or of another type at a time; the
  subsets are there for the interplay of `resolved`, `targetURN` and the base.
  Numerals: one below 2^53, the two around it, a fraction, one no double holds;
  depth three is a map in a list in an object, where `normalizeNumbers` stops.
- *Api*: the requests do not see each other, so one drawn in detail and one that
  is a query show every state of a shutdown; the theorem is for any number.
- *FlowReader*: two blocks with two children give every repetition the product
  makes; the graphs add a shared label, tied indices, two targets, no target,
  undecodable nodes and a half-loaded branch.  All orders of the rows are
  explored.

### What the properties say

`CodeGraph` invariants are stated in the modules that use them.  The ones worth
an argument:

- `TargetsAreUnique` (linker, overlap, onboarding): `resolved`, `targetURN` and
  `EXPANDS_TO` agree, and name the only endpoint the route matches *in the graph
  itself*, no cache in between.  It holds for overlapping passes too.
- `DependsExact` holds for passes that do not overlap, a crash after a commit
  included, as the whole transaction, counter included, is atomic and takes the
  call off the next listing.
  `DependsCovers` is what is left of it when they do overlap: `resolve` does not
  look at `c.resolved` (writer.go:139-155), so two passes that both listed a call
  count it twice, although `repository/writer.go:18` calls every operation
  idempotent.
- `DependsUpdatedIsWhatWasWritten`: the statistic is computed from slugs, the
  transaction decides from `serviceURN`; they agree as long as an explicit
  `serviceURN` is the one of the slug, which the instance's graphs and every
  fixture satisfy.
- `LinksAreWhole`, `EveryLinkIsCounted`, `QuietPassLinksAll`: hold with *no*
  operating rule at all, as long as nothing is deleted.  They depend on small
  things (the Service node is written first, a node is written whole), which is
  why they are checked over every interleaving.  `EveryLinkIsCounted` is said of
  payloads that leave `DEPENDS_ON` to the linker (`aggregates.go:21`); a payload with
  one takes the `http` dependency away, which is divergence 4.
- `QuietPassLinksAll` covers the calls marked unresolved in the graph *and* those
  that all their payloads mark: that a call without a target still has its mark is a
  matter of both programs (`UnlinkedIsMarked`).  A call whose payload leaves `resolved`
  out is decoded as resolved and is in neither set.
- `LoadLeavesPayload` is stated for a loader that is alone: of two overlapping
  extractions of one service neither can promise to have the last word.
  `NodesAreWhole` is the part that does hold for them.  Of a pair of services it
  asks for the last `via` and the last `weight` the payload gives; that a payload with
  two channels keeps the last only is what the code does, not what the plan says
  (divergence 4).
- `RerunsDoNotDuplicate` forbids two `DEPENDS_ON` of *one* channel and says nothing
  against several channels.
- `NormalFormsTellRoutes`: one half is for all templates (no two routes share a normal
  form), the other for those without doubled slashes: the comment at
  `linker.go:251-252` would have it for all.
- `StoredIffConforming`: a node is stored exactly when nothing among its properties
  takes the place of its kind or of its urn; the others are refused or end the
  process (`EncodeOutcome`), and no other defect of a node keeps it out.
- `ScreensAgree`: the map is made of what the linker wrote, which goes by the
  slug inside URNs; the endpoint list of the `EXPOSES` edges of loads; at rest,
  each `http` dependency of the map leads from and to a service of the map, has a
  call behind it, and the endpoint that call expands to is on the list of the
  target service.  "If a load of that service ended well": a load that stopped
  between nodes and edges leaves endpoints that are linked and not listed.
- `OpensStayOpen`: an `EXPANDS_TO` edge to an endpoint, once there, survives every
  load, pass and failure.  It is the other side of divergence 3: the edge that
  keeps a stale expansion is also what keeps a client's open tree working.
- `ReadsAsLoaded`: `encoders.go:9` calls itself the inverse of `decoders.go`.  It
  is, up to `AsKept`: a time loses its fraction of a second, `resolved` is kept for
  the kinds of `Stubs` only.  `AsLinked` is what the linker sets later.
- `ViewTellsPayload` joins all five lists: a text a client sees under a name is
  what the payload said under that name, the base members included, of a linked call
  its link, and the `resolved` shown is the payload's for the kinds that store it.
- `NumbersSurvive` states what `normalizeNumbers` does keep: every scalar and every
  list of scalars of a property is a native number; what lies deeper is not.  Of metadata
  every number comes back as the double nearest to it, at any depth.
- `AnsweredBeforeExit`: "graceful shutdown" (`rhaxis-api/main.go:83`) made precise.
  If `Shutdown` returns by itself, no request is left behind and none met a
  closed driver; if its five seconds end, both happen, which is why the property
  names `timedOut`.
- `OneDrawing`: for a graph whose siblings have distinct indices and whose calls
  have at most one target, the answer equals `Tree`, a definition of the drawing
  without rows or order.  `StepsOnceInOrder` and `BranchesComplete` hold without
  those conditions.

## Fairness

`linker_overlap` states `PassEnds`, under
`\A l \in Linkers : WF_vars(Step(l))`.  A running pass is one goroutine that
takes call after call with a deadline on the whole; it is never waiting for another
program and cannot stop between two calls without failing, which is a separate
action.  So weak fairness of `Step(l)`, per linker, is what the Go code
provides.  Starting a pass is the operator's choice, failures are
never required, and neither is fair.

`flow` states `SignalEnds` under `WF_apiVars(MainStep)`: the main goroutine is
scheduled, the timer of `shCtx` fires and `Close` returns.  Nothing is assumed of the handlers
(a query runs with the client's context, which has no deadline), nor of the
signal or of clients: the process must end although a query hangs.

## Proofs

TLC checks the instances above; the following holds for every value of the
constants that satisfies the `ASSUME`s of `CodeGraph`, `Linker`, `Loader`,
`FlowReader`, `Codec` and `PayloadNumbers` (services are URNs and every URN has one; upper-casing is idempotent;
in the initial graphs of `Linker` no call has a target or an `EXPANDS_TO` and no
dependency is `http`; payloads
have the shape the JSON decoder gives, and a `DEPENDS_ON` joins service URNs; a
graph a reader sees is finite, as every database is; formatting a time twice, rounding a
number twice and rereading metadata twice change nothing the second time; a flag of a
payload is true or false, and no endpoint has an empty URN).  Where a theorem needs more of
the payloads, the hypothesis is named in its statement and argued for below; each
was evaluated by TLC on the instance of the run that checks its property, so that
none of them is empty.  Every inductive invariant was an invariant of such a
run before it was proved.

`LinkerProofs`:

| Theorem | Statement |
|---|---|
| `InvariantHolds` | `Spec => []LinkerInv` |
| `TypeCorrect` | `Spec => []LinkerTypeOK` |
| `UniqueTargets` | `Spec => []TargetsAreUnique`, overlapping passes included |
| `ExactWeights` | `~Overlap /\ Spec => []DependsExact` |
| `OthersKept` | `Spec => OtherDependenciesKept` |

`TargetsAreUnique` is not inductive: a pass carries a listing, a cache and a
transaction in flight, and what it writes is right only if they still
describe the graph.  `LinkerInv` adds exactly that (`ListingsFaithful`,
`CachesFaithful`, `InFlightFaithful`), all resting on the lemma
`ResolveKeepsRoutes`: the transaction changes nothing that a query of the linker
reads except `resolved`.  `DependsExact` further needs `NothingTwice` - a pass
that is alone never resolves a call it, or a predecessor, has linked - and the
cardinality argument of `LinkedBetweenAfter` and `ResolveKeepsWeights`: a resolve
adds one call to one pair's set, and one to that pair's weight.

`LinkerPasses`, from the same invariant, overlapping passes included:

| Theorem | Statement | Strengthened by |
|---|---|---|
| `MapCovers` | `Spec => []DependsCovers` | the weights are numbers (`WeightsCover`).  A commit adds one to the weight and at most one to the calls: a call that was linked before, by whichever pass, has the same target, so it is already among them (`LinkedBetweenGrows`). |
| `CountsAddUp` | `Spec => []StatsAddUp` | listings are finite and a pass starts from `NoStats` (`CountsInv`); `StepAccounts` moves one call from one term of the sum to another on every path of the loop. |
| `UpdatesCounted` | `OwnersAreNamed /\ Spec => DependsUpdatedIsWhatWasWritten` | the owner the transaction compares is the slug the linker compares (`OwnersAgree`).  `OwnersAreNamed`: an explicit `serviceURN` is the service its URN names, as in `schema/fixtures/nestjs-orders.cypher`. |
| `DonePassesLinkAll` | `Spec => []DonePassLinksAll` | `NothingLeftBehind`: a call that could be linked is in the listing or in flight of *every* pass that has listed, until some pass resolves it.  No transaction of a linker makes a call unresolved, which is why it does not hold once loads interleave (`QuietPassLinksAll` is what is left). |

`LinkerRefinement`: `LinkerImplementsPromise`,
`~Overlap /\ Spec => LinksAsPromised`: under the mapping written in `Linker`
(`Promise`), initial states map to initial states, a transaction that
links a call maps to `Link`, and every other step, crashes included, to a stutter.

`LoaderProofs`, for any number of loaders and any payloads:

| Theorem | Statement |
|---|---|
| `LoaderInvHolds` | `LoadSpec => []LoaderInv` |
| `LoaderTypeCorrect` | `LoadSpec => []LoaderTypeOK` |
| `NothingDangles` | `LoadSpec => []NoDanglingEdges` |
| `NodesStayWhole` | `LoadSpec => []NodesAreWhole` |
| `CompletePayloadsLoad` | `LoadSpec => []CompleteIsNeverRejected` |
| `NothingDuplicated` | `LoadSpec => []RerunsDoNotDuplicate` |
| `LoadsLeavePayloads` | `LoadSpec => []LoadLeavesPayload` |

`CompleteIsNeverRejected` is not inductive: that the ends of an edge exist
follows from the nodes written *before*, by this load, and from no other load
having taken one away; that no kind clashes follows from `NodesAreWhole`.
`NodesWritten` is the missing part.

`LoadLeavesPayload` speaks of the end of a load; `SaidInv` says the same of every
place in it: the items before `next` have been written, the last that names a node,
an edge or a pair of services decides, and what has been written stays until a later item of the *same*
load names it again.  It needs that the loader is alone, and that `Items` puts all
edges behind all nodes; nothing is asked of what earlier loads left half done.

`PipelineProofs`, for any loaders, linkers, payloads and deletions, with no rule
between the programs:

| Theorem | Statement |
|---|---|
| `PipelineTypeCorrect` | `PipeSpec => []PipeTypeOK` |
| `SlotsStayOpen` | `PipeSpec => OpensStayOpen` |
| `LinksStayWhole` | `TargetsAreTheLinkers /\ PipeSpec => []LinksAreWhole` |

Neither `LinkerInv` nor `Loaded` can be used here: a load or a deletion makes what
a pass has listed untrue.  What survives is that the transactions of loads and
passes only add (`Grows`: no node leaves or changes its kind, no edge leaves), as
each MATCH binds before anything is written; `PipeInv` is types and ends, and the
slots follow from it.  `LinksAreWhole` also needs that no payload names a target
(`TargetsAreTheLinkers`): the comment at `domain/kinds.go:240` leaves it to the linker,
the loader writes what it is given.

`PipelinePasses`, what the linker's promises become when loads run beside it:

| Theorem | Statement |
|---|---|
| `QuietPassesLinkAll` | `PipeSpec => []QuietPassLinksAll` |
| `LinksAreCounted` | `TargetsAreTheLinkers /\ RoutesAreOwned /\ DependsAreTheLinkers /\ PipeSpec => []EveryLinkIsCounted` |
| `OnboardedTargets` | `RunAfterLoads /\ LinksAreTheLinkers /\ PipeSpec => []TargetsAreUnique` |
| `OnboardedWeights` | `~Overlap /\ RunAfterLoads /\ LinksAreTheLinkers /\ PipeSpec => []DependsExact` |
| `OnboardedScreensAgree` | `RunAfterLoads /\ LinksAreTheLinkers /\ StoresAreNamed /\ PipeSpec => []ScreensAgree` |

- `QuietInv` keeps, for a pass nothing was loaded beside, what `NothingLeftBehind`
  keeps for every pass: its listing and its cache describe the graph
  (`Faithful`), and a call it could link is still before it (`Answers`).  A pass
  stops being quiet with the first step of a load, and then nothing is claimed.
  That another pass may resolve what *it* has in flight, listed on a graph of long
  ago, is harmless: it makes no call unresolved and no route differ
  (`ResolveKeepsReads`).  `UnlinkedIsMarked` adds that a call which its payloads leave
  to the linker is marked unresolved until it has a target: a load writes the mark
  and the empty target in one transaction, the linker the other mark and the target.
- `CountedInv` adds to `LinksAreWhole` that every route has its Service node
  (`RoutesOwned`) and that weights suffice (`WeightsSuffice`).  A re-extraction
  resets calls and leaves the weight, so the weight may exceed the calls
  (divergence 2) and never falls below them; a resolve whose pair has no Service
  node would add a call and no weight, which `RoutesAreOwned` rules out: a payload
  names its service before its routes, as `LoadInto` writes nodes in their order
  and fixtures put the Service first.  `DependsAreTheLinkers` is `aggregates.go:21`.
- The `Onboarded` theorems discharge the assumption of `Linker` on its initial
  graphs: loads of payloads that leave to the linker what the linker writes
  (`LinksAreTheLinkers`: `domain/kinds.go:240`, `aggregates.go:21`; the `EXPANDS_TO` of a
  `CallFunction` is the extractor's, `node.go:153-158`, and allowed) leave a graph that
  meets what `Init` of `Linker` asks (`OnboardInv`: until the first pass `LinkerInit`
  and `Unlinked`, from then on `LinkerInv`).  `RunAfterLoads` is the rule of
  `rhaxis-link`'s `main.go:3`: no load during or after a pass, no re-extraction and
  no deletion.  `StoresAreNamed`: a payload that says a database or a broker is used
  has a node of that kind for it, as the fixtures do; otherwise the map would have to show a node
  that another payload wrote as something else.

`ApiProofs`, for any finite graph, any request, any order of the rows and any set of
other requests, with no further hypothesis:

| Theorem | Statement |
|---|---|
| `RequestsAreGrouped` | `ApiSpec => []FlowInv` |
| `StepsAreDrawnOnce` | `ApiSpec => []StepsOnceInOrder` |
| `BranchesAreDrawn` | `ApiSpec => []BranchesComplete` |
| `SlotsAreFollowed` | `ApiSpec => []SlotsFollowEdges` |
| `OneGraphOneDrawing` | `ApiSpec => []OneDrawing` |
| `GracefulShutdown` | `ApiSpec => []AnsweredBeforeExit` |

The first properties speak of an answer; the loop of `buildStepChildren` must be
followed row by row to get there.  `FlowInv` says what has been gathered after *any*
set `R` of rows (`RowsGrouped`): the steps are the decodable children of `R`, each found
once, each with an index and slot some row of `R` gives it, with exactly the
branches and kids the rows of `R` bind under it.  Rows arrive in any order, so the
step of the proof is one more row for an arbitrary `R` (`GroupedRow`, `GrowGroups`);
which row was first decides the slot, and nothing else.  `RowsBind` turns the
nested products of the query into one statement of what a row may bind;
`SortsByIndex` proves of `SortStable` that it permutes into the order of the indices,
by counting the elements before each, without induction; `RisingOnce`, that a finite
set has one strictly rising enumeration, is what makes `OneDrawing` a function of the
graph.

The invariant of the shutdown (`ApiInv`) says that the driver is open as
long as requests are taken or waited for, and that nobody is in a handler once a
wait has ended well: the second needs that no request begins once `Shutdown` has closed
every connection (until then one may, on a connection accepted before the signal),
the first that `Close` comes after `Shutdown`.

`ConversionProofs`, for templates of any length, documents of any size and depth, and any
node of any payload:

| Theorem | Statement |
|---|---|
| `NormalFormKeepsRoute` | `SameRoute(p, NormalizePath(p))` for each template `p` |
| `RoutesAreTold` | `RouteSpec => []NormalFormsTellRoutes` |
| `NumbersReachReaders` | `DocumentSpec => []NumbersSurvive` |
| `DecodeUndoesEncode` | `Decode(k, Encode(n)) = AsKept(n)` for each kind `k` and each struct `n` a decoder of `k` may make |
| `ConformingIsStored` | `CodecSpec => []StoredIffConforming` |
| `StructsSurvive` | `CodecSpec => []ReadsAsLoaded` |
| `ViewsTellPayloads` | `CodecSpec => []ViewTellsPayload` |

*Routes*, position by position: what the leading slash shifts (`RootedIs`,
`RootedFinal`), and where `TrimRight` stops (`TrimmedIs`).  That a template has a last
named segment is the one place for an induction; it is done by a least element of the
distances to the end (`LastExists`, from `WFMin` of the library).

*Numbers*: with a leaf at the end of a path, the recursion of `normalizeNumbers` needs no
induction.  `LeafNormalized` says what becomes of a leaf by where it is, and
`DocumentReadBack` that the metadata is readable exactly when no number out of range
stands in a list, so that one in a map, turned into a text, does no harm.

*Nodes*: the lists of names are compared kind by kind (`TablesAgree` for decoder and
encoder, `ShowsFit` for view and decoder): a field is read from the member it is written
to, no two fields share one, and none takes the name of a base member.  This is where a
slip of the code would show, so the kinds are steps of their own.  From there the argument is for any struct that a decoder makes (`Decoded`: what is not read is
zero, a time is a time, metadata has been reread): a member left out because it is zero
is read as zero (`TextReadBack`, `FlagReadBack`), and what is written keeps its type.
The inductive invariant, `StoredAsDecoded`, says that what is stored is the encoding of the
decoded struct *with the link set on the struct*, which is more than `ReadsAsLoaded` says:
what the linker writes into the properties must be what the encoder would have
written (`LinkIsEncoded`), and a second link must replace the first
(`LinkedAgain`).  It also says that only an HTTP call has a link: the encoder of
another kind need not write both of the members the linker sets.  That the kind stored is the kind the payload
gave, although a property may overwrite it, is `StoredHasItsKind`: otherwise nothing is
stored.

Only model-checked: liveness (`PassEnds`, `SignalEnds`), as fairness and `ENABLED` are
out of this prover's reach.  Every invariant and every action property of a passing run is
stated by a theorem.

## Where code and text disagree

Each with a run whose counterexample shows it:

1. **An unknown kind does abort a load** (`loader.go:39-41` says "melhor
   persistir o resto do que abortar"): the node is skipped, an edge that joins
   it is not, and the writer's error stops the load there, on every rerun.
   `loader_unknown_kind`.
2. **Weights grow with each re-extraction** (`writer.go:153`,
   `aggregates.go:24`, `repository/writer.go:18`): loading an unchanged service
   again resets its calls but not its `DEPENDS_ON`; the next pass counts them
   again.  `pipeline_relink`.
3. **A call whose route changed keeps its old expansion** (`writer.go:143`,
   `ANALISE-METADADOS-NODES.md:17`): two `EXPANDS_TO` edges, and the reader takes
   whichever row comes first.  `pipeline_stale_expansion`.
4. **Channels of one pair overwrite each other** (`writer.go:83`):
   `PLANO-SERVICEMAP-EDGES.md:209` calls several channels between two services
   already supported ("Já suportado"), `rhaxis-load`'s `main.go:10` says that a second
   load "não duplica".  The `MERGE` of `UpsertEdge` names no `via`, so a `DEPENDS_ON` of a
   payload rewrites those of every channel, the linker's too: loaded again after a
   pass, a pair with an `event` dependency has two of them and none that is `http`.  A
   payload that names two channels keeps the last.  `pipeline_channels`.
5. **A missing endpoint is a 500** (`reader.go:156`, `rhaxis-api/main.go:191-192`):
   `Single` fails on an empty result before the "not found" check.
   `flow_missing`.

Met while modelling, without a run of their own:

- `linker.go:44` counts as `AlreadyLinked` the calls that "eram unresolved mas outro
  passe já linkou".  A call to its own service, or one whose Service node is
  missing, is committed as resolved by a transaction that then returns no row because
  of `WHERE sFrom <> sTo` (`writer.go:150`), and a pass that is alone counts it there
  (`CountAlreadyLinked`; `linker.go:165`).
- `linker.go:252` says `normalizePath` collapses slashes; inner empty segments stay
  (`/a//b`), and an all-slash template becomes the empty one, so that `//` is not `/`.
  `NormalFormsTellRoutes` asks for one normal form of one route only where no slash is
  doubled (`SingleSlashed`).
- `linker.go:89` lists a call without `resolved` (`IS NULL`), and
  `golden/README.md:34` shows calls unresolved until the linker runs; the loader always
  stores one, true when the payload has none (`decoders.go:61`), so such a call is never
  listed (`Stored`; one of the linker's initial graphs).
- `node.go:93-95` moves the provenance of an extraction to its Service node, "todos os
  nodes de uma extração compartilham os mesmos valores": after a load that stopped, the
  Service has the new revision and nodes not yet written the old content.
- A branch whose children no decoder knows disappears from the drawing, although
  an empty branch is drawn (`reader.go:246-254`; `Labels` says which are drawn).
- `nodeView` has no case for `Type`, `ReturnNode`, `ThrowNode`, `JoinNode`, `ErrorType`,
  `Middleware`, `Config` and `LogNode`, so a client never sees the `expressionText`
  and `after` that `kinds.go:119-121` and `kinds.go:145-148` keep "para display" and
  `PLANO-FLOW-CFG.md:353-354` shows in the answer (`Shows`).
- `decoders.go:15` keeps unknown properties in `Metadata`; they are dropped.
- `encoders.go:19` says that "Call*" stores `resolved`; `CallDB` and `PublishEvent`
  do not (`PLANO-MESTRE.md:76` leaves them out too), so theirs reads back true.
- A `kind` among the properties of a node wins over the node's own
  (`loader.go:113-115`): the encoder asked is the one of that kind, whose type
  assertion panics, or, for `Service`, returns an error (`EncodeOutcome`).
- A number no double can hold becomes a text in a map (`payload.go:107`) and stays a
  `json.Number` in a list; in metadata it then makes `optJSONMap` drop the whole map.
- `ListEndpoints` of a service that does not exist is a 500 for the reason of
  divergence 5 (`reader.go:101`).

## What is not modelled

- `EnsureRouteIndex`, `schema.cypher`: change no query's result.
- Order within the endpoint list (`sort.Slice` by method and path) and within the
  map; the `namePrefix` filter, which the handler reads and the reader ignores.
- `DisplayShapeFor`, `DisplayCategoryFor`: constant tables for the frontend.
- `sessionConfig`, CORS, request logging, report printing, flags: arguments of
  libraries and I/O.
- Parsing of the payload and its `schemaVersion`: refused before anything is
  written; `Loader` starts from a payload that was read.
- The inside of a URN, of a path segment and of a JSON text.
- Extractors: not in the repository; payloads are inputs.

## Plan

Written so far, in the order of importance: `CodeGraph`, `RoutePath`, `Linker`
with `LinkSpec` and its proofs, `Loader` with its proofs, `Pipeline`, `FlowReader`,
then `Codec`, `PayloadNumbers`, `Screens` (composed in `Pipeline`) and `Api` with its
proof, the proofs of `LinkerPasses` and `PipelineProofs`, and those of
`PipelinePasses`, of the flow reader and of the three conversions.

Left, for when the code moves: a load that removes what an extraction no longer has
(`loader.go:29`), a sign of a load that has stopped (`loader.go:97`) and a decoder that
asks for `resolved` (`decoders.go:61`) have no property of their own, because the code
promises nothing of them yet.

## Usage

```
tlc -workers 2 -config MCLinker.cfg MCLinker.tla
tlapm LinkerProofs.tla
```

The longest runs are `pipeline_free` and `pipeline_onboarding`, two to three minutes each,
then `linker_overlap` (liveness) and `loads`; the others take seconds.  `PROJECT.json` maps every definition to the
lines it models.
