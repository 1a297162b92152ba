------------------------------ MODULE Pipeline ------------------------------
(****************************************************************************)
(* The graph as its operators use it: rhaxis-load for every extraction of   *)
(* every service, rhaxis-link afterwards, both again when a service is      *)
(* extracted again, and the occasional DeleteNode.  The three meet only in  *)
(* the graph: nothing in the code keeps them apart.                         *)
(****************************************************************************)
EXTENDS Linker, Loader, Screens

CONSTANTS
    Apart,      \* the operator never runs a load and a pass at the same time
    Reload,     \* a load may start once a pass has
    MaxDeletes  \* bound on the nodes deleted

ASSUME PipelineAssumption ==
    /\ Apart \in BOOLEAN
    /\ Reload \in BOOLEAN
    /\ MaxDeletes \in Nat

VARIABLES
    quiet,      \* history: passes during which only linkers have written
    deletes     \* nodes deleted so far

pipeVars == <<graph, linkerVars, loaderVars, quiet, deletes>>

Loading == \E l \in Loaders : lpc[l] = "loading"
Linking == \E l \in Linkers : pc[l] \in Active

PipeInit ==
    /\ EmptyGraph
    /\ LinkerInit
    /\ LoaderInit
    /\ quiet = [l \in Linkers |-> FALSE]
    /\ deletes = 0

----------------------------------------------------------------------------

\* "Deve rodar DEPOIS de todos os rhaxis-load" (rhaxis-link main.go:3) is a
\* rule for the operator: Apart and Reload say how far he follows it.
BeginLoad(l) ==
    /\ Apart => ~Linking
    /\ passes > 0 => Reload
    /\ StartLoad(l)
    /\ quiet' = [k \in Linkers |-> FALSE]
    /\ UNCHANGED <<linkerVars, deletes>>

ContinueLoad(l) ==
    /\ LoadStep(l) \/ FailLoad(l) \/ FailLoadAfterCommit(l)
    /\ UNCHANGED <<linkerVars, quiet, deletes>>

BeginPass(l) ==
    /\ Apart => ~Loading
    /\ Start(l)
    /\ quiet' = [quiet EXCEPT ![l] = ~Loading]
    /\ UNCHANGED <<loaderVars, deletes>>

ContinuePass(l) ==
    /\ Step(l) \/ Fail(l) \/ FailAfterCommit(l)
    /\ UNCHANGED <<loaderVars, quiet, deletes>>

\* repository.Writer.DeleteNode, by hand: no command of the repository calls it.
Delete(u) ==
    /\ deletes < MaxDeletes
    /\ DeleteNode(u)
    /\ quiet' = [l \in Linkers |-> FALSE]
    /\ deletes' = deletes + 1
    /\ UNCHANGED <<linkerVars, loaderVars>>

PipeNext ==
    \/ \E l \in Loaders : BeginLoad(l) \/ ContinueLoad(l)
    \/ \E l \in Linkers : BeginPass(l) \/ ContinuePass(l)
    \/ \E u \in URN : Delete(u)

PipeSpec == PipeInit /\ [][PipeNext]_pipeVars

----------------------------------------------------------------------------
(* Properties. *)

PipeTypeOK ==
    /\ LinkerTypeOK
    /\ LoaderTypeOK
    /\ \A l \in Linkers : pc[l] = "resolving" => {cur[l].call, cur[l].target} \subseteq URN
    /\ quiet \in [Linkers -> BOOLEAN]
    /\ deletes \in 0 .. MaxDeletes

\* A call that has a target is marked resolved and has the EXPANDS_TO edge the
\* readers follow, to a node that is an endpoint: a load writes a node whole
\* (UpsertNode), so it never leaves a link by halves, whenever it interrupts.
\* Only a deletion does.
LinksAreWhole ==
    deletes = 0 => \A c \in DOMAIN nodes : Linked(c) =>
        /\ nodes[c].resolved = TRUE
        /\ IsKind(nodes[c].targetURN, "Endpoint")
        /\ <<c, nodes[c].targetURN, "EXPANDS_TO">> \in DOMAIN edges

\* The service map never misses a link (cypherServiceMap reads only
\* DEPENDS_ON): whatever loads, passes and failures interleave, the http
\* dependency of two services stands for at least the calls now linked
\* between them.  It rests on every payload naming its Service node first, on
\* no service having been deleted, and on DEPENDS_ON being left to the linker
\* (aggregates.go:21): a payload with one takes the http dependency away, as
\* ChannelsAreKept shows.
EveryLinkIsCounted ==
    deletes = 0 => \A p \in Pairs : LinkedBetween(p) # {} =>
        \E i \in HttpRels(p) : deps[p][i].weight >= Cardinality(LinkedBetween(p))

\* Every extraction that names the call leaves it to the linker.
LeftToLink(c) ==
    \A p \in Payloads : \A i \in DOMAIN p.nodes :
        p.nodes[i].urn = c => p.nodes[i].resolved = FALSE

\* A pass during which nothing was loaded or deleted leaves no call it could
\* link (linker.go:104-105), whatever earlier passes saw and however they, and
\* the loads before it, ended: none that is marked unresolved in the graph, and
\* none that the payloads marked.  (One that a payload does not mark is decoded
\* as resolved, decoders.go:61, and never listed.)
QuietPassLinksAll ==
    (\E l \in Linkers : pc[l] = "done" /\ quiet[l]) =>
        \A c \in DOMAIN nodes :
            (\/ c \in UnresolvedCalls
             \/ IsKind(c, "CallHTTP") /\ ~Linked(c) /\ LeftToLink(c))
            => \A t \in URN : RouteMatches(c) # {t}

\* A pass has just ended and nothing else is running.
AtRest == ~Loading /\ ~Linking /\ \E l \in Linkers : pc[l] = "done" /\ quiet[l]

\* Some load that ended well said that a relationship of this type exists.
Published(from, to, type) ==
    \E l \in Loaders : lpc[l] = "loaded" /\ \E i \in DOMAIN payload[l].edges :
        LET e == payload[l].edges[i]
        IN  <<e.from, e.to, e.type>> = <<from, to, type>>

SystemEdges == {"USES_DB", "PUBLISHES_TO", "CONSUMES_FROM"}

\* The three screens fit together once the linker has run: a dependency of the
\* map joins two services of the map, there is a call behind it, and the
\* endpoint that call expands to is in the list of the service the dependency
\* leads to, if a load of that service ever ended well.  The map is the
\* linker's (by the slug of a URN), the list the loader's (by EXPOSES).
ScreensAgree ==
    AtRest =>
        /\ \A d \in ServiceMap.dependencies : d.via = "http" =>
              /\ {d.from, d.to} \subseteq ServiceMap.services
              /\ \E c \in LinkedBetween(<<d.from, d.to>>) :
                    LET t == nodes[c].targetURN
                    IN  Published(d.to, t, "EXPOSES") => t \in ListEndpoints(d.to).endpoints
        /\ \A s \in Services, u \in URN :
              (\E type \in SystemEdges : Published(s, u, type))
                  => u \in ServiceMap.externalSystems

\* What a client may open: the endpoints a call leads to in the flow it shows.
Openable(c) == {t \in Joined("EXPANDS_TO", c) : nodes[t].kind = "Endpoint"}

\* A slot a client has been shown stays good: no load, pass or failure takes
\* away what ExpandFlow follows; only a deletion does.  (The slot of a call
\* that was extracted again survives it, though its targetURN does not.)
OpensStayOpen ==
    [][deletes' = deletes => \A c \in DOMAIN nodes : Openable(c) \subseteq Openable(c)']_pipeVars

----------------------------------------------------------------------------
(* What documents and comments promise of a service that is extracted again,*)
(* and the code does not do.                                                *)

\* aggregates.go:24: DependsOn.Weight is the "nº de calls concretas por trás".
WeightIsCallsBehind ==
    AtRest => \A p \in Pairs : \A i \in HttpRels(p) :
                    deps[p][i].weight = Cardinality(LinkedBetween(p))

\* "Manter multi-aresta DEPENDS_ON com via distinto ... Já suportado"
\* (PLANO-SERVICEMAP-EDGES.md:209), and a second load of a payload "não
\* duplica" (rhaxis-load main.go:10): at rest a pair has one DEPENDS_ON for
\* each channel that a load which ended well names or a link stands for, and
\* no two of one channel.  (A payload that names two channels of a pair itself
\* loses one at once: LoadLeavesPayload.)
ChannelsAreKept ==
    (~Loading /\ ~Linking) => \A p \in Pairs :
        LET Vias == [i \in DOMAIN deps[p] |-> deps[p][i].via]
            named == {e \in UNION {{payload[l].edges[i] : i \in DOMAIN payload[l].edges} :
                                    l \in {k \in Loaders : lpc[k] = "loaded"}} :
                        e.type = "DEPENDS_ON" /\ <<e.from, e.to>> = p}
        IN  /\ \A i, j \in DOMAIN Vias : Vias[i] = Vias[j] => i = j
            /\ \A e \in named : \E i \in DOMAIN Vias : Vias[i] = e.via
            /\ LinkedBetween(p) # {} => \E i \in DOMAIN Vias : Vias[i] = "http"

\* ANALISE-METADADOS-NODES.md:17: CallHTTP.TargetURN is "coberto por
\* EXPANDS_TO", so the edges of a linked call lead to its target.
ExpansionIsTarget ==
    AtRest => \A k \in DOMAIN edges :
                    (k[3] = "EXPANDS_TO" /\ Linked(k[1])) => k[2] = nodes[k[1]].targetURN
=============================================================================
