----------------------------- MODULE FlowReader -----------------------------
(****************************************************************************)
(* Screen 3 of infra/neo4j/reader.go: LoadEndpointFlow and ExpandFlow.  One *)
(* query flattens a step's calls, branches and branch children into rows,   *)
(* in an order Cypher leaves open; buildStepChildren groups them back into  *)
(* a tree, one row at a time.  The graph does not change under a request:   *)
(* each one makes a single read transaction.                                *)
(****************************************************************************)
EXTENDS Naturals, Sequences, SequencesExt

CONSTANTS
    Step,       \* URNs of the nodes
    Label,      \* labels of branches
    Graphs,     \* what the database may hold
    Absent      \* a property that is not set, an OPTIONAL MATCH that binds nothing

\* "Call" stands for CallFunction and CallHTTP, "Control" for what has
\* branches or no affordance, "Body" for Function and Method, "Unknown" for a
\* kind the registry of this build does not decode.
FlowKind == {"Endpoint", "Call", "Consume", "Control", "Block", "Body", "Unknown"}

FlowEdge == [type: {"CONTAINS", "BRANCH", "CALLS", "EXPANDS_TO"},
             from: Step, to: Step, index: Nat, label: Label \cup {Absent}]

\* targetProp: the targetURN property of a call.  An index that is not set
\* reads as 0 (asIntProp).
FlowGraph(g) ==
    /\ DOMAIN g.kind \subseteq Step
    /\ \A u \in DOMAIN g.kind : g.kind[u] \in FlowKind
    /\ g.targetProp \in [Step -> Step \cup {Absent}]
    /\ g.edges \subseteq FlowEdge
    /\ IsFiniteSet(g.edges)
    /\ \A e \in g.edges : {e.from, e.to} \subseteq DOMAIN g.kind

ASSUME FlowAssumption ==
    /\ Absent \notin Step
    /\ Absent \notin Label
    /\ Absent \notin FlowEdge
    /\ \A g \in Graphs : FlowGraph(g)

VARIABLES
    db,         \* the graph
    phase,      \* idle, asked, grouping or answered
    asked,      \* the request: [op, urn]
    rows,       \* rows of the record not yet looked at
    byURN,      \* the steps found so far: URN -> aggregate
    order,      \* their URNs, in the order they were found
    answer      \* what the handler sent

flowVars == <<db, phase, asked, rows, byURN, order, answer>>

----------------------------------------------------------------------------
(* The two queries. *)

Exists(u) == u \in DOMAIN db.kind
Decodable(u) == Exists(u) /\ db.kind[u] # "Unknown"

Contained(u) == {e \in db.edges : e.type = "CONTAINS" /\ e.from = u}
Calls(u) == {e \in db.edges : e.type \in {"CALLS", "EXPANDS_TO"} /\ e.from = u}
Branches(u) == {e \in db.edges : e.type = "BRANCH" /\ e.from = u /\ db.kind[e.to] = "Block"}

\* OPTIONAL MATCH: one row per match, or one with nothing bound.
Optional(matches) == IF matches = {} THEN {Absent} ELSE matches

\* A row is what its clauses bound.  A step without branches has one row per
\* call target, one with branches a row for each combination.
Combine(child, branch, kids) ==
    [child: {child}, call: Optional(Calls(child.to)), branch: {branch}, kid: kids]

WithKidCalls(r) ==
    {[child |-> r.child, call |-> r.call, branch |-> r.branch, kid |-> r.kid,
      kidCall |-> k] :
        k \in IF r.kid = Absent THEN {Absent} ELSE Optional(Calls(r.kid.to))}

\* cypherEndpointFlow
EndpointFlowRows(u) ==
    LET Rows(c, b) == Combine(c, b, IF b = Absent THEN {Absent} ELSE Optional(Contained(b.to)))
    IN  UNION {WithKidCalls(r) : r \in
            UNION {UNION {Rows(c, b) : b \in Optional(Branches(c.to))} : c \in Contained(u)}}

\* cypherExpandFlow and convertExpandChildren: the branch columns are absent.
ExpandFlowRows(u) ==
    UNION {WithKidCalls(r) : r \in UNION {Combine(c, Absent, {Absent}) : c \in Contained(u)}}

ExpandTargets == {"Body", "Endpoint", "Block", "Consume"}

----------------------------------------------------------------------------
(* buildStepChildren and buildExpansionSlot. *)

NoSlot == "no slot"

\* Mutant: the property is preferred to the edge.
PropFirst(u, call) ==
    IF db.kind[u] \notin {"Call", "Consume"} THEN NoSlot
    ELSE IF db.targetProp[u] # Absent THEN db.targetProp[u]
    ELSE IF call # Absent /\ Decodable(call.to) THEN call.to
    ELSE IF db.kind[u] = "Consume" THEN u
    ELSE Absent

\* A slot holds its target; Absent is the slot of a call without any.
Slot(u, call) ==
    IF db.kind[u] \notin {"Call", "Consume"} THEN NoSlot
    ELSE IF call # Absent /\ Decodable(call.to) THEN call.to
    ELSE IF db.kind[u] = "Consume" THEN u
    ELSE db.targetProp[u]

NewStep(r) ==
    [index |-> r.child.index, slot |-> Slot(r.child.to, r.call), branches |-> <<>>]

Kid(r) == [urn |-> r.kid.to, index |-> r.kid.index, slot |-> Slot(r.kid.to, r.kidCall)]

KidsOf(agg, label) ==
    IF label \in DOMAIN agg.branches THEN agg.branches[label] ELSE <<>>

\* Mutant: the seen map is not consulted.
AddKidAgain(agg, r) == Append(KidsOf(agg, r.branch.label), Kid(r))

\* A branch child is added once per label, at its first row.
AddKid(agg, r) ==
    IF \E i \in DOMAIN KidsOf(agg, r.branch.label) :
            KidsOf(agg, r.branch.label)[i].urn = r.kid.to
    THEN KidsOf(agg, r.branch.label)
    ELSE Append(KidsOf(agg, r.branch.label), Kid(r))

SetBranch(agg, label, kids) ==
    [agg EXCEPT !.branches =
        [l \in DOMAIN agg.branches \cup {label} |->
            IF l = label THEN kids ELSE agg.branches[l]]]

\* Mutant: a branch appears only with its first child.
SkipEmptyBlock(agg, r) ==
    IF r.branch = Absent \/ r.kid = Absent THEN agg
    ELSE IF r.branch.label = Absent \/ ~Decodable(r.kid.to) THEN agg
    ELSE SetBranch(agg, r.branch.label, AddKid(agg, r))

\* What a row adds to its step: nothing without a labelled branch or when its
\* branch child does not decode; an empty block still makes a branch.
Grow(agg, r) ==
    IF r.branch = Absent THEN agg
    ELSE IF r.branch.label = Absent THEN agg
    ELSE IF r.kid = Absent
         THEN SetBranch(agg, r.branch.label, KidsOf(agg, r.branch.label))
    ELSE IF ~Decodable(r.kid.to) THEN agg
    ELSE SetBranch(agg, r.branch.label, AddKid(agg, r))

\* A stable sort: each element of s at the place after those with a smaller
\* key, and after those with the same key that stood before it.
Sorted(s, key) ==
    LET Before(i, j) == key[i] < key[j] \/ (key[i] = key[j] /\ i < j)
        Place(i) == 1 + Cardinality({j \in DOMAIN s : Before(j, i)})
    IN  [n \in DOMAIN s |-> s[CHOOSE i \in DOMAIN s : Place(i) = n]]

\* Mutant: the indices are compared the other way round.
SortDown(s) == Sorted(s, [i \in DOMAIN s |-> 0 - s[i].index])

\* sort.SliceStable by index.
SortStable(s) == Sorted(s, [i \in DOMAIN s |-> s[i].index])

Materialize(agg) ==
    [l \in DOMAIN agg.branches |->
        LET kids == SortStable(agg.branches[l])
        IN  [i \in DOMAIN kids |-> [urn |-> kids[i].urn, slot |-> kids[i].slot]]]

Children ==
    LET sorted == SortStable([i \in DOMAIN order |->
                        [urn |-> order[i], index |-> byURN[order[i]].index]])
    IN  [i \in DOMAIN sorted |->
            LET step == byURN[sorted[i].urn]
            IN  [urn |-> sorted[i].urn, slot |-> step.slot, branches |-> Materialize(step)]]

----------------------------------------------------------------------------
(* One request. *)

Nothing == [status |-> 0, error |-> "none", found |-> FALSE, children |-> <<>>]
NoRequest == [op |-> "none", urn |-> Absent]

FlowInit ==
    /\ db \in Graphs
    /\ phase = "idle"
    /\ asked = NoRequest
    /\ rows = {}
    /\ byURN = <<>>
    /\ order = <<>>
    /\ answer = Nothing

SendTree(found, children) ==
    /\ phase' = "answered"
    /\ answer' = [status |-> 200, error |-> "none", found |-> found, children |-> children]

\* statusFromErr looks for "not found" and its like in the message.
StatusFromErr(error) == IF error = "not found" THEN 404 ELSE 500

SendError(status, error) ==
    /\ phase' = "answered"
    /\ answer' = [status |-> status, error |-> error, found |-> FALSE, children |-> <<>>]

\* A request with its query parameter has been routed to its handler.
Receive(op, u) ==
    /\ phase = "idle"
    /\ phase' = "asked"
    /\ asked' = [op |-> op, urn |-> u]
    /\ UNCHANGED <<db, rows, byURN, order, answer>>

Asked(op) == phase = "asked" /\ asked.op = op

Group(matched) ==
    /\ rows' = matched
    /\ phase' = "grouping"
    /\ UNCHANGED <<db, asked, byURN, order, answer>>

\* The query of LoadEndpointFlow matches only an Endpoint, and Single answers
\* a query without a record with an error of the driver.
LoadEndpointFlow ==
    /\ Asked("flow")
    /\ IF Exists(asked.urn) /\ db.kind[asked.urn] = "Endpoint"
       THEN Group(EndpointFlowRows(asked.urn))
       ELSE /\ SendError(StatusFromErr("no record"), "no record")
            /\ UNCHANGED <<db, asked, rows, byURN, order>>

\* ExpandFlow answers a target that is missing, or that is not expandable,
\* with a stub.
ExpandFlow ==
    /\ Asked("expand")
    /\ IF Exists(asked.urn) /\ db.kind[asked.urn] \in ExpandTargets
       THEN Group(ExpandFlowRows(asked.urn))
       ELSE /\ SendTree(FALSE, <<>>)
            /\ UNCHANGED <<db, asked, rows, byURN, order>>

\* requireURN: the query parameter is missing.
MissingParameter ==
    /\ phase = "idle"
    /\ SendError(400, "parameter")
    /\ UNCHANGED <<db, asked, rows, byURN, order>>

\* The transaction of either query fails: an error of the database, or of a
\* driver that has been closed.
QueryFails(error) ==
    /\ phase = "asked"
    /\ SendError(StatusFromErr(error), error)
    /\ UNCHANGED <<db, asked, rows, byURN, order>>

\* A child that does not decode is left out, and its rows with it.
SkipRow(r) ==
    /\ phase = "grouping"
    /\ ~Decodable(r.child.to)
    /\ rows' = rows \ {r}
    /\ UNCHANGED <<db, phase, asked, byURN, order, answer>>

GroupRow(r) ==
    LET u == r.child.to
        known == u \in DOMAIN byURN
        agg == Grow(IF known THEN byURN[u] ELSE NewStep(r), r)
    IN  /\ phase = "grouping"
        /\ Decodable(u)
        /\ rows' = rows \ {r}
        /\ byURN' = [v \in DOMAIN byURN \cup {u} |-> IF v = u THEN agg ELSE byURN[v]]
        /\ order' = IF known THEN order ELSE Append(order, u)
        /\ UNCHANGED <<db, phase, asked, answer>>

Answer ==
    /\ phase = "grouping"
    /\ rows = {}
    /\ SendTree(TRUE, Children)
    /\ UNCHANGED <<db, asked, rows, byURN, order>>

Query == LoadEndpointFlow \/ ExpandFlow

Draw == (\E r \in rows : SkipRow(r) \/ GroupRow(r)) \/ Answer

Arrive == (\E op \in {"flow", "expand"}, u \in Step : Receive(op, u)) \/ MissingParameter

FlowNext ==
    \/ Arrive
    \/ Query
    \/ QueryFails("driver")
    \/ Draw

FlowSpec == FlowInit /\ [][FlowNext]_flowVars

----------------------------------------------------------------------------
(* Properties. *)

Drawn == phase = "answered" /\ answer.found

\* The edges under one label of a step.
Under(u, label) == UNION {Contained(b.to) : b \in {x \in Branches(u) : x.label = label}}

OnceInOrder(drawn, contained) ==
    LET shown == {e.to : e \in {x \in contained : Decodable(x.to)}}
    IN  /\ {drawn[i].urn : i \in DOMAIN drawn} = shown
        /\ Len(drawn) = Cardinality(shown)
        /\ \A i, j \in DOMAIN drawn : i < j =>
                \E e, f \in contained : /\ e.to = drawn[i].urn
                                       /\ f.to = drawn[j].urn
                                       /\ e.index <= f.index

\* "Rows redundantes por produto cartesiano ... são deduplicadas por URN"
\* (reader.go:191-192): whatever the product repeated and in whatever order,
\* each step and each branch child is drawn once, in the order of its index.
StepsOnceInOrder ==
    Drawn =>
        /\ OnceInOrder(answer.children, Contained(asked.urn))
        /\ \A i \in DOMAIN answer.children :
            LET c == answer.children[i]
            IN  \A l \in DOMAIN c.branches : OnceInOrder(c.branches[l], Under(c.urn, l))

\* The branches of a step are those of the graph: an empty block is drawn as
\* an empty branch (reader.go:246-249), and one whose children no decoder
\* knows is not.  ExpandFlow draws none.
Labels(u) ==
    {b.label : b \in {x \in Branches(u) :
        /\ x.label # Absent
        /\ Contained(x.to) = {} \/ \E k \in Contained(x.to) : Decodable(k.to)}}

BranchesComplete ==
    Drawn => \A i \in DOMAIN answer.children :
        LET c == answer.children[i]
        IN  DOMAIN c.branches = IF asked.op = "flow" THEN Labels(c.urn) ELSE {}

\* A call whose every target decodes expands to one of them, never to the
\* property a load or a linker left (reader.go:309), at the top level and in
\* the branches.
FollowsAnEdge(step) ==
    (/\ db.kind[step.urn] \in {"Call", "Consume"}
     /\ Calls(step.urn) # {}
     /\ \A t \in Calls(step.urn) : Decodable(t.to))
        => \E t \in Calls(step.urn) : step.slot = t.to

SlotsFollowEdges ==
    Drawn => \A i \in DOMAIN answer.children :
        LET c == answer.children[i]
        IN  /\ FollowsAnEdge(c)
            /\ \A l \in DOMAIN c.branches : \A j \in DOMAIN c.branches[l] :
                    FollowsAnEdge(c.branches[l][j])

\* The tree of a graph without rows, aggregates or an order of them: defined
\* when siblings have different indices and a call has one target.
Distinct(contained) ==
    \A e, f \in contained : (e.to # f.to => e.index # f.index) /\ (e.to = f.to => e = f)
Definite(u) ==
    /\ Distinct(Contained(u))
    /\ \A c \in Contained(u) :
        /\ Cardinality(Calls(c.to)) <= 1
        /\ \A l \in Label :
            /\ Distinct(Under(c.to, l))
            /\ \A k \in Under(c.to, l) : Cardinality(Calls(k.to)) <= 1

InOrder(contained) ==
    LET shown == {e \in contained : Decodable(e.to)}
        places == 1..Cardinality(shown)
        sorted == CHOOSE q \in [places -> shown] :
                    \A i, j \in places : i < j => q[i].index < q[j].index
    IN  [i \in places |-> sorted[i].to]
TheSlot(u) == CHOOSE s \in {Slot(u, t) : t \in Optional(Calls(u))} : TRUE
Tree(u) ==
    LET kids(c, l) == InOrder(Under(c, l))
        Drawing(c) == [urn |-> c, slot |-> TheSlot(c),
                    branches |->
                        [l \in IF asked.op = "flow" THEN Labels(c) ELSE {} |->
                            [j \in DOMAIN kids(c, l) |->
                                [urn |-> kids(c, l)[j], slot |-> TheSlot(kids(c, l)[j])]]]]
    IN  [i \in DOMAIN InOrder(Contained(u)) |-> Drawing(InOrder(Contained(u))[i])]

\* One graph, one drawing: the order in which the database returns the rows
\* of the record never shows in the answer.
OneDrawing == (Drawn /\ Definite(asked.urn)) => answer.children = Tree(asked.urn)

----------------------------------------------------------------------------
(* What a comment promises and the code does not do. *)

\* statusFromErr (rhaxis-api main.go:191-192): what the reader does not find
\* becomes a 404.
MissingIsNotFound ==
    (phase = "answered" /\ answer.error = "no record") => answer.status = 404
=============================================================================
