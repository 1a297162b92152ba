---------------------------- MODULE MCFlowReader ----------------------------
(****************************************************************************)
(* FlowReader on the endpoint e: an if with two blocks, and a call.  The    *)
(* graphs differ in what the rows repeat or leave open: blocks that share a *)
(* label or are empty, a call with several targets, tied indices, nodes no  *)
(* decoder knows.  A second request runs beside, and the process may be     *)
(* told to stop at any time.                                                *)
(****************************************************************************)
EXTENDS Api

CONSTANTS e, if, call, b1, b2, k1, k2, f, g, missing

MCStep == {e, if, call, b1, b2, k1, k2, f, g, missing}

Edge(type, from, to, index, label) ==
    [type |-> type, from |-> from, to |-> to, index |-> index, label |-> label]
Contain(from, to, index) == Edge("CONTAINS", from, to, index, Absent)
Branch(from, to, label) == Edge("BRANCH", from, to, 0, label)
Expands(from, to) == Edge("EXPANDS_TO", from, to, 0, Absent)
CallsTo(from, to) == Edge("CALLS", from, to, 0, Absent)

Kinds ==
    [u \in MCStep \ {missing} |->
        CASE u = e -> "Endpoint"
          [] u \in {b1, b2} -> "Block"
          [] u \in {call, k2} -> "Call"
          [] u \in {f, g} -> "Body"
          [] OTHER -> "Control"]
NoProp == [u \in MCStep |-> Absent]
Graph(kind, prop, edges) == [kind |-> kind, targetProp |-> prop, edges |-> edges]

\* e: [if, call]; if: then [k1, k2], else []; call and k2 expand to f.
BaseEdges == {
    Contain(e, if, 1), Contain(e, call, 2),
    Branch(if, b1, "then"), Branch(if, b2, "else"),
    Contain(b1, k1, 0), Contain(b1, k2, 1),
    Expands(call, f), CallsTo(k2, f),
    Contain(f, k2, 0)}

Base == Graph(Kinds, NoProp, BaseEdges)

\* Both blocks under one label, with one child in common.
OneLabel == Graph(Kinds, NoProp,
    (BaseEdges \ {Branch(if, b2, "else")})
        \cup {Branch(if, b2, "then"), Contain(b2, k1, 3), Contain(b2, k2, 0)})

\* The indices of the steps and of the branch children are tied.
Ties == Graph(Kinds, NoProp,
    (BaseEdges \ {Contain(e, if, 1), Contain(b1, k2, 1)})
        \cup {Contain(e, if, 2), Contain(b1, k2, 0)})

\* A linked call whose route changed: two expansions, and the property of the
\* last; and a call the extractor joined to its target by both edges.
TwoTargets == Graph(Kinds, [NoProp EXCEPT ![call] = g, ![k2] = g],
    BaseEdges \cup {Expands(call, g), Expands(k2, f)})

\* A call without an edge, a consumer, and a branch without a label.
NoEdges == Graph([Kinds EXCEPT ![k1] = "Consume"], [NoProp EXCEPT ![call] = g],
    (BaseEdges \ {Expands(call, f), Branch(if, b2, "else")})
        \cup {Branch(if, b2, Absent), Contain(b2, g, 0), Contain(k1, k2, 0)})

\* A newer extractor's kinds: a step, a branch child and a call's target.
Newer == Graph([Kinds EXCEPT ![k1] = "Unknown", ![f] = "Unknown"],
               [NoProp EXCEPT ![k2] = f],
    BaseEdges \cup {Contain(e, k1, 0), Contain(b2, k1, 0)})

\* A load that stopped early: an if whose then branch is still empty.
Partial == Graph([u \in {e, if, b1} |-> Kinds[u]], NoProp,
    {Contain(e, if, 1), Branch(if, b1, "then")})

MCGraphs == {Base, OneLabel, Ties, TwoTargets, NoEdges, Newer, Partial}
=============================================================================
