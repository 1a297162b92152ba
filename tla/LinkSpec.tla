------------------------------ MODULE LinkSpec ------------------------------
(****************************************************************************)
(* What cross-service linking promises the readers of the graph, with no    *)
(* pass, cache, transaction or failure in it: a call that exactly one       *)
(* endpoint offers may be linked to it, once and for good, and linking it   *)
(* adds one to the dependency between the services it crosses.              *)
(****************************************************************************)
EXTENDS Naturals

CONSTANTS
    Call,       \* the calls
    Offer,      \* the endpoints
    Pair,       \* ordered pairs of services
    None        \* neither an endpoint nor a pair

VARIABLES
    offers,     \* offers[c]: the endpoints whose route is the call's
    crosses,    \* crosses[c, t]: the pair a link from c to t counts for
    target,     \* target[c]: where c is linked
    weight      \* weight[p]: the dependency of p[1] on p[2]

fixed == <<offers, crosses>>
linkVars == <<offers, crosses, target, weight>>

Init ==
    /\ offers \in [Call -> SUBSET Offer]
    /\ crosses \in [Call \X Offer -> Pair \cup {None}]
    /\ target = [c \in Call |-> None]
    /\ weight = [p \in Pair |-> 0]

Link(c, t) ==
    /\ offers[c] = {t}
    /\ target[c] = None
    /\ target' = [target EXCEPT ![c] = t]
    /\ weight' = [p \in Pair |->
                    weight[p] + IF p = crosses[<<c, t>>] THEN 1 ELSE 0]
    /\ UNCHANGED fixed

Next == \E c \in Call, t \in Offer : Link(c, t)

Spec == Init /\ [][Next]_linkVars
=============================================================================
