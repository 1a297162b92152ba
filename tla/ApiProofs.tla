------------------------------- MODULE ApiProofs -------------------------------
(****************************************************************************)
(* What the process of the API promises, for any graph and any set of other *)
(* requests.  First what screen 3 draws: StepsOnceInOrder,                  *)
(* BranchesComplete, SlotsFollowEdges and OneDrawing, whatever the order in *)
(* which the rows of the record arrive and whatever the process does        *)
(* meanwhile.  Then how it ends: AnsweredBeforeExit.                        *)
(*                                                                          *)
(* The inductive invariant of the first part says what buildStepChildren    *)
(* has in hand after a set of rows, whichever they were: the aggregates are *)
(* those of these rows.  With all rows of the query looked at, they are     *)
(* those of the graph, and what is left is what a stable sort makes of them.*)
(****************************************************************************)
EXTENDS Api, FiniteSetTheorems, TLAPS

----------------------------------------------------------------------------
(* The rows of a query. *)

\* The rows of the request that was asked.
FlowRows ==
    IF asked.op = "flow" THEN EndpointFlowRows(asked.urn) ELSE ExpandFlowRows(asked.urn)

\* The branches a step's rows bind; cypherExpandFlow binds none.
RowBranches(u) == IF asked.op = "flow" THEN Optional(Branches(u)) ELSE {Absent}
RowKids(b) == IF b = Absent THEN {Absent} ELSE Optional(Contained(b.to))
RowKidCalls(k) == IF k = Absent THEN {Absent} ELSE Optional(Calls(k.to))

\* A row whose kid, if it binds one, decodes, under a branch with a label: it
\* adds that branch to its step.
Adds(r) ==
    /\ r.branch # Absent
    /\ r.branch.label # Absent
    /\ r.kid = Absent \/ Decodable(r.kid.to)

----------------------------------------------------------------------------
(* The inductive invariant. *)

FlowSlot == Step \cup {Absent, NoSlot}
FlowKid == [urn : Step, index : Nat, slot : FlowSlot]

\* The children of a branch, after the rows K that bind one under it.
KidsGrouped(kids, K) ==
    /\ kids \in Seq(FlowKid)
    /\ \A i \in DOMAIN kids : \E r \in K : kids[i] = Kid(r)
    /\ \A r \in K : \E i \in DOMAIN kids : kids[i].urn = r.kid.to
    /\ \A i, j \in DOMAIN kids : kids[i].urn = kids[j].urn => i = j

\* The branches of a step, after the rows A that add one to it.
BranchesGrouped(branches, A) ==
    /\ DOMAIN branches = {r.branch.label : r \in A}
    /\ \A l \in DOMAIN branches :
        KidsGrouped(branches[l], {r \in A : r.branch.label = l /\ r.kid # Absent})

IsStep(agg) == agg = [index |-> agg.index, slot |-> agg.slot, branches |-> agg.branches]

\* The aggregate of the step u, after the rows R.
StepGrouped(agg, u, R) ==
    /\ IsStep(agg)
    /\ \E r \in R : /\ r.child.to = u
                    /\ agg.index = r.child.index
                    /\ agg.slot = Slot(u, r.call)
    /\ BranchesGrouped(agg.branches, {r \in R : r.child.to = u /\ Adds(r)})

\* The steps and their order, after the rows R.
RowsGrouped(steps, urns, R) ==
    /\ urns \in Seq(Step)
    /\ \A i, j \in DOMAIN urns : urns[i] = urns[j] => i = j
    /\ DOMAIN steps = {urns[i] : i \in DOMAIN urns}
    /\ DOMAIN steps = {r.child.to : r \in {x \in R : Decodable(x.child.to)}}
    /\ \A u \in DOMAIN steps : StepGrouped(steps[u], u, R)

Grouping ==
    /\ asked.op \in {"flow", "expand"}
    /\ rows \subseteq FlowRows
    /\ RowsGrouped(byURN, order, FlowRows \ rows)

FlowInv ==
    /\ db \in Graphs
    /\ phase \in {"idle", "asked"} => byURN = <<>> /\ order = <<>> /\ ~answer.found
    /\ phase = "asked" => asked.op \in {"flow", "expand"}
    /\ phase = "grouping" => Grouping
    /\ Drawn => Grouping /\ rows = {} /\ answer.children = Children

----------------------------------------------------------------------------
(* The sort. *)

Before(s, i, j) == s[i].index < s[j].index \/ (s[i].index = s[j].index /\ i < j)
Earlier(s, i) == {j \in DOMAIN s : Before(s, j, i)}
Place(s, i) == 1 + Cardinality(Earlier(s, i))

\* What is to be sorted: a finite sequence of things with an index.
Indexed(s, n) ==
    /\ DOMAIN s = 1..n
    /\ \A i \in 1..n : s[i].index \in Nat

\* Before is a strict total order of the positions.
LEMMA BeforeOrders ==
  ASSUME NEW n \in Nat, NEW s, Indexed(s, n), NEW i \in 1..n, NEW j \in 1..n
  PROVE  /\ ~Before(s, i, i)
         /\ i # j => Before(s, i, j) \/ Before(s, j, i)
         /\ ~(Before(s, i, j) /\ Before(s, j, i))
         /\ Before(s, i, j) => \A k \in 1..n : Before(s, k, i) => Before(s, k, j)
         /\ ~Before(s, j, i) => s[i].index <= s[j].index
<1>1. \A k \in 1..n : s[k].index \in Nat /\ k \in Nat
  BY DEF Indexed
<1> QED BY <1>1, SMT DEF Before

\* Places are positions, and the earlier of two has the smaller place.
LEMMA PlacesRise ==
  ASSUME NEW n \in Nat, NEW s, Indexed(s, n), NEW i \in 1..n
  PROVE  /\ Place(s, i) \in 1..n
         /\ \A j \in 1..n : Before(s, i, j) => Place(s, i) < Place(s, j)
<1>1. IsFiniteSet(1..n) /\ Cardinality(1..n) = n
  BY FS_Interval
<1>2. \A k : Earlier(s, k) \subseteq 1..n
  BY DEF Earlier, Indexed
<1>3. \A k : IsFiniteSet(Earlier(s, k)) /\ Cardinality(Earlier(s, k)) \in Nat
  BY <1>1, <1>2, FS_Subset, FS_CardinalityType
<1>4. i \notin Earlier(s, i)
  BY BeforeOrders DEF Earlier
<1>5. /\ Earlier(s, i) \cup {i} \subseteq 1..n
      /\ Cardinality(Earlier(s, i) \cup {i}) = Cardinality(Earlier(s, i)) + 1
  BY <1>2, <1>3, <1>4, FS_AddElement
<1>6. Cardinality(Earlier(s, i)) + 1 <= n
  BY <1>1, <1>5, FS_Subset
<1>7. Place(s, i) \in 1..n
  BY <1>3, <1>6 DEF Place
<1>8. ASSUME NEW j \in 1..n, Before(s, i, j) PROVE Place(s, i) < Place(s, j)
  <2>1. Earlier(s, i) \cup {i} \subseteq Earlier(s, j)
    BY <1>2, <1>8, BeforeOrders DEF Earlier, Indexed
  <2>2. Cardinality(Earlier(s, i)) + 1 <= Cardinality(Earlier(s, j))
    BY <1>3, <1>5, <2>1, FS_Subset
  <2> QED BY <1>3, <2>2 DEF Place
<1> QED BY <1>7, <1>8

\* The position of the element that takes each place.
At(s) == [m \in DOMAIN s |-> CHOOSE i \in DOMAIN s : Place(s, i) = m]

\* SortStable permutes its argument into the order of the indices.
LEMMA SortsByIndex ==
  ASSUME NEW n \in Nat, NEW s, Indexed(s, n)
  PROVE  /\ At(s) \in [1..n -> 1..n]
         /\ SortStable(s) = [m \in 1..n |-> s[At(s)[m]]]
         /\ \A i \in 1..n : \E m \in 1..n : At(s)[m] = i
         /\ \A m, k \in 1..n : At(s)[m] = At(s)[k] => m = k
         /\ \A m, k \in 1..n : m < k => s[At(s)[m]].index <= s[At(s)[k]].index
<1> DEFINE pl == [i \in 1..n |-> Place(s, i)]
<1>1. pl \in [1..n -> 1..n]
  BY PlacesRise
<1>2. \A i, j \in 1..n : pl[i] = pl[j] => i = j
  <2> SUFFICES ASSUME NEW i \in 1..n, NEW j \in 1..n, i # j PROVE Place(s, i) # Place(s, j)
    OBVIOUS
  <2>1. Place(s, i) \in Nat /\ Place(s, j) \in Nat
    BY PlacesRise
  <2>2. Place(s, i) < Place(s, j) \/ Place(s, j) < Place(s, i)
    BY BeforeOrders, PlacesRise
  <2> QED BY <2>1, <2>2
<1>3. \A m \in 1..n : \E i \in 1..n : Place(s, i) = m
  <2>1. pl \in Injection(1..n, 1..n)
    BY <1>1, <1>2 DEF Injection, IsInjective
  <2>2. IsFiniteSet(1..n)
    BY FS_Interval
  <2>3. pl \in Surjection(1..n, 1..n)
    BY <2>1, <2>2, FS_Injection
  <2> QED BY <2>3 DEF Surjection
<1>4. \A m \in 1..n : At(s)[m] \in 1..n /\ Place(s, At(s)[m]) = m
  BY <1>3 DEF At, Indexed
<1>5. At(s) \in [1..n -> 1..n]
  BY <1>4 DEF At, Indexed
<1>6. SortStable(s) = [m \in 1..n |-> s[At(s)[m]]]
  <2> DEFINE key == [i \in DOMAIN s |-> s[i].index]
             Sooner(i) == {j \in DOMAIN s : key[j] < key[i] \/ (key[j] = key[i] /\ j < i)}
  <2>1. \A i \in DOMAIN s : Sooner(i) = Earlier(s, i)
    BY DEF Earlier, Before
  <2> DEFINE Taken(m) == CHOOSE i \in DOMAIN s : 1 + Cardinality(Sooner(i)) = m
  <2>2. SortStable(s) = [m \in DOMAIN s |-> s[Taken(m)]]
    BY DEF SortStable, Sorted
  <2> HIDE DEF Sooner
  <2>3. \A m \in DOMAIN s : Taken(m) = At(s)[m]
    BY <2>1 DEF Place, At
  <2> HIDE DEF Taken
  <2> QED BY <2>2, <2>3 DEF Indexed
<1>7. \A i \in 1..n : \E m \in 1..n : At(s)[m] = i
  <2> SUFFICES ASSUME NEW i \in 1..n PROVE At(s)[pl[i]] = i
    BY <1>1
  <2>1. pl[i] \in 1..n /\ Place(s, At(s)[pl[i]]) = pl[i]
    BY <1>1, <1>4
  <2>2. pl[At(s)[pl[i]]] = pl[i]
    BY <1>4, <2>1
  <2> QED BY <1>2, <1>4, <2>1, <2>2
<1>8. \A m, k \in 1..n : At(s)[m] = At(s)[k] => m = k
  BY <1>4
<1>9. ASSUME NEW m \in 1..n, NEW k \in 1..n, m < k
      PROVE  s[At(s)[m]].index <= s[At(s)[k]].index
  <2>1. ~(Place(s, At(s)[k]) < Place(s, At(s)[m]))
    BY <1>4, <1>9
  <2>2. ~Before(s, At(s)[k], At(s)[m])
    BY <1>4, <2>1, PlacesRise
  <2> QED BY <1>4, <2>2, BeforeOrders
<1> QED BY <1>5, <1>6, <1>7, <1>8, <1>9

----------------------------------------------------------------------------
(* What a sequence of steps that were found once each is drawn as. *)

\* s holds what the edges of contained lead to, each decodable node once, with
\* the index of an edge to it.
Gathers(s, n, contained) ==
    /\ Indexed(s, n)
    /\ \A i, j \in 1..n : s[i].urn = s[j].urn => i = j
    /\ \A i \in 1..n : \E e \in contained :
            Decodable(e.to) /\ e.to = s[i].urn /\ e.index = s[i].index
    /\ \A e \in contained : Decodable(e.to) => \E i \in 1..n : s[i].urn = e.to

\* A sequence that shows s, sorted.
Shows(drawn, s, n) ==
    /\ DOMAIN drawn = 1..n
    /\ Len(drawn) = n
    /\ \A i \in 1..n : drawn[i].urn = SortStable(s)[i].urn

\* What is drawn is once each of what s holds, in the order of the indices.
LEMMA ShownSorted ==
  ASSUME NEW contained, NEW n \in Nat, NEW s, NEW drawn,
         Gathers(s, n, contained), Shows(drawn, s, n)
  PROVE  LET index == [m \in 1..n |-> SortStable(s)[m].index]
         IN  /\ \A m \in 1..n : \E e \in contained :
                    Decodable(e.to) /\ e.to = drawn[m].urn /\ e.index = index[m]
             /\ \A e \in contained : Decodable(e.to) => \E m \in 1..n : drawn[m].urn = e.to
             /\ \A m, k \in 1..n : drawn[m].urn = drawn[k].urn => m = k
             /\ \A m, k \in 1..n : m < k => index[m] <= index[k]
<1> DEFINE at == At(s)
           index == [m \in 1..n |-> SortStable(s)[m].index]
<1>1. Indexed(s, n)
  BY DEF Gathers
<1>2. /\ at \in [1..n -> 1..n]
      /\ SortStable(s) = [m \in 1..n |-> s[at[m]]]
  BY <1>1, SortsByIndex
<1>3. /\ \A i \in 1..n : \E m \in 1..n : at[m] = i
      /\ \A m, k \in 1..n : at[m] = at[k] => m = k
  BY <1>1, SortsByIndex
<1>4. \A m, k \in 1..n : m < k => s[at[m]].index <= s[at[k]].index
  BY <1>1, SortsByIndex
<1> HIDE DEF at
<1>5. \A m \in 1..n : at[m] \in 1..n /\ drawn[m].urn = s[at[m]].urn /\ index[m] = s[at[m]].index
  BY <1>2 DEF Shows
<1> HIDE DEF index
<1>6. /\ \A i, j \in 1..n : s[i].urn = s[j].urn => i = j
      /\ \A i \in 1..n : \E e \in contained :
            Decodable(e.to) /\ e.to = s[i].urn /\ e.index = s[i].index
      /\ \A e \in contained : Decodable(e.to) => \E i \in 1..n : s[i].urn = e.to
  BY DEF Gathers
<1>7. ASSUME NEW m \in 1..n
      PROVE  \E e \in contained : Decodable(e.to) /\ e.to = drawn[m].urn /\ e.index = index[m]
  BY <1>5, <1>6
<1>8. ASSUME NEW e \in contained, Decodable(e.to) PROVE \E m \in 1..n : drawn[m].urn = e.to
  <2>1. PICK i \in 1..n : s[i].urn = e.to
    BY <1>6, <1>8
  <2>2. PICK m \in 1..n : at[m] = i
    BY <1>3
  <2> QED BY <1>5, <2>1, <2>2
<1>9. ASSUME NEW m \in 1..n, NEW k \in 1..n, drawn[m].urn = drawn[k].urn PROVE m = k
  <2>1. at[m] = at[k]
    BY <1>5, <1>6, <1>9
  <2> QED BY <1>3, <2>1
<1>10. ASSUME NEW m \in 1..n, NEW k \in 1..n, m < k PROVE index[m] <= index[k]
  <2>1. s[at[m]].index <= s[at[k]].index
    BY <1>4, <1>10, Zenon
  <2> QED BY <1>5, <2>1, Zenon
<1> QED BY <1>7, <1>8, <1>9, <1>10 DEF index

\* A drawing of what has been gathered, sorted, shows each decodable step once and
\* in the order of its index.
LEMMA DrawnOnce ==
  ASSUME NEW contained, NEW n \in Nat, NEW s, NEW drawn,
         Gathers(s, n, contained), Shows(drawn, s, n)
  PROVE  OnceInOrder(drawn, contained)
<1> DEFINE shown == {e.to : e \in {x \in contained : Decodable(x.to)}}
           index == [m \in 1..n |-> SortStable(s)[m].index]
           f == [m \in 1..n |-> drawn[m].urn]
<1>1. /\ \A m \in 1..n : \E e \in contained :
            Decodable(e.to) /\ e.to = drawn[m].urn /\ e.index = index[m]
      /\ \A e \in contained : Decodable(e.to) => \E m \in 1..n : drawn[m].urn = e.to
      /\ \A m, k \in 1..n : drawn[m].urn = drawn[k].urn => m = k
      /\ \A m, k \in 1..n : m < k => index[m] <= index[k]
  BY ShownSorted
<1> HIDE DEF index
<1>2. \A m \in 1..n : drawn[m].urn \in shown
  BY <1>1
<1>3. \A u \in shown : \E m \in 1..n : drawn[m].urn = u
  BY <1>1
<1> HIDE DEF shown
<1>4. Len(drawn) = Cardinality(shown)
  <2>1. f \in Bijection(1..n, shown)
    BY <1>1, <1>2, <1>3 DEF Bijection, Injection, Surjection, IsInjective
  <2> QED BY <2>1, FS_CountingElements DEF ExistsBijection, Shows
<1>5. {drawn[i].urn : i \in DOMAIN drawn} = shown
  BY <1>2, <1>3 DEF Shows
<1>6. ASSUME NEW m \in DOMAIN drawn, NEW k \in DOMAIN drawn, m < k
      PROVE  \E e, g \in contained : /\ e.to = drawn[m].urn
                                     /\ g.to = drawn[k].urn
                                     /\ e.index <= g.index
  <2>1. m \in 1..n /\ k \in 1..n
    BY DEF Shows
  <2>2. PICK e \in contained : e.to = drawn[m].urn /\ e.index = index[m]
    BY <1>1, <2>1
  <2>3. PICK g \in contained : g.to = drawn[k].urn /\ g.index = index[k]
    BY <1>1, <2>1
  <2>4. e.index <= g.index
    BY <1>1, <1>6, <2>1, <2>2, <2>3, Zenon
  <2> QED BY <2>2, <2>3, <2>4
<1> QED BY <1>4, <1>5, <1>6 DEF OnceInOrder, shown

\* An enumeration of a finite set of edges in strict order of their index.
Rising(q, E, n) ==
    /\ q \in [1..n -> E]
    /\ \A i, j \in 1..n : i < j => q[i].index < q[j].index

\* It is a bijection, and the i-th edge has i - 1 below it ...
LEMMA RisingRanks ==
  ASSUME NEW E, IsFiniteSet(E), \A e \in E : e.index \in Nat,
         NEW n \in Nat, n = Cardinality(E), NEW q, Rising(q, E, n)
  PROVE  /\ \A e \in E : \E i \in 1..n : q[i] = e
         /\ \A i \in 1..n : Cardinality({e \in E : e.index < q[i].index}) = i - 1
<1>1. \A i, j \in 1..n : q[i] = q[j] => i = j
  <2> SUFFICES ASSUME NEW i \in 1..n, NEW j \in 1..n, i # j PROVE q[i] # q[j]
    OBVIOUS
  <2>1. q[i].index \in Nat /\ q[j].index \in Nat
    BY DEF Rising
  <2>2. i < j \/ j < i
    OBVIOUS
  <2>3. q[i].index < q[j].index \/ q[j].index < q[i].index
    BY <2>2 DEF Rising
  <2> QED BY <2>1, <2>3
<1>2. q \in Injection(1..n, E)
  BY <1>1 DEF Rising, Injection, IsInjective
<1>3. Cardinality(1..n) = n
  BY FS_Interval
<1>4. q \in Surjection(1..n, E)
  BY <1>2, <1>3, FS_Injection
<1>5. \A e \in E : \E i \in 1..n : q[i] = e
  BY <1>4 DEF Surjection
<1>6. ASSUME NEW i \in 1..n
      PROVE  Cardinality({e \in E : e.index < q[i].index}) = i - 1
  <2> DEFINE below == {e \in E : e.index < q[i].index}
             f == [j \in 1..(i - 1) |-> q[j]]
  <2>1. ASSUME NEW j \in 1..(i - 1) PROVE f[j] \in below
    <3>1. j \in 1..n /\ j < i
      OBVIOUS
    <3> QED BY <3>1 DEF Rising
  <2>2. ASSUME NEW e \in below PROVE \E j \in 1..(i - 1) : f[j] = e
    <3>1. PICK j \in 1..n : q[j] = e
      BY <1>5
    <3>2. q[j].index \in Nat /\ q[i].index \in Nat /\ q[j].index < q[i].index
      BY <3>1 DEF Rising
    <3>3. i < j => q[i].index < q[j].index
      BY DEF Rising
    <3>4. j < i
      BY <3>2, <3>3
    <3> QED BY <3>1, <3>4
  <2>3. \A j, k \in 1..(i - 1) : f[j] = f[k] => j = k
    BY <1>1
  <2> HIDE DEF below
  <2>4. f \in Bijection(1..(i - 1), below)
    BY <2>1, <2>2, <2>3 DEF Bijection, Injection, Surjection, IsInjective
  <2>5. Cardinality(below) = i - 1
    BY <2>4, FS_CountingElements DEF ExistsBijection
  <2> QED BY <2>5 DEF below
<1> QED BY <1>5, <1>6

\* ... so that there is one at most.
LEMMA RisingOnce ==
  ASSUME NEW E, IsFiniteSet(E), \A e \in E : e.index \in Nat,
         NEW n \in Nat, n = Cardinality(E), NEW q, NEW p, Rising(q, E, n), Rising(p, E, n),
         NEW i \in 1..n
  PROVE  q[i] = p[i]
<1> DEFINE Rank(e) == Cardinality({x \in E : x.index < e.index})
<1>1. ASSUME NEW x, Rising(x, E, n)
      PROVE  /\ \A e \in E : \E k \in 1..n : x[k] = e
             /\ \A k \in 1..n : Rank(x[k]) = k - 1
  BY <1>1, RisingRanks
<1> HIDE DEF Rank
<1>2. PICK k \in 1..n : p[k] = q[i]
  BY <1>1 DEF Rising
<1>3. k - 1 = i - 1
  BY <1>1, <1>2
<1> QED BY <1>2, <1>3

\* Where siblings have different indices, InOrder is what is drawn.
LEMMA DrawnInOrder ==
  ASSUME NEW contained, IsFiniteSet(contained), \A e \in contained : e.index \in Nat,
         Distinct(contained), NEW n \in Nat, NEW s, NEW drawn,
         Gathers(s, n, contained), Shows(drawn, s, n)
  PROVE  InOrder(contained) = [i \in 1..n |-> drawn[i].urn]
<1> DEFINE E == {e \in contained : Decodable(e.to)}
           index == [m \in 1..n |-> SortStable(s)[m].index]
           p == [m \in 1..n |-> CHOOSE e \in E : e.to = drawn[m].urn]
<1>1. /\ \A m \in 1..n : \E e \in contained :
            Decodable(e.to) /\ e.to = drawn[m].urn /\ e.index = index[m]
      /\ \A e \in contained : Decodable(e.to) => \E m \in 1..n : drawn[m].urn = e.to
      /\ \A m, k \in 1..n : drawn[m].urn = drawn[k].urn => m = k
      /\ \A m, k \in 1..n : m < k => index[m] <= index[k]
  BY ShownSorted
<1> HIDE DEF index
<1>2. \A e, g \in E : (e.to # g.to => e.index # g.index) /\ (e.to = g.to => e = g)
  BY DEF Distinct
<1>3. ASSUME NEW m \in 1..n
      PROVE  p[m] \in E /\ p[m].to = drawn[m].urn /\ p[m].index = index[m]
  <2>1. PICK e \in E : e.to = drawn[m].urn /\ e.index = index[m]
    BY <1>1
  <2>2. p[m] \in E /\ p[m].to = drawn[m].urn
    BY <2>1
  <2>3. p[m] = e
    BY <1>2, <2>1, <2>2
  <2> QED BY <2>1, <2>2, <2>3
<1>4. \A e \in E : \E m \in 1..n : drawn[m].urn = e.to
  BY <1>1
<1>5. IsFiniteSet(E) /\ \A e \in E : e.index \in Nat
  BY FS_Subset
<1>6. p \in [1..n -> E]
  BY <1>3
<1> HIDE DEF E, p
<1>7. \A e \in E : \E m \in 1..n : p[m] = e
  BY <1>2, <1>3, <1>4
<1>8. \A m, k \in 1..n : p[m] = p[k] => m = k
  BY <1>1, <1>3
<1>9. n = Cardinality(E)
  <2>1. p \in Bijection(1..n, E)
    BY <1>6, <1>7, <1>8 DEF Bijection, Injection, Surjection, IsInjective
  <2> QED BY <2>1, FS_CountingElements DEF ExistsBijection
<1>10. Rising(p, E, n)
  <2> SUFFICES ASSUME NEW i \in 1..n, NEW j \in 1..n, i < j
               PROVE  p[i].index < p[j].index
    BY <1>6 DEF Rising
  <2>1. p[i].index <= p[j].index
    BY <1>1, <1>3, Zenon
  <2>2. i # j
    OBVIOUS
  <2>3. p[i].to # p[j].to
    BY <1>1, <1>3, <2>2
  <2>4. p[i].index # p[j].index
    BY <1>2, <1>3, <2>3
  <2>5. p[i].index \in Nat /\ p[j].index \in Nat
    BY <1>3, <1>5
  <2> QED BY <2>1, <2>4, <2>5
<1> DEFINE q == CHOOSE x \in [1..n -> E] : \A i, j \in 1..n : i < j => x[i].index < x[j].index
<1>11. Rising(q, E, n)
  BY <1>10 DEF Rising
<1>12. InOrder(contained) = [i \in 1..n |-> q[i].to]
  BY <1>9 DEF InOrder, E
<1> HIDE DEF q
<1>13. \A i \in 1..n : q[i] = p[i]
  BY <1>5, <1>9, <1>10, <1>11, RisingOnce
<1> QED BY <1>3, <1>12, <1>13

----------------------------------------------------------------------------
(* The rows are those of the graph. *)

Row(c, a, b, k, t) == [child |-> c, call |-> a, branch |-> b, kid |-> k, kidCall |-> t]

\* What a row binds, clause after clause.
IsRow(r) ==
    \E c \in Contained(asked.urn) :
        \E a \in Optional(Calls(c.to)), b \in RowBranches(c.to) :
            \E k \in RowKids(b) : \E t \in RowKidCalls(k) : r = Row(c, a, b, k, t)

\* The rows that one branch and its kids bind.
LEMMA CombineBinds ==
  ASSUME NEW c, NEW b, NEW kids, NEW r
  PROVE  (\E x \in Combine(c, b, kids) : r \in WithKidCalls(x)) <=>
         (\E a \in Optional(Calls(c.to)), k \in kids : \E t \in RowKidCalls(k) :
            r = Row(c, a, b, k, t))
<1>1. ASSUME NEW x
      PROVE  x \in Combine(c, b, kids) <=>
                \E a \in Optional(Calls(c.to)), k \in kids :
                    x = [child |-> c, call |-> a, branch |-> b, kid |-> k]
  BY DEF Combine
<1>2. ASSUME NEW a, NEW k
      PROVE  r \in WithKidCalls([child |-> c, call |-> a, branch |-> b, kid |-> k]) <=>
                \E t \in RowKidCalls(k) : r = Row(c, a, b, k, t)
  BY DEF WithKidCalls, RowKidCalls, Row
<1>3. ASSUME NEW x \in Combine(c, b, kids), r \in WithKidCalls(x)
      PROVE  \E a \in Optional(Calls(c.to)), k \in kids : \E t \in RowKidCalls(k) :
                r = Row(c, a, b, k, t)
  <2>1. PICK a \in Optional(Calls(c.to)), k \in kids :
            x = [child |-> c, call |-> a, branch |-> b, kid |-> k]
    BY <1>1
  <2> QED BY <1>2, <1>3, <2>1
<1>4. ASSUME NEW a \in Optional(Calls(c.to)), NEW k \in kids, NEW t \in RowKidCalls(k),
             r = Row(c, a, b, k, t)
      PROVE  \E x \in Combine(c, b, kids) : r \in WithKidCalls(x)
  <2> DEFINE x == [child |-> c, call |-> a, branch |-> b, kid |-> k]
  <2>1. x \in Combine(c, b, kids)
    BY <1>1
  <2>2. r \in WithKidCalls(x)
    BY <1>2, <1>4
  <2> QED BY <2>1, <2>2
<1> QED BY <1>3, <1>4

\* A row of the query is what its OPTIONAL MATCH clauses bind, and all of that.
LEMMA RowsBind ==
  ASSUME asked.op \in {"flow", "expand"}, NEW r
  PROVE  r \in FlowRows <=> IsRow(r)
<1>1. CASE asked.op = "flow"
  <2>1. r \in EndpointFlowRows(asked.urn) <=>
            \E c \in Contained(asked.urn) : \E b \in Optional(Branches(c.to)) :
                \E x \in Combine(c, b, RowKids(b)) : r \in WithKidCalls(x)
    <3> DEFINE D == UNION {UNION {Combine(c, b, RowKids(b)) : b \in Optional(Branches(c.to))} :
                            c \in Contained(asked.urn)}
    <3>1. EndpointFlowRows(asked.urn) = UNION {WithKidCalls(x) : x \in D}
      BY DEF EndpointFlowRows, RowKids
    <3>2. \A x : x \in D <=> \E c \in Contained(asked.urn) : \E b \in Optional(Branches(c.to)) :
                                x \in Combine(c, b, RowKids(b))
      OBVIOUS
    <3> HIDE DEF D
    <3>3. r \in EndpointFlowRows(asked.urn) <=> \E x \in D : r \in WithKidCalls(x)
      BY <3>1
    <3> QED BY <3>2, <3>3
  <2>2. \A c, b : (\E x \in Combine(c, b, RowKids(b)) : r \in WithKidCalls(x)) <=>
                    (\E a \in Optional(Calls(c.to)), k \in RowKids(b) :
                        \E t \in RowKidCalls(k) : r = Row(c, a, b, k, t))
    BY CombineBinds
  <2>3. r \in EndpointFlowRows(asked.urn) <=>
            \E c \in Contained(asked.urn) : \E b \in Optional(Branches(c.to)) :
                \E a \in Optional(Calls(c.to)), k \in RowKids(b) :
                    \E t \in RowKidCalls(k) : r = Row(c, a, b, k, t)
    BY <2>1, <2>2, Zenon
  <2> QED BY <1>1, <2>3 DEF FlowRows, IsRow, RowBranches
<1>2. CASE asked.op = "expand"
  <2>1. r \in ExpandFlowRows(asked.urn) <=>
            \E c \in Contained(asked.urn) :
                \E x \in Combine(c, Absent, {Absent}) : r \in WithKidCalls(x)
    BY DEF ExpandFlowRows
  <2>2. \A c : (\E x \in Combine(c, Absent, {Absent}) : r \in WithKidCalls(x)) <=>
                    (\E a \in Optional(Calls(c.to)), k \in {Absent} :
                        \E t \in RowKidCalls(k) : r = Row(c, a, Absent, k, t))
    BY CombineBinds
  <2>3. r \in ExpandFlowRows(asked.urn) <=>
            \E c \in Contained(asked.urn) :
                \E a \in Optional(Calls(c.to)), k \in {Absent} :
                    \E t \in RowKidCalls(k) : r = Row(c, a, Absent, k, t)
    BY <2>1, <2>2, Zenon
  <2> QED BY <1>2, <2>3 DEF FlowRows, IsRow, RowBranches, RowKids
<1> QED BY <1>1, <1>2

\* What a graph says of its edges.
LEMMA GraphSays ==
  ASSUME db \in Graphs
  PROVE  /\ IsFiniteSet(db.edges)
         /\ \A e \in db.edges : /\ e # Absent
                                /\ e.to \in Step
                                /\ e.index \in Nat
                                /\ e.label \in Label \cup {Absent}
         /\ db.targetProp \in [Step -> Step \cup {Absent}]
         /\ DOMAIN db.kind \subseteq Step
<1>1. FlowGraph(db) /\ Absent \notin FlowEdge
  BY FlowAssumption
<1> QED BY <1>1 DEF FlowGraph, FlowEdge

\* Every clause binds something.
LEMMA ClausesBind ==
  ASSUME NEW u, NEW k, NEW b
  PROVE  Optional(Calls(u)) # {} /\ RowBranches(u) # {} /\ RowKids(b) # {} /\ RowKidCalls(k) # {}
BY DEF Optional, RowBranches, RowKids, RowKidCalls

\* What the rows hold: edges of the graph, or nothing.
LEMMA RowHolds ==
  ASSUME db \in Graphs, asked.op \in {"flow", "expand"}, NEW r \in FlowRows
  PROVE  /\ r.child \in Contained(asked.urn)
         /\ r.call \in Optional(Calls(r.child.to))
         /\ r.branch # Absent => /\ asked.op = "flow"
                                 /\ r.branch \in Branches(r.child.to)
                                 /\ r.kid \in Optional(Contained(r.branch.to))
         /\ r.kid # Absent => /\ r.branch # Absent
                              /\ r.kid \in Contained(r.branch.to)
                              /\ r.kidCall \in Optional(Calls(r.kid.to))
<1>1. PICK c \in Contained(asked.urn) :
        \E a \in Optional(Calls(c.to)), b \in RowBranches(c.to) :
            \E k \in RowKids(b) : \E t \in RowKidCalls(k) : r = Row(c, a, b, k, t)
  BY RowsBind DEF IsRow
<1>2. PICK a \in Optional(Calls(c.to)), b \in RowBranches(c.to) :
            \E k \in RowKids(b) : \E t \in RowKidCalls(k) : r = Row(c, a, b, k, t)
  BY <1>1
<1>3. PICK k \in RowKids(b) : \E t \in RowKidCalls(k) : r = Row(c, a, b, k, t)
  BY <1>2
<1>4. PICK t \in RowKidCalls(k) : r = Row(c, a, b, k, t)
  BY <1>3
<1>5. r.child = c /\ r.call = a /\ r.branch = b /\ r.kid = k /\ r.kidCall = t
  BY <1>4 DEF Row
<1>6. b # Absent => asked.op = "flow" /\ b \in Branches(c.to)
  BY DEF RowBranches, Optional
<1>7. k # Absent => b # Absent /\ k \in Contained(b.to)
  BY DEF RowKids, Optional
<1> QED BY <1>5, <1>6, <1>7 DEF RowKids, RowKidCalls

\* Whatever the clauses bind is a row.
LEMMA RowExists ==
  ASSUME asked.op \in {"flow", "expand"}, NEW c \in Contained(asked.urn),
         NEW b \in RowBranches(c.to), NEW k \in RowKids(b)
  PROVE  \E r \in FlowRows : r.child = c /\ r.branch = b /\ r.kid = k
<1>1. PICK a \in Optional(Calls(c.to)) : TRUE
  BY ClausesBind
<1>2. PICK t \in RowKidCalls(k) : TRUE
  BY ClausesBind
<1> DEFINE r == Row(c, a, b, k, t)
<1>3. r \in FlowRows
  BY RowsBind DEF IsRow
<1>4. r.child = c /\ r.branch = b /\ r.kid = k
  BY DEF Row
<1> QED BY <1>3, <1>4

\* Every child, every block without children and every child of a block has one.
LEMMA RowsCover ==
  ASSUME db \in Graphs, asked.op \in {"flow", "expand"}, NEW c \in Contained(asked.urn)
  PROVE  /\ \E r \in FlowRows : r.child = c
         /\ asked.op = "flow" => \A b \in Branches(c.to) :
                /\ b # Absent
                /\ Contained(b.to) = {} =>
                    \E r \in FlowRows : r.child = c /\ r.branch = b /\ r.kid = Absent
                /\ \A k \in Contained(b.to) :
                    /\ k # Absent
                    /\ \E r \in FlowRows : r.child = c /\ r.branch = b /\ r.kid = k
<1>1. \E r \in FlowRows : r.child = c
  <2>1. PICK b \in RowBranches(c.to) : TRUE
    BY ClausesBind
  <2>2. PICK k \in RowKids(b) : TRUE
    BY ClausesBind
  <2> QED BY RowExists
<1>2. ASSUME asked.op = "flow", NEW b \in Branches(c.to)
      PROVE  b # Absent /\ b \in RowBranches(c.to)
  BY <1>2, GraphSays DEF Branches, RowBranches, Optional
<1>3. ASSUME asked.op = "flow", NEW b \in Branches(c.to), Contained(b.to) = {}
      PROVE  \E r \in FlowRows : r.child = c /\ r.branch = b /\ r.kid = Absent
  <2>1. Absent \in RowKids(b)
    BY <1>3 DEF RowKids, Optional
  <2> QED BY <1>2, <1>3, <2>1, RowExists
<1>4. ASSUME asked.op = "flow", NEW b \in Branches(c.to), NEW k \in Contained(b.to)
      PROVE  k # Absent /\ \E r \in FlowRows : r.child = c /\ r.branch = b /\ r.kid = k
  <2>1. k # Absent
    BY GraphSays DEF Contained
  <2>2. k \in RowKids(b)
    BY <1>2, <1>4 DEF RowKids, Optional
  <2> QED BY <1>2, <1>4, <2>1, <2>2, RowExists
<1> QED BY <1>1, <1>2, <1>3, <1>4

\* A row's parts have the types their edges give them.
LEMMA RowTyped ==
  ASSUME db \in Graphs, asked.op \in {"flow", "expand"}, NEW r \in FlowRows
  PROVE  /\ r.child.to \in Step
         /\ r.child.index \in Nat
         /\ r.kid # Absent => Kid(r) \in FlowKid
<1>1. r.child.to \in Step /\ r.child.index \in Nat
  BY RowHolds, GraphSays DEF Contained
<1>2. ASSUME NEW u \in Step, NEW a, a = Absent \/ a \in Calls(u) PROVE Slot(u, a) \in FlowSlot
  <2>1. a # Absent => a.to \in Step
    BY <1>2, GraphSays DEF Calls
  <2> QED BY <2>1, GraphSays DEF Slot, FlowSlot
<1>3. ASSUME r.kid # Absent PROVE Kid(r) \in FlowKid
  <2>1. r.kid.to \in Step /\ r.kid.index \in Nat
    BY <1>3, RowHolds, GraphSays DEF Contained
  <2>2. r.kidCall = Absent \/ r.kidCall \in Calls(r.kid.to)
    BY <1>3, RowHolds DEF Optional
  <2>3. Slot(r.kid.to, r.kidCall) \in FlowSlot
    BY <1>2, <2>1, <2>2
  <2> QED BY <2>1, <2>3 DEF Kid, FlowKid
<1> QED BY <1>1, <1>3

----------------------------------------------------------------------------
(* One row more. *)

\* A kid whose URN the label has not seen is appended, any other is not.
LEMMA AddKidGroups ==
  ASSUME NEW agg, NEW r, NEW K, Kid(r) \in FlowKid,
         KidsGrouped(KidsOf(agg, r.branch.label), K)
  PROVE  KidsGrouped(AddKid(agg, r), K \cup {r})
<1> DEFINE kids == KidsOf(agg, r.branch.label)
<1>0. /\ kids \in Seq(FlowKid)
      /\ \A i \in DOMAIN kids : \E x \in K : kids[i] = Kid(x)
      /\ \A x \in K : \E i \in DOMAIN kids : kids[i].urn = x.kid.to
      /\ \A i, j \in DOMAIN kids : kids[i].urn = kids[j].urn => i = j
  BY DEF KidsGrouped
<1>1. AddKid(agg, r) = IF \E i \in DOMAIN kids : kids[i].urn = r.kid.to
                      THEN kids ELSE Append(kids, Kid(r))
  BY DEF AddKid
<1> HIDE DEF kids
<1>2. CASE \E i \in DOMAIN kids : kids[i].urn = r.kid.to
  <2>1. \A i \in DOMAIN kids : \E x \in K \cup {r} : kids[i] = Kid(x)
    BY <1>0
  <2>2. \A x \in K \cup {r} : \E i \in DOMAIN kids : kids[i].urn = x.kid.to
    BY <1>0, <1>2
  <2>3. AddKid(agg, r) = kids
    BY <1>1, <1>2
  <2> QED BY <1>0, <2>1, <2>2, <2>3 DEF KidsGrouped
<1>3. CASE ~\E i \in DOMAIN kids : kids[i].urn = r.kid.to
  <2> DEFINE new == Append(kids, Kid(r))
             n == Len(kids)
  <2>1. /\ n \in Nat
        /\ DOMAIN kids = 1..n
        /\ new \in Seq(FlowKid)
        /\ DOMAIN new = 1..(n + 1)
        /\ new[n + 1] = Kid(r)
        /\ \A i \in 1..n : new[i] = kids[i]
    BY <1>0
  <2>2. Kid(r).urn = r.kid.to
    BY DEF Kid
  <2>3. AddKid(agg, r) = new
    BY <1>1, <1>3
  <2> HIDE DEF new, n
  <2>4. \A i \in DOMAIN new : i = n + 1 \/ i \in 1..n
    BY <2>1
  <2>5. 1..n \subseteq DOMAIN new /\ n + 1 \in DOMAIN new
    BY <2>1
  <2>6. \A i \in DOMAIN new : \E x \in K \cup {r} : new[i] = Kid(x)
    BY <1>0, <2>1, <2>4
  <2>7. \A x \in K \cup {r} : \E i \in DOMAIN new : new[i].urn = x.kid.to
    <3> SUFFICES ASSUME NEW x \in K \cup {r} PROVE \E i \in DOMAIN new : new[i].urn = x.kid.to
      OBVIOUS
    <3>1. CASE x = r
      BY <2>1, <2>2, <2>5, <3>1
    <3>2. CASE x \in K
      <4>1. PICK i \in DOMAIN kids : kids[i].urn = x.kid.to
        BY <1>0, <3>2
      <4>2. i \in DOMAIN new /\ new[i] = kids[i]
        BY <2>1, <2>5
      <4> QED BY <4>1, <4>2
    <3> QED BY <3>1, <3>2
  <2>8. \A i, j \in DOMAIN new : new[i].urn = new[j].urn => i = j
    BY <1>0, <1>3, <2>1, <2>2, <2>4
  <2> QED BY <2>1, <2>3, <2>6, <2>7, <2>8 DEF KidsGrouped
<1> QED BY <1>2, <1>3

\* Grow adds to the branches what the row binds, if it adds anything.
LEMMA GrowGroups ==
  ASSUME db \in Graphs, asked.op \in {"flow", "expand"}, NEW r \in FlowRows,
         NEW agg, IsStep(agg), NEW A, BranchesGrouped(agg.branches, A)
  PROVE  /\ IsStep(Grow(agg, r))
         /\ Grow(agg, r).index = agg.index
         /\ Grow(agg, r).slot = agg.slot
         /\ BranchesGrouped(Grow(agg, r).branches, IF Adds(r) THEN A \cup {r} ELSE A)
<1> DEFINE l == r.branch.label
           B == agg.branches
           KidRows(R, m) == {x \in R : x.branch.label = m /\ x.kid # Absent}
<1>1. CASE ~Adds(r)
  <2>1. Grow(agg, r) = agg
    BY <1>1 DEF Grow, Adds
  <2> QED BY <1>1, <2>1
<1>2. CASE Adds(r)
  <2> DEFINE kids == IF r.kid = Absent THEN KidsOf(agg, l) ELSE AddKid(agg, r)
             C == [m \in DOMAIN B \cup {l} |-> IF m = l THEN kids ELSE B[m]]
  <2>1. Grow(agg, r) = [agg EXCEPT !.branches = C]
    BY <1>2 DEF Grow, Adds, SetBranch
  <2>2. agg = [index |-> agg.index, slot |-> agg.slot, branches |-> agg.branches]
    BY DEF IsStep
  <2> HIDE DEF C
  <2>3. /\ Grow(agg, r).index = agg.index
        /\ Grow(agg, r).slot = agg.slot
        /\ Grow(agg, r).branches = C
        /\ IsStep(Grow(agg, r))
    BY <2>1, <2>2 DEF IsStep
  <2>4. /\ DOMAIN B = {x.branch.label : x \in A}
        /\ \A m \in DOMAIN B : KidsGrouped(B[m], KidRows(A, m))
    BY DEF BranchesGrouped
  <2>5. KidsGrouped(KidsOf(agg, l), KidRows(A, l))
    <3>1. CASE l \in DOMAIN B
      BY <2>4, <3>1 DEF KidsOf
    <3>2. CASE l \notin DOMAIN B
      <4>1. KidRows(A, l) = {}
        BY <2>4, <3>2
      <4>2. KidsOf(agg, l) = <<>>
        BY <3>2 DEF KidsOf
      <4>3. KidsGrouped(<<>>, {})
        BY DEF KidsGrouped
      <4> QED BY <4>1, <4>2, <4>3
    <3> QED BY <3>1, <3>2
  <2>6. KidsGrouped(kids, KidRows(A \cup {r}, l))
    <3>1. CASE r.kid = Absent
      <4>1. KidRows(A \cup {r}, l) = KidRows(A, l)
        BY <3>1
      <4> QED BY <2>5, <3>1, <4>1
    <3>2. CASE r.kid # Absent
      <4>1. KidRows(A \cup {r}, l) = KidRows(A, l) \cup {r}
        BY <3>2
      <4>2. Kid(r) \in FlowKid
        BY <3>2, RowTyped
      <4> HIDE DEF KidRows
      <4> QED BY <2>5, <3>2, <4>1, <4>2, AddKidGroups
    <3> QED BY <3>1, <3>2
  <2>7. ASSUME NEW m \in DOMAIN B, m # l PROVE KidRows(A \cup {r}, m) = KidRows(A, m)
    BY <2>7
  <2> HIDE DEF kids
  <2>8. DOMAIN C = {x.branch.label : x \in A \cup {r}}
    BY <2>4 DEF C
  <2>9. \A m \in DOMAIN C : KidsGrouped(C[m], KidRows(A \cup {r}, m))
    <3> SUFFICES ASSUME NEW m \in DOMAIN C PROVE KidsGrouped(C[m], KidRows(A \cup {r}, m))
      OBVIOUS
    <3>1. CASE m = l
      <4>1. C[m] = kids
        BY <3>1 DEF C
      <4> QED BY <2>6, <3>1, <4>1
    <3>2. CASE m # l
      <4>1. m \in DOMAIN B /\ C[m] = B[m]
        BY <3>2 DEF C
      <4> HIDE DEF KidRows
      <4> QED BY <2>4, <2>7, <3>2, <4>1
    <3> QED BY <3>1, <3>2
  <2>10. BranchesGrouped(C, A \cup {r})
    BY <2>8, <2>9 DEF BranchesGrouped
  <2> QED BY <1>2, <2>3, <2>10
<1> QED BY <1>1, <1>2

AddingRows(u, R) == {x \in R : x.child.to = u /\ Adds(x)}

\* A row of another step changes nothing.
LEMMA OtherRow ==
  ASSUME NEW agg, NEW u, NEW R, StepGrouped(agg, u, R), NEW r, r.child.to # u
  PROVE  StepGrouped(agg, u, R \cup {r})
<1>1. AddingRows(u, R \cup {r}) = AddingRows(u, R)
  BY DEF AddingRows
<1>2. /\ IsStep(agg)
      /\ \E x \in R : x.child.to = u /\ agg.index = x.child.index /\ agg.slot = Slot(u, x.call)
      /\ BranchesGrouped(agg.branches, AddingRows(u, R))
  BY DEF StepGrouped, AddingRows
<1>3. BranchesGrouped(agg.branches, AddingRows(u, R \cup {r}))
  BY <1>1, <1>2
<1> QED BY <1>2, <1>3 DEF StepGrouped, AddingRows

\* A row of the step itself, be it the first or another.
LEMMA OwnRow ==
  ASSUME db \in Graphs, asked.op \in {"flow", "expand"}, NEW r \in FlowRows, NEW R, NEW agg,
         \/ StepGrouped(agg, r.child.to, R)
         \/ agg = NewStep(r) /\ \A x \in R : x.child.to # r.child.to
  PROVE  StepGrouped(Grow(agg, r), r.child.to, R \cup {r})
<1> DEFINE u == r.child.to
<1>1. /\ IsStep(agg)
      /\ \E x \in R \cup {r} :
            x.child.to = u /\ agg.index = x.child.index /\ agg.slot = Slot(u, x.call)
      /\ BranchesGrouped(agg.branches, AddingRows(u, R))
  <2>1. CASE StepGrouped(agg, u, R)
    BY <2>1 DEF StepGrouped, AddingRows
  <2>2. CASE agg = NewStep(r) /\ \A x \in R : x.child.to # u
    <3>1. AddingRows(u, R) = {}
      BY <2>2 DEF AddingRows
    <3>2. /\ IsStep(agg)
          /\ agg.index = r.child.index /\ agg.slot = Slot(u, r.call)
          /\ agg.branches = <<>>
      BY <2>2 DEF NewStep, IsStep
    <3>3. BranchesGrouped(<<>>, {})
      BY DEF BranchesGrouped
    <3> QED BY <3>1, <3>2, <3>3
  <2> QED BY <2>1, <2>2
<1>2. AddingRows(u, R \cup {r}) = IF Adds(r) THEN AddingRows(u, R) \cup {r} ELSE AddingRows(u, R)
  BY DEF AddingRows
<1>3. /\ IsStep(Grow(agg, r))
      /\ Grow(agg, r).index = agg.index
      /\ Grow(agg, r).slot = agg.slot
      /\ BranchesGrouped(Grow(agg, r).branches, AddingRows(u, R \cup {r}))
  BY <1>1, <1>2, GrowGroups
<1>4. \E x \in R \cup {r} : /\ x.child.to = u
                           /\ Grow(agg, r).index = x.child.index
                           /\ Grow(agg, r).slot = Slot(u, x.call)
  BY <1>1, <1>3
<1> QED BY <1>3, <1>4 DEF StepGrouped, AddingRows

DecodedSteps(R) == {x.child.to : x \in {y \in R : Decodable(y.child.to)}}

\* The rows of a child that does not decode are as good as not there.
LEMMA SkippedRow ==
  ASSUME NEW steps, NEW urns, NEW R, RowsGrouped(steps, urns, R),
         NEW r, ~Decodable(r.child.to)
  PROVE  RowsGrouped(steps, urns, R \cup {r})
<1>1. /\ urns \in Seq(Step)
      /\ \A i, j \in DOMAIN urns : urns[i] = urns[j] => i = j
      /\ DOMAIN steps = {urns[i] : i \in DOMAIN urns}
      /\ DOMAIN steps = DecodedSteps(R)
      /\ \A u \in DOMAIN steps : StepGrouped(steps[u], u, R)
  BY DEF RowsGrouped, DecodedSteps
<1>2. DecodedSteps(R \cup {r}) = DecodedSteps(R)
  BY DEF DecodedSteps
<1>3. \A u \in DOMAIN steps : Decodable(u)
  BY <1>1 DEF DecodedSteps
<1>4. \A u \in DOMAIN steps : StepGrouped(steps[u], u, R \cup {r})
  BY <1>1, <1>3, OtherRow
<1> QED BY <1>1, <1>2, <1>4 DEF RowsGrouped, DecodedSteps

\* One turn of the loop of buildStepChildren: a decodable row more, and what has
\* been gathered is what the rows, this one included, say.
LEMMA GroupedRow ==
  ASSUME db \in Graphs, asked.op \in {"flow", "expand"}, NEW r \in FlowRows,
         NEW steps, NEW urns, NEW R, RowsGrouped(steps, urns, R), Decodable(r.child.to)
  PROVE  LET u == r.child.to
             known == u \in DOMAIN steps
             agg == Grow(IF known THEN steps[u] ELSE NewStep(r), r)
         IN  RowsGrouped([v \in DOMAIN steps \cup {u} |-> IF v = u THEN agg ELSE steps[v]],
                         IF known THEN urns ELSE Append(urns, u),
                         R \cup {r})
<1> DEFINE u == r.child.to
           known == u \in DOMAIN steps
           agg == Grow(IF known THEN steps[u] ELSE NewStep(r), r)
           more == [v \in DOMAIN steps \cup {u} |-> IF v = u THEN agg ELSE steps[v]]
           after == IF known THEN urns ELSE Append(urns, u)
<1>1. /\ urns \in Seq(Step)
      /\ \A i, j \in DOMAIN urns : urns[i] = urns[j] => i = j
      /\ DOMAIN steps = {urns[i] : i \in DOMAIN urns}
      /\ DOMAIN steps = DecodedSteps(R)
      /\ \A v \in DOMAIN steps : StepGrouped(steps[v], v, R)
  BY DEF RowsGrouped, DecodedSteps
<1>2. DecodedSteps(R \cup {r}) = DecodedSteps(R) \cup {u}
  BY DEF DecodedSteps
<1>3. DOMAIN more = DecodedSteps(R \cup {r})
  BY <1>1, <1>2
<1>4. /\ after \in Seq(Step)
      /\ \A i, j \in DOMAIN after : after[i] = after[j] => i = j
      /\ DOMAIN more = {after[i] : i \in DOMAIN after}
  <2>1. CASE known
    BY <1>1, <2>1
  <2>2. CASE ~known
    <3> DEFINE n == Len(urns)
    <3>1. u \in Step
      BY RowTyped
    <3>2. /\ n \in Nat
          /\ DOMAIN urns = 1..n
          /\ after \in Seq(Step)
          /\ DOMAIN after = 1..(n + 1)
          /\ after[n + 1] = u
          /\ \A i \in 1..n : after[i] = urns[i]
      BY <1>1, <2>2, <3>1
    <3> HIDE DEF after, n
    <3>3. /\ \A i \in DOMAIN after : i = n + 1 \/ i \in 1..n
          /\ 1..n \subseteq DOMAIN after /\ n + 1 \in DOMAIN after
      BY <3>2
    <3>4. \A i \in 1..n : urns[i] # u
      BY <1>1, <2>2, <3>2
    <3>5. \A i, j \in DOMAIN after : after[i] = after[j] => i = j
      BY <1>1, <3>2, <3>3, <3>4
    <3>6. {after[i] : i \in DOMAIN after} = {urns[i] : i \in DOMAIN urns} \cup {u}
      BY <3>2, <3>3
    <3> QED BY <1>1, <3>2, <3>5, <3>6
  <2> QED BY <2>1, <2>2
<1>5. StepGrouped(agg, u, R \cup {r})
  <2>1. CASE known
    BY <1>1, <2>1, OwnRow
  <2>2. CASE ~known
    <3>1. \A x \in R : x.child.to # u
      BY <1>1, <2>2 DEF DecodedSteps
    <3> QED BY <2>2, <3>1, OwnRow
  <2> QED BY <2>1, <2>2
<1>6. \A v \in DOMAIN more : StepGrouped(more[v], v, R \cup {r})
  <2> SUFFICES ASSUME NEW v \in DOMAIN more PROVE StepGrouped(more[v], v, R \cup {r})
    OBVIOUS
  <2>1. CASE v = u
    BY <1>5, <2>1
  <2>2. CASE v # u
    <3>1. v \in DOMAIN steps /\ more[v] = steps[v]
      BY <2>2
    <3> QED BY <1>1, <2>2, <3>1, OtherRow
  <2> QED BY <2>1, <2>2
<1> HIDE DEF more, after
<1>7. RowsGrouped(more, after, R \cup {r})
  BY <1>3, <1>4, <1>6 DEF RowsGrouped, DecodedSteps
<1> QED BY <1>7 DEF more, after

----------------------------------------------------------------------------
(* The invariant is inductive. *)

\* The graph and the request stay what they are while it is drawn, and so do
\* its rows and what they say.
LEMMA GraphStays ==
  ASSUME db' = db, asked' = asked
  PROVE  /\ FlowRows' = FlowRows
         /\ Grouping' <=> /\ asked.op \in {"flow", "expand"}
                         /\ rows' \subseteq FlowRows
                         /\ RowsGrouped(byURN', order', FlowRows \ rows')
<1>1. FlowRows' = FlowRows
  BY DEF FlowRows, EndpointFlowRows, ExpandFlowRows, WithKidCalls, Combine, Optional,
         Contained, Branches, Calls
<1>2. RowsGrouped(byURN, order, FlowRows \ rows)' <=>
            RowsGrouped(byURN', order', FlowRows' \ rows')
  BY SMT DEF RowsGrouped, StepGrouped, IsStep, BranchesGrouped, KidsGrouped, Kid, Slot, Adds,
         Decodable, Exists
<1> QED BY <1>1, <1>2 DEF Grouping

\* The drawing depends on what has been gathered alone.
LEMMA ChildrenStay == ASSUME byURN' = byURN, order' = order PROVE Children' = Children
BY DEF Children, SortStable, Sorted, Materialize

\* The process begins with nothing asked.
LEMMA FlowInitHolds == ApiInit => FlowInv
<1> SUFFICES ASSUME FlowInit PROVE FlowInv
  BY DEF ApiInit
<1> QED BY DEF FlowInit, FlowInv, Nothing, Drawn

\* A step that leaves the request, the graph and what has been gathered alone.
LEMMA FlowStays ==
  ASSUME FlowInv, UNCHANGED flowVars
  PROVE  FlowInv'
<1>1. /\ db' = db /\ phase' = phase /\ asked' = asked /\ rows' = rows
      /\ byURN' = byURN /\ order' = order /\ answer' = answer
  BY DEF flowVars
<1>2. Grouping => Grouping'
  BY <1>1, GraphStays DEF Grouping
<1>3. Drawn' <=> Drawn
  BY <1>1 DEF Drawn
<1>4. Children' = Children
  BY <1>1, ChildrenStay
<1> QED BY <1>1, <1>2, <1>3, <1>4 DEF FlowInv

\* A request that arrives has nothing drawn yet; one without its parameter never has.
LEMMA ArriveKeepsFlow ==
  ASSUME FlowInv, Arrive
  PROVE  FlowInv'
<1>1. ASSUME NEW op \in {"flow", "expand"}, NEW u \in Step, Receive(op, u) PROVE FlowInv'
  BY <1>1 DEF Receive, FlowInv, Drawn
<1>2. CASE MissingParameter
  BY <1>2 DEF MissingParameter, SendError, FlowInv, Drawn
<1> QED BY <1>1, <1>2 DEF Arrive

\* An error is no drawing.
LEMMA ErrorKeepsFlow ==
  ASSUME FlowInv, db' = db, phase' = "answered", ~answer'.found
  PROVE  FlowInv'
BY DEF FlowInv, Drawn

\* All rows of the query are there, and none has been looked at.
LEMMA GroupKeepsFlow ==
  ASSUME FlowInv, phase = "asked", Group(FlowRows)
  PROVE  FlowInv'
<1>1. /\ db' = db /\ phase' = "grouping" /\ asked' = asked /\ rows' = FlowRows
      /\ byURN' = <<>> /\ order' = <<>> /\ asked.op \in {"flow", "expand"}
  BY DEF Group, FlowInv
<1>2. RowsGrouped(<<>>, <<>>, {})
  BY DEF RowsGrouped
<1>3. Grouping'
  BY <1>1, <1>2, GraphStays
<1> QED BY <1>1, <1>3 DEF FlowInv, Drawn

\* A query that is answered leaves all its rows to look at; one that fails, an error.
LEMMA QueryKeepsFlow ==
  ASSUME FlowInv, Query
  PROVE  FlowInv'
<1>1. CASE LoadEndpointFlow
  <2>1. CASE Group(EndpointFlowRows(asked.urn))
    BY <1>1, <2>1, GroupKeepsFlow DEF LoadEndpointFlow, Asked, FlowRows
  <2>2. CASE /\ SendError(StatusFromErr("no record"), "no record")
             /\ UNCHANGED <<db, asked, rows, byURN, order>>
    BY <2>2, ErrorKeepsFlow DEF SendError
  <2> QED BY <1>1, <2>1, <2>2 DEF LoadEndpointFlow
<1>2. CASE ExpandFlow
  <2>1. CASE Group(ExpandFlowRows(asked.urn))
    BY <1>2, <2>1, GroupKeepsFlow DEF ExpandFlow, Asked, FlowRows
  <2>2. CASE SendTree(FALSE, <<>>) /\ UNCHANGED <<db, asked, rows, byURN, order>>
    BY <2>2, ErrorKeepsFlow DEF SendTree
  <2> QED BY <1>2, <2>1, <2>2 DEF ExpandFlow
<1> QED BY <1>1, <1>2 DEF Query

\* A row is looked at: it leaves what is to do and joins what has been done.
LEMMA RowKeepsFlow ==
  ASSUME FlowInv, NEW r \in rows, SkipRow(r) \/ GroupRow(r)
  PROVE  FlowInv'
<1> DEFINE R == FlowRows \ rows
<1>1. /\ db \in Graphs /\ db' = db /\ asked' = asked /\ phase = "grouping" /\ phase' = "grouping"
      /\ rows' = rows \ {r}
  BY DEF FlowInv, SkipRow, GroupRow
<1>2. /\ asked.op \in {"flow", "expand"}
      /\ rows \subseteq FlowRows
      /\ RowsGrouped(byURN, order, R)
  BY <1>1 DEF FlowInv, Grouping
<1>3. r \in FlowRows /\ FlowRows \ rows' = R \cup {r}
  BY <1>1, <1>2
<1> HIDE DEF R
<1>4. CASE SkipRow(r)
  <2>1. byURN' = byURN /\ order' = order /\ ~Decodable(r.child.to)
    BY <1>4 DEF SkipRow
  <2>2. RowsGrouped(byURN', order', R \cup {r})
    BY <1>2, <2>1, SkippedRow
  <2>3. Grouping'
    BY <1>1, <1>2, <1>3, <2>2, GraphStays
  <2> QED BY <1>1, <2>3 DEF FlowInv, Drawn
<1>5. CASE GroupRow(r)
  <2>1. Decodable(r.child.to)
    BY <1>5 DEF GroupRow
  <2>2. RowsGrouped(byURN', order', R \cup {r})
    BY <1>1, <1>2, <1>3, <1>5, <2>1, GroupedRow DEF GroupRow
  <2>3. Grouping'
    BY <1>1, <1>2, <1>3, <2>2, GraphStays
  <2> QED BY <1>1, <2>3 DEF FlowInv, Drawn
<1> QED BY <1>4, <1>5

\* The answer is the drawing of what all rows gathered.
LEMMA AnswerKeepsFlow ==
  ASSUME FlowInv, Answer
  PROVE  FlowInv'
<1>1. /\ db' = db /\ asked' = asked /\ rows' = rows /\ byURN' = byURN /\ order' = order
      /\ phase = "grouping" /\ phase' = "answered" /\ rows = {} /\ answer'.children = Children
  BY DEF Answer, SendTree
<1>2. Grouping
  BY <1>1 DEF FlowInv
<1>3. Grouping'
  BY <1>1, <1>2, GraphStays DEF Grouping
<1>4. Children' = Children
  BY <1>1, ChildrenStay
<1> QED BY <1>1, <1>3, <1>4 DEF FlowInv

\* No step of a handler disturbs what the rows looked at say.
LEMMA HandlerKeepsFlow ==
  ASSUME FlowInv, HandleFlow
  PROVE  FlowInv'
<1>1. ASSUME NEW error, QueryFails(error) PROVE FlowInv'
  BY <1>1, ErrorKeepsFlow DEF QueryFails, SendError
<1>2. CASE Draw
  BY <1>2, RowKeepsFlow, AnswerKeepsFlow DEF Draw
<1> QED BY <1>1, <1>2, ArriveKeepsFlow, QueryKeepsFlow DEF HandleFlow

\* Nor does any step of the process, or of another request.
LEMMA StepKeepsFlow ==
  ASSUME FlowInv, [ApiNext]_apiVars
  PROVE  FlowInv'
<1>1. CASE OpenDriver \/ OpenFails \/ ListenFails \/ Signal \/ MainStep
  <2>1. UNCHANGED flowVars
    BY <1>1 DEF OpenDriver, OpenFails, ListenFails, Signal, MainStep, Drained, ShutdownTimesOut,
                CloseDriver, Exit
  <2> QED BY <2>1, FlowStays
<1>2. ASSUME NEW r \in Others, OtherArrives(r) \/ OtherAnswered(r) PROVE FlowInv'
  BY <1>2, FlowStays DEF OtherArrives, OtherAnswered
<1>3. CASE UNCHANGED apiVars
  BY <1>3, FlowStays DEF apiVars
<1> QED BY <1>1, <1>2, <1>3, HandlerKeepsFlow DEF ApiNext

\* Whatever rows have been looked at and in whatever order, what has been
\* gathered is what these rows say (reader.go:191-266).
THEOREM RequestsAreGrouped == ApiSpec => []FlowInv
BY FlowInitHolds, StepKeepsFlow, PTL DEF ApiSpec

----------------------------------------------------------------------------
(* What is drawn. *)

\* All rows of the query have been looked at.
Gathered ==
    /\ db \in Graphs
    /\ asked.op \in {"flow", "expand"}
    /\ RowsGrouped(byURN, order, FlowRows)

\* A drawing is made once every row has been looked at.
LEMMA DrawnIsGathered ==
  ASSUME FlowInv, Drawn
  PROVE  Gathered /\ answer.children = Children
<1>1. db \in Graphs /\ Grouping /\ rows = {} /\ answer.children = Children
  BY DEF FlowInv
<1>2. FlowRows \ rows = FlowRows
  BY <1>1
<1> QED BY <1>1, <1>2 DEF Grouping, Gathered

\* The steps in the order they were found, as they are sorted.
Found == [i \in DOMAIN order |-> [urn |-> order[i], index |-> byURN[order[i]].index]]

\* What is sorted names each decodable step once, with the index of its edge.
LEMMA FoundGathers ==
  ASSUME Gathered
  PROVE  /\ Len(order) \in Nat
         /\ DOMAIN Found = 1..Len(order)
         /\ \A i \in 1..Len(order) : Found[i].urn = order[i] /\ order[i] \in DOMAIN byURN
         /\ Gathers(Found, Len(order), Contained(asked.urn))
<1> DEFINE n == Len(order)
<1>1. /\ order \in Seq(Step)
      /\ \A i, j \in DOMAIN order : order[i] = order[j] => i = j
      /\ DOMAIN byURN = {order[i] : i \in DOMAIN order}
      /\ DOMAIN byURN = DecodedSteps(FlowRows)
      /\ \A u \in DOMAIN byURN : StepGrouped(byURN[u], u, FlowRows)
  BY DEF Gathered, RowsGrouped, DecodedSteps
<1>2. n \in Nat /\ DOMAIN order = 1..n
  BY <1>1
<1> HIDE DEF n
<1>3. DOMAIN Found = 1..n
  BY <1>2 DEF Found
<1>4. \A i \in 1..n : /\ Found[i].urn = order[i]
                     /\ Found[i].index = byURN[order[i]].index
                     /\ order[i] \in DOMAIN byURN
  BY <1>1, <1>2 DEF Found
<1>5. ASSUME NEW i \in 1..n
      PROVE  \E e \in Contained(asked.urn) :
                /\ Decodable(e.to) /\ e.to = Found[i].urn /\ e.index = Found[i].index
                /\ e.index \in Nat
  <2>1. PICK r \in FlowRows : r.child.to = order[i] /\ byURN[order[i]].index = r.child.index
    BY <1>1, <1>4 DEF StepGrouped
  <2>2. r.child \in Contained(asked.urn) /\ r.child.index \in Nat
    BY RowHolds, RowTyped DEF Gathered
  <2>3. Decodable(order[i])
    BY <1>1, <1>4 DEF DecodedSteps
  <2> QED BY <1>4, <2>1, <2>2, <2>3
<1>6. ASSUME NEW e \in Contained(asked.urn), Decodable(e.to)
      PROVE  \E i \in 1..n : Found[i].urn = e.to
  <2>1. PICK r \in FlowRows : r.child = e
    BY RowsCover DEF Gathered
  <2>2. e.to \in DOMAIN byURN
    BY <1>1, <1>6, <2>1 DEF DecodedSteps
  <2>3. PICK i \in 1..n : order[i] = e.to
    BY <1>1, <1>2, <2>2
  <2> QED BY <1>4, <2>3
<1>7. \A i \in 1..n : Found[i].index \in Nat
  BY <1>5
<1>8. \A i, j \in 1..n : Found[i].urn = Found[j].urn => i = j
  BY <1>1, <1>2, <1>4
<1>9. Gathers(Found, n, Contained(asked.urn))
  BY <1>3, <1>5, <1>6, <1>7, <1>8 DEF Gathers, Indexed
<1> QED BY <1>2, <1>3, <1>4, <1>9 DEF n

\* A step as it is drawn.
DrawnStep(u) == [urn |-> u, slot |-> byURN[u].slot, branches |-> Materialize(byURN[u])]

\* The answer draws the sorted steps, each with what was gathered for it.
LEMMA ChildrenShow ==
  ASSUME Gathered
  PROVE  /\ Shows(Children, Found, Len(order))
         /\ \A i \in DOMAIN Children : /\ Children[i] = DrawnStep(Children[i].urn)
                                      /\ Children[i].urn \in DOMAIN byURN
<1> DEFINE n == Len(order)
           sorted == SortStable(Found)
<1>1. /\ n \in Nat
      /\ DOMAIN Found = 1..n
      /\ Indexed(Found, n)
      /\ \A i \in 1..n : Found[i].urn \in DOMAIN byURN
  BY FoundGathers DEF Gathers
<1>2. /\ At(Found) \in [1..n -> 1..n]
      /\ sorted = [m \in 1..n |-> Found[At(Found)[m]]]
  BY <1>1, SortsByIndex
<1>3. \A i \in 1..n : sorted[i].urn \in DOMAIN byURN
  BY <1>1, <1>2
<1>4. Children = [i \in DOMAIN sorted |->
                    [urn |-> sorted[i].urn, slot |-> byURN[sorted[i].urn].slot,
                     branches |-> Materialize(byURN[sorted[i].urn])]]
  BY DEF Children, Found
<1>5. DOMAIN sorted = 1..n
  BY <1>2
<1> HIDE DEF sorted, n
<1>6. Children = [i \in 1..n |-> DrawnStep(sorted[i].urn)]
  BY <1>4, <1>5 DEF DrawnStep
<1>7. \A i \in 1..n : Children[i].urn = sorted[i].urn
  BY <1>6 DEF DrawnStep
<1>8. DOMAIN Children = 1..n /\ Len(Children) = n
  BY <1>1, <1>6
<1>9. \A i \in 1..n : Children[i] = DrawnStep(Children[i].urn)
  BY <1>6, <1>7
<1>10. Shows(Children, Found, n)
  BY <1>7, <1>8 DEF Shows, sorted
<1> QED BY <1>3, <1>7, <1>8, <1>9, <1>10 DEF n

\* The rows that say something of a step's branch: they bind its block, and
\* the child the block holds.
LEMMA AddingRowSays ==
  ASSUME Gathered, NEW u, NEW r \in AddingRows(u, FlowRows)
  PROVE  /\ asked.op = "flow"
         /\ r.branch \in Branches(u) /\ r.branch.label # Absent
         /\ r.kid = Absent => Contained(r.branch.to) = {}
         /\ r.kid # Absent => /\ r.kid \in Contained(r.branch.to)
                              /\ r.kid \in Under(u, r.branch.label)
                              /\ Decodable(r.kid.to)
                              /\ r.kid.index \in Nat
                              /\ r.kidCall \in Optional(Calls(r.kid.to))
<1>1. r \in FlowRows /\ r.child.to = u /\ Adds(r)
  BY DEF AddingRows
<1>2. /\ asked.op = "flow"
      /\ r.branch \in Branches(u)
      /\ r.branch.label # Absent
      /\ r.kid \in Optional(Contained(r.branch.to))
      /\ r.kid # Absent => r.kid \in Contained(r.branch.to) /\ r.kidCall \in Optional(Calls(r.kid.to))
      /\ r.kid # Absent => Decodable(r.kid.to)
  BY <1>1, RowHolds DEF Gathered, Adds
<1>3. Absent \notin Contained(r.branch.to)
  BY GraphSays DEF Gathered, Contained
<1>4. r.kid = Absent => Contained(r.branch.to) = {}
  BY <1>2, <1>3 DEF Optional
<1>5. r.kid # Absent => r.kid \in Under(u, r.branch.label) /\ r.kid.index \in Nat
  BY <1>2, GraphSays DEF Under, Gathered, Contained
<1> QED BY <1>2, <1>4, <1>5

\* And each block and each of its children has one.
LEMMA AddingRowExists ==
  ASSUME Gathered, asked.op = "flow", NEW u \in DOMAIN byURN,
         NEW b \in Branches(u), b.label # Absent
  PROVE  /\ Contained(b.to) = {} =>
                \E r \in AddingRows(u, FlowRows) : r.branch = b /\ r.kid = Absent
         /\ \A k \in Contained(b.to) : Decodable(k.to) =>
                \E r \in AddingRows(u, FlowRows) : r.branch = b /\ r.kid = k /\ r.kid # Absent
<1>1. PICK x \in FlowRows : x.child.to = u
  BY DEF Gathered, RowsGrouped
<1>2. x.child \in Contained(asked.urn) /\ b \in Branches(x.child.to)
  BY <1>1, RowHolds DEF Gathered
<1>3. /\ b # Absent
      /\ Contained(b.to) = {} =>
            \E r \in FlowRows : r.child = x.child /\ r.branch = b /\ r.kid = Absent
      /\ \A k \in Contained(b.to) :
            k # Absent /\ \E r \in FlowRows : r.child = x.child /\ r.branch = b /\ r.kid = k
  BY <1>2, RowsCover DEF Gathered
<1>4. ASSUME Contained(b.to) = {}
      PROVE  \E r \in AddingRows(u, FlowRows) : r.branch = b /\ r.kid = Absent
  <2>1. PICK r \in FlowRows : r.child = x.child /\ r.branch = b /\ r.kid = Absent
    BY <1>3, <1>4
  <2>2. r \in AddingRows(u, FlowRows)
    BY <1>1, <1>3, <2>1 DEF AddingRows, Adds
  <2> QED BY <2>1, <2>2
<1>5. ASSUME NEW k \in Contained(b.to), Decodable(k.to)
      PROVE  \E r \in AddingRows(u, FlowRows) : r.branch = b /\ r.kid = k /\ r.kid # Absent
  <2>1. k # Absent /\ \E r \in FlowRows : r.child = x.child /\ r.branch = b /\ r.kid = k
    BY <1>3
  <2>2. PICK r \in FlowRows : r.child = x.child /\ r.branch = b /\ r.kid = k
    BY <2>1
  <2>3. r \in AddingRows(u, FlowRows)
    BY <1>1, <1>3, <1>5, <2>2 DEF AddingRows, Adds
  <2> QED BY <2>1, <2>2, <2>3
<1> QED BY <1>4, <1>5

\* The branches that were gathered are those of the graph.
LEMMA BranchesOfGraph ==
  ASSUME Gathered, NEW u \in DOMAIN byURN
  PROVE  /\ BranchesGrouped(byURN[u].branches, AddingRows(u, FlowRows))
         /\ DOMAIN byURN[u].branches = IF asked.op = "flow" THEN Labels(u) ELSE {}
<1>1. BranchesGrouped(byURN[u].branches, AddingRows(u, FlowRows))
  BY DEF Gathered, RowsGrouped, StepGrouped, AddingRows
<1>2. DOMAIN byURN[u].branches = {r.branch.label : r \in AddingRows(u, FlowRows)}
  BY <1>1 DEF BranchesGrouped
<1>3. ASSUME NEW r \in AddingRows(u, FlowRows)
      PROVE  asked.op = "flow" /\ r.branch.label \in Labels(u)
  <2>1. /\ asked.op = "flow" /\ r.branch \in Branches(u) /\ r.branch.label # Absent
        /\ Contained(r.branch.to) = {} \/ \E k \in Contained(r.branch.to) : Decodable(k.to)
    BY AddingRowSays
  <2> QED BY <2>1 DEF Labels
<1>4. ASSUME asked.op = "flow", NEW l \in Labels(u)
      PROVE  \E r \in AddingRows(u, FlowRows) : r.branch.label = l
  <2>1. PICK b \in Branches(u) :
            /\ b.label = l /\ b.label # Absent
            /\ Contained(b.to) = {} \/ \E k \in Contained(b.to) : Decodable(k.to)
    BY DEF Labels
  <2> QED BY <1>4, <2>1, AddingRowExists
<1>5. CASE asked.op = "flow"
  <2>1. {r.branch.label : r \in AddingRows(u, FlowRows)} = Labels(u)
    BY <1>3, <1>4, <1>5
  <2> QED BY <1>1, <1>2, <1>5, <2>1
<1>6. CASE asked.op # "flow"
  <2>1. AddingRows(u, FlowRows) = {}
    BY <1>3, <1>6
  <2> QED BY <1>1, <1>2, <1>6, <2>1
<1> QED BY <1>5, <1>6

\* The children gathered under a label are those of its blocks.
LEMMA KidsOfGraph ==
  ASSUME Gathered, NEW u \in DOMAIN byURN, NEW l \in DOMAIN byURN[u].branches
  PROVE  LET kids == byURN[u].branches[l]
         IN  /\ Len(kids) \in Nat
             /\ Gathers(kids, Len(kids), Under(u, l))
             /\ \A i \in 1..Len(kids) :
                    \E k \in Under(u, l), t \in Optional(Calls(kids[i].urn)) :
                        k.to = kids[i].urn /\ kids[i].slot = Slot(kids[i].urn, t)
<1> DEFINE kids == byURN[u].branches[l]
           n == Len(kids)
           K == {r \in AddingRows(u, FlowRows) : r.branch.label = l /\ r.kid # Absent}
<1>1. /\ kids \in Seq(FlowKid)
      /\ \A i \in DOMAIN kids : \E r \in K : kids[i] = Kid(r)
      /\ \A r \in K : \E i \in DOMAIN kids : kids[i].urn = r.kid.to
      /\ \A i, j \in DOMAIN kids : kids[i].urn = kids[j].urn => i = j
  BY BranchesOfGraph DEF BranchesGrouped, KidsGrouped
<1>2. asked.op = "flow" /\ l # Absent
  <2>1. PICK r \in AddingRows(u, FlowRows) : r.branch.label = l
    BY BranchesOfGraph DEF BranchesGrouped
  <2> QED BY <2>1, AddingRowSays
<1> HIDE DEF kids
<1>3. n \in Nat /\ DOMAIN kids = 1..n
  BY <1>1
<1> HIDE DEF n, K
<1>4. ASSUME NEW i \in 1..n
      PROVE  /\ \E e \in Under(u, l) : /\ Decodable(e.to) /\ e.to = kids[i].urn
                                        /\ e.index = kids[i].index /\ e.index \in Nat
             /\ \E t \in Optional(Calls(kids[i].urn)) : kids[i].slot = Slot(kids[i].urn, t)
  <2>1. PICK r \in K : kids[i] = Kid(r)
    BY <1>1, <1>3
  <2>2. /\ r.kid \in Under(u, l) /\ Decodable(r.kid.to) /\ r.kid.index \in Nat
        /\ r.kidCall \in Optional(Calls(r.kid.to))
    BY AddingRowSays DEF K
  <2>3. /\ kids[i].urn = r.kid.to /\ kids[i].index = r.kid.index
        /\ kids[i].slot = Slot(r.kid.to, r.kidCall)
    BY <2>1 DEF Kid
  <2> QED BY <2>2, <2>3
<1>5. ASSUME NEW e \in Under(u, l), Decodable(e.to)
      PROVE  \E i \in 1..n : kids[i].urn = e.to
  <2>1. PICK b \in Branches(u) : b.label = l /\ e \in Contained(b.to)
    BY DEF Under
  <2>2. PICK r \in AddingRows(u, FlowRows) : r.branch = b /\ r.kid = e /\ r.kid # Absent
    BY <1>2, <1>5, <2>1, AddingRowExists
  <2>3. r \in K
    BY <2>1, <2>2 DEF K
  <2> QED BY <1>1, <1>3, <2>2, <2>3
<1>6. Gathers(kids, n, Under(u, l))
  <2>1. \A i \in 1..n : kids[i].index \in Nat
    BY <1>4
  <2> QED BY <1>1, <1>3, <1>4, <1>5, <2>1 DEF Gathers, Indexed
<1>7. \A i \in 1..n : \E k \in Under(u, l), t \in Optional(Calls(kids[i].urn)) :
            k.to = kids[i].urn /\ kids[i].slot = Slot(kids[i].urn, t)
  BY <1>4
<1> QED BY <1>3, <1>6, <1>7 DEF kids, n

\* A branch as it is drawn: its children, sorted, without their index.
LEMMA MaterializeShows ==
  ASSUME NEW agg, NEW l \in DOMAIN agg.branches, NEW n \in Nat, Indexed(agg.branches[l], n)
  PROVE  LET kids == agg.branches[l]
             drawn == Materialize(agg)[l]
         IN  /\ Shows(drawn, kids, n)
             /\ drawn = [j \in 1..n |-> drawn[j]]
             /\ \A j \in 1..n : \E i \in 1..n :
                    drawn[j] = [urn |-> kids[i].urn, slot |-> kids[i].slot]
<1> DEFINE kids == agg.branches[l]
           sorted == SortStable(kids)
           drawn == Materialize(agg)[l]
<1>1. /\ At(kids) \in [1..n -> 1..n]
      /\ sorted = [m \in 1..n |-> kids[At(kids)[m]]]
  <2>1. Indexed(kids, n)
    OBVIOUS
  <2> HIDE DEF kids
  <2> QED BY <2>1, SortsByIndex
<1>2. DOMAIN sorted = 1..n
  BY <1>1
<1>3. drawn = [j \in DOMAIN sorted |-> [urn |-> sorted[j].urn, slot |-> sorted[j].slot]]
  BY DEF Materialize
<1> HIDE DEF sorted, drawn, kids
<1>4. drawn = [j \in 1..n |-> [urn |-> sorted[j].urn, slot |-> sorted[j].slot]]
  BY <1>2, <1>3
<1>5. /\ DOMAIN drawn = 1..n /\ Len(drawn) = n /\ \A j \in 1..n : drawn[j].urn = sorted[j].urn
      /\ drawn = [j \in 1..n |-> drawn[j]]
  BY <1>4
<1>6. ASSUME NEW j \in 1..n
      PROVE  \E i \in 1..n : drawn[j] = [urn |-> kids[i].urn, slot |-> kids[i].slot]
  <2>1. At(kids)[j] \in 1..n /\ sorted[j] = kids[At(kids)[j]]
    BY <1>1
  <2> QED BY <1>4, <2>1
<1> QED BY <1>5, <1>6 DEF Shows, sorted, drawn, kids

\* A branch as it is drawn and the edges it is drawn from.
LEMMA BranchDrawn ==
  ASSUME Gathered, NEW u \in DOMAIN byURN, NEW l \in DOMAIN byURN[u].branches
  PROVE  LET kids == byURN[u].branches[l]
             n == Len(kids)
             drawn == Materialize(byURN[u])[l]
         IN  /\ n \in Nat
             /\ Gathers(kids, n, Under(u, l)) /\ Shows(drawn, kids, n)
             /\ drawn = [j \in 1..n |-> drawn[j]]
             /\ \A j \in 1..n :
                    \E k \in Under(u, l), t \in Optional(Calls(drawn[j].urn)) :
                        /\ k.to = drawn[j].urn
                        /\ drawn[j] = [urn |-> k.to, slot |-> Slot(drawn[j].urn, t)]
<1> DEFINE kids == byURN[u].branches[l]
           n == Len(kids)
           drawn == Materialize(byURN[u])[l]
<1>1. /\ n \in Nat
      /\ Gathers(kids, n, Under(u, l))
      /\ \A i \in 1..n :
            \E k \in Under(u, l), t \in Optional(Calls(kids[i].urn)) :
                k.to = kids[i].urn /\ kids[i].slot = Slot(kids[i].urn, t)
  BY KidsOfGraph
<1>2. Indexed(kids, n)
  BY <1>1 DEF Gathers
<1>3. /\ Shows(drawn, kids, n)
      /\ drawn = [j \in 1..n |-> drawn[j]]
      /\ \A j \in 1..n : \E i \in 1..n :
            drawn[j] = [urn |-> kids[i].urn, slot |-> kids[i].slot]
  BY <1>1, <1>2, MaterializeShows
<1> HIDE DEF kids, n, drawn
<1>4. ASSUME NEW j \in 1..n
      PROVE  \E k \in Under(u, l), t \in Optional(Calls(drawn[j].urn)) :
                /\ k.to = drawn[j].urn
                /\ drawn[j] = [urn |-> k.to, slot |-> Slot(drawn[j].urn, t)]
  <2>1. PICK i \in 1..n : drawn[j] = [urn |-> kids[i].urn, slot |-> kids[i].slot]
    BY <1>3
  <2>2. drawn[j].urn = kids[i].urn
    BY <2>1
  <2> QED BY <1>1, <2>1, <2>2
<1> QED BY <1>1, <1>3, <1>4 DEF kids, n, drawn

\* Every step and every branch child is drawn once, in the order of its index,
\* however the rows repeated and shuffled them (reader.go:191-192).
THEOREM StepsAreDrawnOnce == ApiSpec => []StepsOnceInOrder
<1>1. ASSUME FlowInv, Drawn
      PROVE  /\ OnceInOrder(answer.children, Contained(asked.urn))
             /\ \A i \in DOMAIN answer.children :
                    \A l \in DOMAIN answer.children[i].branches :
                        OnceInOrder(answer.children[i].branches[l],
                                    Under(answer.children[i].urn, l))
  <2>1. Gathered /\ answer.children = Children
    BY <1>1, DrawnIsGathered
  <2>2. OnceInOrder(Children, Contained(asked.urn))
    BY <2>1, FoundGathers, ChildrenShow, DrawnOnce
  <2>3. ASSUME NEW i \in DOMAIN Children, NEW l \in DOMAIN Children[i].branches
        PROVE  OnceInOrder(Children[i].branches[l], Under(Children[i].urn, l))
    <3> DEFINE u == Children[i].urn
    <3>1. u \in DOMAIN byURN /\ Children[i].branches = Materialize(byURN[u])
      BY <2>1, ChildrenShow DEF DrawnStep
    <3> HIDE DEF u
    <3>2. l \in DOMAIN byURN[u].branches
      BY <2>3, <3>1 DEF Materialize
    <3>3. OnceInOrder(Materialize(byURN[u])[l], Under(u, l))
      BY <2>1, <3>1, <3>2, BranchDrawn, DrawnOnce
    <3> QED BY <3>1, <3>3 DEF u
  <2> QED BY <2>1, <2>2, <2>3
<1>2. FlowInv => StepsOnceInOrder
  BY <1>1 DEF StepsOnceInOrder
<1> QED BY RequestsAreGrouped, <1>2, PTL

\* A step is drawn with the branches the graph gives it, the empty ones too,
\* and ExpandFlow draws none (reader.go:246-249, 363-379).
THEOREM BranchesAreDrawn == ApiSpec => []BranchesComplete
<1>1. ASSUME FlowInv, Drawn, NEW i \in DOMAIN answer.children
      PROVE  DOMAIN answer.children[i].branches =
                IF asked.op = "flow" THEN Labels(answer.children[i].urn) ELSE {}
  <2>1. Gathered /\ answer.children = Children
    BY <1>1, DrawnIsGathered
  <2> DEFINE u == Children[i].urn
  <2>2. u \in DOMAIN byURN /\ Children[i].branches = Materialize(byURN[u])
    BY <1>1, <2>1, ChildrenShow DEF DrawnStep
  <2> HIDE DEF u
  <2>3. DOMAIN Materialize(byURN[u]) = DOMAIN byURN[u].branches
    BY DEF Materialize
  <2>4. DOMAIN byURN[u].branches = IF asked.op = "flow" THEN Labels(u) ELSE {}
    BY <2>1, <2>2, BranchesOfGraph
  <2> QED BY <2>1, <2>2, <2>3, <2>4 DEF u
<1>2. FlowInv => BranchesComplete
  BY <1>1 DEF BranchesComplete
<1> QED BY RequestsAreGrouped, <1>2, PTL

\* The slot of a call whose targets all decode is one of them.
LEMMA SlotFollows ==
  ASSUME db \in Graphs, NEW step, NEW t \in Optional(Calls(step.urn)),
         step.slot = Slot(step.urn, t)
  PROVE  FollowsAnEdge(step)
<1> SUFFICES ASSUME db.kind[step.urn] \in {"Call", "Consume"}, Calls(step.urn) # {},
                    \A x \in Calls(step.urn) : Decodable(x.to)
             PROVE  \E x \in Calls(step.urn) : step.slot = x.to
  BY DEF FollowsAnEdge
<1>1. t \in Calls(step.urn)
  BY DEF Optional
<1>2. t # Absent
  BY <1>1, GraphSays DEF Calls
<1>3. step.slot = t.to
  BY <1>1, <1>2 DEF Slot
<1> QED BY <1>1, <1>3

\* The slot of a step that was found comes from one of its rows.
LEMMA StepSlot ==
  ASSUME Gathered, NEW u \in DOMAIN byURN
  PROVE  /\ \E t \in Optional(Calls(u)) : byURN[u].slot = Slot(u, t)
         /\ \E c \in Contained(asked.urn) : c.to = u
<1>1. PICK r \in FlowRows : r.child.to = u /\ byURN[u].slot = Slot(u, r.call)
  BY DEF Gathered, RowsGrouped, StepGrouped
<1> QED BY <1>1, RowHolds DEF Gathered

\* An edge, where it decodes, decides what a call expands to, at the top and in
\* the branches; never the property a load or a linker left (reader.go:303-334).
THEOREM SlotsAreFollowed == ApiSpec => []SlotsFollowEdges
<1>1. ASSUME FlowInv, Drawn, NEW i \in DOMAIN answer.children
      PROVE  LET c == answer.children[i]
             IN  /\ FollowsAnEdge(c)
                 /\ \A l \in DOMAIN c.branches : \A j \in DOMAIN c.branches[l] :
                        FollowsAnEdge(c.branches[l][j])
  <2>1. Gathered /\ answer.children = Children /\ db \in Graphs
    BY <1>1, DrawnIsGathered DEF Gathered
  <2> DEFINE c == Children[i]
             u == c.urn
  <2>2. u \in DOMAIN byURN /\ c.slot = byURN[u].slot /\ c.branches = Materialize(byURN[u])
    BY <1>1, <2>1, ChildrenShow DEF DrawnStep
  <2> HIDE DEF c
  <2>3. FollowsAnEdge(c)
    BY <2>1, <2>2, StepSlot, SlotFollows
  <2> HIDE DEF u
  <2>4. ASSUME NEW l \in DOMAIN c.branches, NEW j \in DOMAIN c.branches[l]
        PROVE  FollowsAnEdge(c.branches[l][j])
    <3> DEFINE drawn == Materialize(byURN[u])[l]
               n == Len(byURN[u].branches[l])
    <3>1. l \in DOMAIN byURN[u].branches
      BY <2>2, <2>4 DEF Materialize
    <3>2. /\ Shows(drawn, byURN[u].branches[l], n)
          /\ \A m \in 1..n :
                \E k \in Under(u, l), t \in Optional(Calls(drawn[m].urn)) :
                    /\ k.to = drawn[m].urn
                    /\ drawn[m] = [urn |-> k.to, slot |-> Slot(drawn[m].urn, t)]
      BY <2>1, <2>2, <3>1, BranchDrawn
    <3> HIDE DEF drawn, n
    <3>3. c.branches[l] = drawn
      BY <2>2 DEF drawn
    <3>4. j \in 1..n
      BY <2>4, <3>2, <3>3 DEF Shows
    <3>5. PICK k \in Under(u, l), t \in Optional(Calls(drawn[j].urn)) :
                drawn[j] = [urn |-> k.to, slot |-> Slot(drawn[j].urn, t)]
      BY <3>2, <3>4
    <3>6. drawn[j].slot = Slot(drawn[j].urn, t)
      BY <3>5
    <3>7. FollowsAnEdge(drawn[j])
      BY <2>1, <3>6, SlotFollows
    <3> QED BY <3>3, <3>7
  <2> QED BY <2>1, <2>3, <2>4 DEF c
<1>2. FlowInv => SlotsFollowEdges
  BY <1>1 DEF SlotsFollowEdges
<1> QED BY RequestsAreGrouped, <1>2, PTL

\* A call with one target at most has one slot.
LEMMA OneSlot ==
  ASSUME db \in Graphs, NEW u, Cardinality(Calls(u)) <= 1, NEW t \in Optional(Calls(u))
  PROVE  TheSlot(u) = Slot(u, t)
<1>1. IsFiniteSet(Calls(u))
  BY GraphSays, FS_Subset DEF Calls
<1>2. Cardinality(Calls(u)) \in Nat
  BY <1>1, FS_CardinalityType
<1>3. Cardinality(Calls(u)) = 0 \/ Cardinality(Calls(u)) = 1
  BY <1>2
<1>4. Calls(u) = {} \/ \E x : Calls(u) = {x}
  BY <1>1, <1>3, FS_EmptySet, FS_Singleton
<1>5. Optional(Calls(u)) = {t}
  BY <1>4 DEF Optional
<1>6. {Slot(u, x) : x \in Optional(Calls(u))} = {Slot(u, t)}
  BY <1>5
<1> QED BY <1>6 DEF TheSlot

\* The edges of a graph are such as InOrder can order.
LEMMA EdgesOrdered ==
  ASSUME db \in Graphs, NEW u, NEW l
  PROVE  /\ IsFiniteSet(Contained(u)) /\ \A e \in Contained(u) : e.index \in Nat
         /\ IsFiniteSet(Under(u, l)) /\ \A e \in Under(u, l) : e.index \in Nat
<1>1. Contained(u) \subseteq db.edges /\ Under(u, l) \subseteq db.edges
  BY DEF Contained, Under
<1> QED BY <1>1, GraphSays, FS_Subset

\* A branch of a definite graph is drawn as the graph has it ...
LEMMA TheBranch ==
  ASSUME Gathered, NEW u \in DOMAIN byURN, NEW l \in DOMAIN byURN[u].branches,
         Distinct(Under(u, l)), \A k \in Under(u, l) : Cardinality(Calls(k.to)) <= 1
  PROVE  LET kids == InOrder(Under(u, l))
         IN  Materialize(byURN[u])[l] =
                [j \in DOMAIN kids |-> [urn |-> kids[j], slot |-> TheSlot(kids[j])]]
<1> DEFINE gathered == byURN[u].branches[l]
           n == Len(gathered)
           drawn == Materialize(byURN[u])[l]
           kids == InOrder(Under(u, l))
<1>1. /\ n \in Nat
      /\ Gathers(gathered, n, Under(u, l)) /\ Shows(drawn, gathered, n)
      /\ drawn = [j \in 1..n |-> drawn[j]]
      /\ \A j \in 1..n :
            \E k \in Under(u, l), t \in Optional(Calls(drawn[j].urn)) :
                /\ k.to = drawn[j].urn
                /\ drawn[j] = [urn |-> k.to, slot |-> Slot(drawn[j].urn, t)]
  BY BranchDrawn
<1> HIDE DEF gathered, n, drawn
<1>2. kids = [j \in 1..n |-> drawn[j].urn]
  BY <1>1, EdgesOrdered, DrawnInOrder DEF Gathered
<1> HIDE DEF kids
<1>3. ASSUME NEW j \in 1..n PROVE drawn[j] = [urn |-> kids[j], slot |-> TheSlot(kids[j])]
  <2>1. PICK k \in Under(u, l), t \in Optional(Calls(drawn[j].urn)) :
            /\ k.to = drawn[j].urn
            /\ drawn[j] = [urn |-> k.to, slot |-> Slot(drawn[j].urn, t)]
    BY <1>1
  <2>2. Cardinality(Calls(drawn[j].urn)) <= 1
    <3>1. Cardinality(Calls(k.to)) <= 1
      OBVIOUS
    <3> QED BY <2>1, <3>1, Zenon
  <2>3. TheSlot(drawn[j].urn) = Slot(drawn[j].urn, t)
    BY <2>2, OneSlot DEF Gathered
  <2> QED BY <1>2, <2>1, <2>3
<1>4. drawn = [j \in 1..n |-> [urn |-> kids[j], slot |-> TheSlot(kids[j])]]
  BY <1>1, <1>3
<1>5. DOMAIN kids = 1..n
  BY <1>2
<1> QED BY <1>4, <1>5 DEF drawn, kids

\* ... and so are its steps.
Drawing(c) ==
    [urn |-> c, slot |-> TheSlot(c),
     branches |->
        [l \in IF asked.op = "flow" THEN Labels(c) ELSE {} |->
            [j \in DOMAIN InOrder(Under(c, l)) |->
                [urn |-> InOrder(Under(c, l))[j], slot |-> TheSlot(InOrder(Under(c, l))[j])]]]]

\* Where siblings differ in index and a call has one target, a step is drawn as
\* Drawing says, which names no row.
LEMMA TheStep ==
  ASSUME Gathered, Definite(asked.urn), NEW u \in DOMAIN byURN
  PROVE  DrawnStep(u) = Drawing(u)
<1>1. PICK c \in Contained(asked.urn) : c.to = u
  BY StepSlot
<1>2. /\ Cardinality(Calls(c.to)) <= 1
      /\ \A l \in Label :
            /\ Distinct(Under(c.to, l))
            /\ \A k \in Under(c.to, l) : Cardinality(Calls(k.to)) <= 1
  BY DEF Definite
<1>3. /\ Cardinality(Calls(u)) <= 1
      /\ \A l \in Label :
            /\ Distinct(Under(u, l))
            /\ \A k \in Under(u, l) : Cardinality(Calls(k.to)) <= 1
  BY <1>1, <1>2, Zenon
<1>4. byURN[u].slot = TheSlot(u)
  <2>1. PICK t \in Optional(Calls(u)) : byURN[u].slot = Slot(u, t)
    BY StepSlot
  <2> QED BY <1>3, <2>1, OneSlot DEF Gathered
<1> DEFINE labels == IF asked.op = "flow" THEN Labels(u) ELSE {}
           kids(l) == InOrder(Under(u, l))
<1>5. DOMAIN byURN[u].branches = labels
  BY BranchesOfGraph
<1>6. labels \subseteq Label
  BY GraphSays DEF Labels, Branches, Gathered
<1>7. ASSUME NEW l \in labels
      PROVE  Materialize(byURN[u])[l] =
                [j \in DOMAIN kids(l) |-> [urn |-> kids(l)[j], slot |-> TheSlot(kids(l)[j])]]
  BY <1>3, <1>5, <1>6, TheBranch
<1>8. Materialize(byURN[u]) = [l \in labels |-> Materialize(byURN[u])[l]]
  BY <1>5 DEF Materialize
<1>9. Materialize(byURN[u]) =
        [l \in labels |->
            [j \in DOMAIN kids(l) |-> [urn |-> kids(l)[j], slot |-> TheSlot(kids(l)[j])]]]
  BY <1>7, <1>8, Zenon
<1> QED BY <1>4, <1>9, Zenon DEF DrawnStep, Drawing

\* One graph, one drawing: where siblings have different indices and a call has
\* one target, the answer is a function of the graph and the request, not of the
\* order of the rows (reader.go:268-297).
THEOREM OneGraphOneDrawing == ApiSpec => []OneDrawing
<1>1. ASSUME FlowInv, Drawn, Definite(asked.urn)
      PROVE  answer.children = Tree(asked.urn)
  <2> DEFINE n == Len(order)
             ordered == InOrder(Contained(asked.urn))
  <2>1. Gathered /\ answer.children = Children
    BY <1>1, DrawnIsGathered
  <2>2. /\ n \in Nat
        /\ Gathers(Found, n, Contained(asked.urn))
        /\ Shows(Children, Found, n)
    BY <2>1, FoundGathers, ChildrenShow
  <2> HIDE DEF n
  <2>3. ordered = [i \in 1..n |-> Children[i].urn]
    <3>1. Distinct(Contained(asked.urn))
      BY <1>1 DEF Definite
    <3>2. /\ IsFiniteSet(Contained(asked.urn))
          /\ \A e \in Contained(asked.urn) : e.index \in Nat
      BY <2>1, EdgesOrdered DEF Gathered
    <3> QED BY <2>2, <3>1, <3>2, DrawnInOrder
  <2>4. DOMAIN Children = 1..n
    BY <2>2 DEF Shows
  <2>5. Children = [i \in DOMAIN Children |-> Children[i]]
    <3> DEFINE sorted == SortStable([i \in DOMAIN order |->
                            [urn |-> order[i], index |-> byURN[order[i]].index]])
    <3>1. Children = [i \in DOMAIN sorted |->
                        [urn |-> sorted[i].urn, slot |-> byURN[sorted[i].urn].slot,
                         branches |-> Materialize(byURN[sorted[i].urn])]]
      BY DEF Children
    <3> HIDE DEF sorted
    <3> QED BY <3>1
  <2> HIDE DEF ordered
  <2>6. ASSUME NEW i \in 1..n PROVE Children[i] = Drawing(ordered[i])
    <3>1. /\ Children[i] = DrawnStep(Children[i].urn)
          /\ Children[i].urn \in DOMAIN byURN
      BY <2>1, <2>4, ChildrenShow
    <3>2. ordered[i] = Children[i].urn
      BY <2>3
    <3> QED BY <1>1, <2>1, <3>1, <3>2, TheStep
  <2>7. DOMAIN ordered = 1..n
    BY <2>3
  <2>8. Children = [i \in DOMAIN ordered |-> Drawing(ordered[i])]
    BY <2>4, <2>5, <2>6, <2>7
  <2>9. Tree(asked.urn) = [i \in DOMAIN ordered |-> Drawing(ordered[i])]
    BY DEF Tree, Drawing, ordered
  <2> QED BY <2>1, <2>8, <2>9
<1>2. FlowInv => OneDrawing
  BY <1>1 DEF OneDrawing
<1> QED BY RequestsAreGrouped, <1>2, PTL

----------------------------------------------------------------------------
(* The end of the process. *)

\* The process begins with its driver closed and no request.
LEMMA InitHolds == ApiInit => ApiInv
<1> SUFFICES ASSUME ApiInit PROVE ApiInv
  OBVIOUS
<1>1. ApiTypeOK /\ main = "opening" /\ Idle /\ ~timedOut
  BY DEF ApiInit, FlowInit, ApiTypeOK, Idle, InHandler
<1>2. answer.error = "none" /\ \A r \in Others : others[r] = "none"
  BY DEF ApiInit, FlowInit, Nothing
<1> QED BY <1>1, <1>2 DEF ApiInv

\* What the main goroutine does touches no request.
LEMMA MainKeepsInv ==
  ASSUME ApiInv, OpenDriver \/ OpenFails \/ ListenFails \/ Signal \/ MainStep
  PROVE  ApiInv'
<1>1. CASE OpenDriver
  BY <1>1 DEF ApiInv, ApiTypeOK, OpenDriver, Goes, flowVars, Idle, InHandler
<1>2. CASE OpenFails
  BY <1>2 DEF ApiInv, ApiTypeOK, OpenFails, Goes, flowVars, Idle, InHandler
<1>3. CASE ListenFails
  BY <1>3 DEF ApiInv, ApiTypeOK, ListenFails, Goes, flowVars, Idle, InHandler
<1>4. CASE Signal
  BY <1>4 DEF ApiInv, ApiTypeOK, Signal, Goes, flowVars, Idle, InHandler
<1>5. CASE Drained
  BY <1>5 DEF ApiInv, ApiTypeOK, Drained, Goes, flowVars, Idle, InHandler
<1>6. CASE ShutdownTimesOut
  BY <1>6 DEF ApiInv, ApiTypeOK, ShutdownTimesOut, Goes, flowVars, Idle, InHandler
<1>7. CASE CloseDriver
  BY <1>7 DEF ApiInv, ApiTypeOK, CloseDriver, Goes, flowVars, Idle, InHandler
<1>8. CASE Exit
  BY <1>8 DEF ApiInv, ApiTypeOK, Exit, Goes, flowVars, Idle, InHandler
<1> QED BY <1>1, <1>2, <1>3, <1>4, <1>5, <1>6, <1>7, <1>8 DEF MainStep

\* Only a closed driver makes a query fail for it.
ClosedAnswer == answer.error = "driver closed"

\* A request that arrives is answered by no closed driver.
LEMMA ArriveAnswer == ASSUME Arrive PROVE ClosedAnswer' => ClosedAnswer
<1>1. ASSUME NEW op, NEW u, Receive(op, u) PROVE answer' = answer
  BY <1>1 DEF Receive
<1>2. CASE MissingParameter
  BY <1>2 DEF MissingParameter, SendError, ClosedAnswer
<1> QED BY <1>1, <1>2 DEF Arrive, ClosedAnswer

\* A query that is answered, or that the driver fails, meets no closed driver.
LEMMA QueryAnswer ==
  ASSUME Query \/ QueryFails("driver")
  PROVE  InHandler /\ (ClosedAnswer' => ClosedAnswer)
<1>1. CASE LoadEndpointFlow
  <2>1. InHandler
    BY <1>1 DEF LoadEndpointFlow, Asked, InHandler
  <2>2. CASE answer' = answer
    BY <2>1, <2>2 DEF ClosedAnswer
  <2>3. CASE SendError(StatusFromErr("no record"), "no record")
    BY <2>1, <2>3 DEF SendError, ClosedAnswer
  <2> QED BY <1>1, <2>2, <2>3 DEF LoadEndpointFlow, Group
<1>2. CASE ExpandFlow
  <2>1. InHandler
    BY <1>2 DEF ExpandFlow, Asked, InHandler
  <2>2. CASE answer' = answer
    BY <2>1, <2>2 DEF ClosedAnswer
  <2>3. CASE SendTree(FALSE, <<>>)
    BY <2>1, <2>3 DEF SendTree, ClosedAnswer
  <2> QED BY <1>2, <2>2, <2>3 DEF ExpandFlow, Group
<1>3. CASE QueryFails("driver")
  BY <1>3 DEF QueryFails, SendError, InHandler, ClosedAnswer
<1> QED BY <1>1, <1>2, <1>3 DEF Query

\* Drawing an answer asks the driver nothing.
LEMMA DrawAnswer ==
  ASSUME Draw
  PROVE  InHandler /\ (ClosedAnswer' => ClosedAnswer)
<1>1. ASSUME NEW r \in rows, SkipRow(r) \/ GroupRow(r)
      PROVE  InHandler /\ answer' = answer
  BY <1>1 DEF SkipRow, GroupRow, InHandler
<1>2. CASE Answer
  BY <1>2 DEF Answer, SendTree, InHandler, ClosedAnswer
<1> QED BY <1>1, <1>2 DEF Draw, ClosedAnswer

\* A step of the flow's handler: a request begins only where connections are
\* open, and any other step is that of a request that had begun.
LEMMA HandlerStep ==
  ASSUME HandleFlow
  PROVE  /\ UNCHANGED <<main, driver, timedOut, others>>
         /\ Up
         /\ Serving \/ InHandler
         /\ ClosedAnswer' => driver = "closed" \/ ClosedAnswer
<1>1. UNCHANGED <<main, driver, timedOut, others>> /\ Up
  BY DEF HandleFlow, serverVars
<1>2. CASE Serving /\ Arrive
  BY <1>1, <1>2, ArriveAnswer
<1>3. CASE Query \/ QueryFails("driver")
  BY <1>1, <1>3, QueryAnswer
<1>4. CASE driver = "closed" /\ QueryFails("driver closed")
  BY <1>1, <1>4 DEF QueryFails, InHandler
<1>5. CASE Draw
  BY <1>1, <1>5, DrawAnswer
<1> QED BY <1>2, <1>3, <1>4, <1>5 DEF HandleFlow

\* The request drawn in detail keeps the invariant.
LEMMA HandlerKeepsInv ==
  ASSUME ApiInv, HandleFlow
  PROVE  ApiInv'
<1>1. /\ main \in {"serving", "draining", "closing", "returning"}
      /\ ~timedOut => main \in {"serving", "draining"}
  BY HandlerStep DEF ApiInv, ApiTypeOK, Up, Serving, Idle
<1>2. /\ UNCHANGED <<main, driver, timedOut, others>>
      /\ ClosedAnswer' => driver = "closed" \/ ClosedAnswer
  BY HandlerStep
<1>3. ASSUME ~timedOut PROVE ~ClosedAnswer'
  <2>1. driver = "open" /\ ~ClosedAnswer
    BY <1>1, <1>3 DEF ApiInv, ClosedAnswer
  <2> QED BY <1>2, <2>1
<1>4. ApiTypeOK'
  BY <1>2 DEF ApiInv, ApiTypeOK
<1>5. main' # "opening" /\ (main' \in {"serving", "draining", "closing"} => driver' = "open")
  BY <1>1, <1>2 DEF ApiInv
<1>6. ASSUME ~timedOut'
      PROVE  /\ main' \notin {"closing", "returning", "ended"}
             /\ answer'.error # "driver closed"
             /\ \A r \in Others : others'[r] # "refused"
  <2>1. ~timedOut
    BY <1>2, <1>6
  <2> QED BY <1>1, <1>2, <1>3, <2>1 DEF ApiInv, ClosedAnswer
<1> QED BY <1>4, <1>5, <1>6 DEF ApiInv

\* So do the requests beside it.
LEMMA OthersKeepInv ==
  ASSUME ApiInv, NEW r \in Others, OtherArrives(r) \/ OtherAnswered(r)
  PROVE  ApiInv'
<1>1. CASE OtherArrives(r)
  BY <1>1 DEF ApiInv, ApiTypeOK, OtherArrives, Serving, Up, flowVars, serverVars, Idle, InHandler
<1>2. CASE OtherAnswered(r)
  <2>1. /\ main \in {"serving", "draining", "closing", "returning"}
        /\ ~timedOut => main \in {"serving", "draining"} /\ driver = "open"
    BY <1>2 DEF ApiInv, ApiTypeOK, OtherAnswered, Up, Idle
  <2>2. ApiTypeOK' /\ main' = main /\ driver' = driver /\ timedOut' = timedOut /\ answer' = answer
    BY <1>2 DEF ApiInv, ApiTypeOK, OtherAnswered, flowVars, serverVars
  <2>3. ASSUME ~timedOut, NEW q \in Others PROVE others'[q] # "refused"
    <3>1. driver = "open" /\ others[q] # "refused"
      BY <2>1, <2>3 DEF ApiInv
    <3> QED BY <1>2, <3>1 DEF ApiInv, ApiTypeOK, OtherAnswered
  <2>4. main' # "opening" /\ (main' \in {"serving", "draining", "closing"} => driver' = "open")
    BY <2>1, <2>2 DEF ApiInv
  <2>5. ASSUME ~timedOut'
        PROVE  /\ main' \notin {"closing", "returning", "ended"}
               /\ answer'.error # "driver closed"
               /\ \A q \in Others : others'[q] # "refused"
    <3>1. ~timedOut
      BY <2>2, <2>5
    <3> QED BY <2>1, <2>2, <2>3, <3>1 DEF ApiInv
  <2> QED BY <2>2, <2>4, <2>5 DEF ApiInv
<1> QED BY <1>1, <1>2

\* And so does every step of the process.
LEMMA StepKeepsInv ==
  ASSUME ApiInv, [ApiNext]_apiVars
  PROVE  ApiInv'
<1>1. CASE UNCHANGED apiVars
  BY <1>1 DEF apiVars, serverVars, flowVars, ApiInv, ApiTypeOK, Idle, InHandler
<1>2. CASE ApiNext
  BY <1>2, MainKeepsInv, HandlerKeepsInv, OthersKeepInv DEF ApiNext
<1> QED BY <1>1, <1>2

\* Whatever the clients ask and however long the queries take, a process that
\* ends after a signal, its five seconds not used up, leaves no request it had
\* begun unanswered and refuses none for a closed driver (main.go:83-96).
THEOREM GracefulShutdown == ApiSpec => []AnsweredBeforeExit
<1>1. ApiInv => AnsweredBeforeExit
  BY DEF ApiInv, AnsweredBeforeExit
<1> QED BY InitHolds, StepKeepsInv, <1>1, PTL DEF ApiSpec
=============================================================================
