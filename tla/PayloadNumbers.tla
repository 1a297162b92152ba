---------------------------- MODULE PayloadNumbers ----------------------------
(****************************************************************************)
(* loader/payload.go: ReadPayload decodes with UseNumber, so that each      *)
(* number of the document is a json.Number (its text), and normalizeNumbers *)
(* then makes int64 or float64 of it.  Metadata is later marshalled into    *)
(* one text property and unmarshalled by every decoder, this time without   *)
(* UseNumber.                                                               *)
(*                                                                          *)
(* A JSON object is a function from the places of its leaves to the leaves. *)
(* A place is a path, the members and the elements that lead to it, so that *)
(* an object inside a list inside an object has a path of three steps.  A   *)
(* number is <<"number", numeral>>, Go's are <<"int", numeral>> and         *)
(* <<"float", numeral>>.                                                    *)
(****************************************************************************)
EXTENDS Naturals, Sequences, FiniteSets

CONSTANTS
    Numeral,    \* the numbers as they are written
    Int64,      \* those ParseInt takes
    Float64,    \* those ParseFloat takes (the others are out of range)
    Nearest,    \* Nearest[x]: the double ParseFloat makes of x
    Other,      \* the leaves that are no number: texts, bools, null, {} and []
    Path,       \* the paths of a document
    MaxLeaves   \* the most leaves a document is grown to

ASSUME NumeralAssumption ==
    /\ Int64 \subseteq Float64
    /\ Float64 \subseteq Numeral
    /\ Nearest \in [Float64 -> Float64]
    /\ \A x \in Float64 : Nearest[Nearest[x]] = Nearest[x]
ASSUME OtherAssumption == \A v \in Other : v[1] \notin {"number", "int", "float"}
\* A document is an object, so that its first step is to a member.
ASSUME PathAssumption ==
    \A p \in Path : /\ p \in Seq(({"map"} \X STRING) \cup ({"list"} \X (Nat \ {0})))
                    /\ p # <<>> /\ p[1][1] = "map"

VARIABLE document

Leaf == ({"number"} \X Numeral) \cup Other

----------------------------------------------------------------------------
(* normalizeNumbers. *)

\* An element of a list that is in neither range stays a json.Number.
NormalizeElement(v) ==
    CASE v[1] = "number" /\ v[2] \in Int64 -> <<"int", v[2]>>
      [] v[1] = "number" /\ v[2] \in Float64 \ Int64 -> <<"float", Nearest[v[2]]>>
      [] OTHER -> v

\* A member of a map becomes its text.
NormalizeMember(v) ==
    IF v[1] = "number" /\ v[2] \notin Float64 THEN <<"string", v[2]>> ELSE NormalizeElement(v)

\* The steps of a path into a list.
ListSteps(p) == {i \in DOMAIN p : p[i][1] = "list"}

\* Mutant: the case of []any is forgotten.
NormalizeFlat(p, v) == IF ListSteps(p) = {} THEN NormalizeMember(v) ELSE v

\* Maps in maps are followed to any depth and the elements of their lists are
\* looked at; what a map or a list inside a list holds is not.
NormalizeLeaf(p, v) ==
    CASE ListSteps(p) = {} -> NormalizeMember(v)
      [] ListSteps(p) = {Len(p)} -> NormalizeElement(v)
      [] OTHER -> v

NormalizeNumbers(m) == [p \in DOMAIN m |-> NormalizeLeaf(p, m[p])]

----------------------------------------------------------------------------
(* The metadata on its way: json.Marshal writes an int64, a float64 and a   *)
(* json.Number alike as a numeral, json.Unmarshal reads float64. *)

IsNumber(v) == v[1] \in {"number", "int", "float"}

Readable(m) == \A p \in DOMAIN m : IsNumber(m[p]) => m[p][2] \in Float64

Unmarshalled(v) == IF IsNumber(v) THEN <<"float", Nearest[v[2]]>> ELSE v

\* optJSONMap: one numeral out of range and the whole map is nil.
ReadBack(m) == IF Readable(m) THEN [p \in DOMAIN m |-> Unmarshalled(m[p])] ELSE <<>>

----------------------------------------------------------------------------
(* A document is grown one leaf at a time. *)

\* Two leaves of a document part in one map or in one list.
Apart(p, q) ==
    \E i \in DOMAIN p \cap DOMAIN q :
        /\ SubSeq(p, 1, i - 1) = SubSeq(q, 1, i - 1)
        /\ p[i] # q[i] /\ p[i][1] = q[i][1]

\* An element is the first or comes behind another.
HasElementBefore(p, d, i) ==
    p[i][2] > 1 => \E q \in DOMAIN d :
                      /\ i \in DOMAIN q /\ SubSeq(q, 1, i - 1) = SubSeq(p, 1, i - 1)
                      /\ q[i] = <<"list", p[i][2] - 1>>

AddLeaf(p, v) ==
    /\ Cardinality(DOMAIN document) < MaxLeaves
    /\ \A q \in DOMAIN document : Apart(p, q)
    /\ \A i \in ListSteps(p) : HasElementBefore(p, document, i)
    /\ document' = [q \in DOMAIN document \cup {p} |-> IF q = p THEN v ELSE document[q]]

EmptyDocument == document = <<>>
DocumentNext == \E p \in Path, v \in Leaf : AddLeaf(p, v)
DocumentSpec == EmptyDocument /\ [][DocumentNext]_document

----------------------------------------------------------------------------

\* What normalizeNumbers is for, "o driver Neo4j aceita int64/float64 nativos
\* mas não json.Number" (payload.go:71-72): of what one property of the graph
\* can hold, a scalar or a list of scalars, no number in the range of a double
\* is still a json.Number; and of the metadata each number, however deep,
\* comes back as the double nearest to it and stays so, unless one that stands
\* in a list is out of range, when all of it is lost.
NumbersSurvive ==
    LET m == NormalizeNumbers(document)
        back == ReadBack(m)
        InRange(v) == v[1] = "number" /\ v[2] \in Float64
        Storable(p) == Len(p) = 1 \/ (Len(p) = 2 /\ p[2][1] = "list")
        Native(before, after) ==
            IF InRange(before)
            THEN after \in {<<"int", before[2]>>, <<"float", Nearest[before[2]]>>}
            ELSE before[1] # "number" => after = before
        lost == \E p \in DOMAIN document :
                    /\ document[p][1] = "number" /\ ~InRange(document[p])
                    /\ ListSteps(p) # {}
    IN  /\ \A p \in DOMAIN document :
              /\ Storable(p) => Native(document[p], m[p])
              /\ Len(p) = 1 => m[p][1] # "number"
              /\ (InRange(document[p]) /\ ~lost) =>
                      back[p] = <<"float", Nearest[document[p][2]]>>
        /\ IF lost THEN back = <<>> ELSE DOMAIN back = DOMAIN document /\ ReadBack(back) = back
=============================================================================
