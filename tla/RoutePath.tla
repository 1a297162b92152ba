------------------------------ MODULE RoutePath ------------------------------
(****************************************************************************)
(* normalizePath of infra/neo4j/linker.go.  A path template is the sequence *)
(* strings.Split(p, "/") gives: "" is <<"">>, "/" is <<"", "">> and "/a/"   *)
(* is <<"", "a", "">>; what is inside a segment matters only through the    *)
(* three placeholder styles.                                                *)
(****************************************************************************)
EXTENDS Naturals, Sequences

CONSTANTS
    Literal,        \* segments kept as they are
    Placeholder     \* segments written :id, {id} or <id>

Empty == ""
Anonymous == ":_"   \* the marker every placeholder becomes
ASSUME SegmentAssumption ==
    /\ Literal \cap Placeholder = {}
    /\ Empty \notin Literal \cup Placeholder
    /\ Anonymous \in Placeholder

Segment == Literal \cup Placeholder \cup {Empty}

HasLeadingSlash(p) == Len(p) > 1 /\ p[1] = Empty

\* strings.HasSuffix(p, "/") for a p longer than one character.
HasTrailingSlash(p) == Len(p) > 2 /\ p[Len(p)] = Empty

\* Mutant: TrimSuffix in its place, which takes one slash away.
TrimOne(p) == SubSeq(p, 1, Len(p) - 1)

\* strings.TrimRight(p, "/"): every trailing slash goes, the leading one of
\* an all-slash path too.
TrimRight(p) ==
    LET kept == {i \in DOMAIN p : p[i] # Empty}
        last == CHOOSE i \in kept : \A j \in kept : j <= i
    IN  IF kept = {} THEN <<Empty>> ELSE SubSeq(p, 1, last)

NormalizePath(p) ==
    LET rooted == IF HasLeadingSlash(p) THEN p ELSE <<Empty>> \o p
        trimmed == IF HasTrailingSlash(rooted) THEN TrimRight(rooted) ELSE rooted
    IN  IF p = <<Empty>> THEN p
        ELSE [i \in DOMAIN trimmed |->
                IF trimmed[i] \in Placeholder THEN Anonymous ELSE trimmed[i]]

\* The paths of at most n segments.
PathsUpTo(n) == UNION {[1 .. k -> Segment] : k \in 1 .. n}
=============================================================================
