---------------------------- MODULE RouteIdentity ----------------------------
(****************************************************************************)
(* What normalizePath is for: the linker takes two templates for one route  *)
(* when their normal forms are equal.  A behaviour grows a template one     *)
(* segment at a time.                                                       *)
(****************************************************************************)
EXTENDS RoutePath

CONSTANT MaxSegments        \* the longest template grown

ASSUME MaxSegmentsAssumption == MaxSegments \in Nat \ {0}

VARIABLE path

NoPath == path = <<Empty>>

AppendSegment(s) ==
    /\ Len(path) < MaxSegments
    /\ path' = Append(path, s)

ReplaceFirst(s) ==
    /\ Len(path) = 1
    /\ path' = <<s>>

RouteNext == \E s \in Segment : AppendSegment(s) \/ ReplaceFirst(s)
RouteSpec == NoPath /\ [][RouteNext]_path

----------------------------------------------------------------------------

\* The reference, in which slashes do not count: the segments between them are
\* the same in the same order, placeholders without their names.
Kept(p) == {i \in DOMAIN p : p[i] # Empty}
Marked(x) == IF x \in Placeholder THEN Anonymous ELSE x

SameRoute(p, q) ==
    \E f \in [Kept(p) -> Kept(q)] :
        /\ \A j \in Kept(q) : \E i \in Kept(p) : f[i] = j
        /\ \A i, j \in Kept(p) : i < j => f[i] < f[j]
        /\ \A i \in Kept(p) : Marked(p[i]) = Marked(q[f[i]])

\* No slash is doubled in front of a segment, and without one the template is
\* the root.
SingleSlashed(p) ==
    /\ \A i \in DOMAIN p, j \in Kept(p) : 1 < i /\ i < j => i \in Kept(p)
    /\ Kept(p) = {} => p = <<Empty, Empty>>

\* normalizePath (linker.go:251-260) never takes two routes for one, whatever
\* their templates look like: root, empty, all slashes, slashes doubled.  It
\* takes each route for itself, in every placeholder style, with or without
\* the slashes at either end, but not through doubled slashes: "colapsa
\* slashes" (linker.go:252) is true of those at the end only, and /a//b is to
\* the linker another route than /a/b, as // is another than /.
NormalFormsTellRoutes ==
    \A q \in PathsUpTo(MaxSegments - 1) :
        LET same == NormalizePath(path) = NormalizePath(q)
        IN  /\ same => SameRoute(path, q)
            /\ (SingleSlashed(path) /\ SingleSlashed(q) /\ SameRoute(path, q)) => same
=============================================================================
