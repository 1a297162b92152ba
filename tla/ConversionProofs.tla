--------------------------- MODULE ConversionProofs ---------------------------
(****************************************************************************)
(* The normal form of a route, for templates of any length: it keeps the    *)
(* segments and their order, so that equal forms are equal routes.          *)
(* The numbers of a document, however deep: which of them normalizeNumbers  *)
(* makes native, and what becomes of them on the way to a reader.           *)
(* And the way of one node through the conversions: what is stored is what  *)
(* the encoder makes of the struct the loader decoded, link and all, so     *)
(* that a reader gets that struct and a client the payload's texts.         *)
(****************************************************************************)
EXTENDS RouteIdentity, PayloadNumbers, Codec, WellFoundedInduction, TLAPS

----------------------------------------------------------------------------
(* The last of finitely many positions. *)

Below == {q \in Nat \X Nat : q[1] < q[2]}

\* There is no endless descent in the natural numbers.
LEMMA BelowIsWellFounded == IsWellFoundedOn(Below, Nat)
BY NatLessThanWellFounded DEF OpToRel, Below

\* A set of positions that is not empty has a last one.
LEMMA LastExists ==
  ASSUME NEW n \in Nat, NEW S \in SUBSET (1 .. n), S # {}
  PROVE  \E i \in S : \A j \in S : j <= i
<1> DEFINE behind == {n - i : i \in S}
<1>1. behind \subseteq Nat /\ behind # {}
  OBVIOUS
<1>2. PICK x \in behind : \A y \in behind : <<y, x>> \notin Below
  BY <1>1, BelowIsWellFounded, WFMin
<1>3. PICK i \in S : x = n - i
  BY <1>2
<1>4. ASSUME NEW j \in S PROVE j <= i
  <2>1. n - j \in behind /\ n - j \in Nat /\ n - i \in Nat
    BY <1>1, <1>3
  <2>2. ~(n - j < n - i)
    BY <2>1, <1>2, <1>3 DEF Below
  <2> QED BY <2>1, <2>2
<1> QED BY <1>4

----------------------------------------------------------------------------
(* Templates. *)

Template == Seq(Segment) \ {<<>>}

Final(p) == CHOOSE i \in Kept(p) : \A j \in Kept(p) : j <= i
Lead(p) == IF p[1] = Empty THEN 1 ELSE 0

\* The slash in front is there or is put there.
Rooted(p) == IF HasLeadingSlash(p) THEN p ELSE <<Empty>> \o p

\* The last segment that is named is a place, with nothing named behind it.
LEMMA FinalIsLast ==
  ASSUME NEW p \in Template, Kept(p) # {}
  PROVE  /\ Final(p) \in DOMAIN p
         /\ p[Final(p)] # Empty
         /\ \A i \in DOMAIN p : p[i] # Empty => i <= Final(p)
         /\ Len(p) \in Nat \ {0} /\ DOMAIN p = 1 .. Len(p)
         /\ \A i \in DOMAIN p : p[i] \in Segment
<1>1. Len(p) \in Nat \ {0} /\ DOMAIN p = 1 .. Len(p) /\ \A i \in DOMAIN p : p[i] \in Segment
  BY DEF Template
<1>2. \E i \in Kept(p) : \A j \in Kept(p) : j <= i
  BY <1>1, LastExists DEF Kept
<1>3. Final(p) \in Kept(p) /\ \A j \in Kept(p) : j <= Final(p)
  BY <1>2 DEF Final
<1> QED BY <1>1, <1>3 DEF Kept

\* A rooted template: an empty segment in front, the others as they were.
LEMMA RootedIs ==
  ASSUME NEW p \in Template, Kept(p) # {}
  PROVE  /\ Rooted(p) \in Template
         /\ Len(Rooted(p)) = Len(p) + 1 - Lead(p)
         /\ Rooted(p)[1] = Empty
         /\ \A i \in 2 .. Len(Rooted(p)) : Rooted(p)[i] = p[i - 1 + Lead(p)]
<1>1. /\ Final(p) \in 1 .. Len(p) /\ p[Final(p)] # Empty
      /\ Len(p) \in Nat \ {0} /\ DOMAIN p = 1 .. Len(p)
      /\ \A i \in DOMAIN p : p[i] \in Segment
  BY FinalIsLast
<1>2. p \in Seq(Segment) /\ p # <<>>
  BY DEF Template
<1>3. CASE p[1] = Empty
  <2>1. HasLeadingSlash(p) /\ Lead(p) = 1
    BY <1>1, <1>3 DEF HasLeadingSlash, Lead
  <2>2. Rooted(p) = p
    BY <2>1 DEF Rooted
  <2> QED BY <1>1, <1>3, <2>1, <2>2
<1>4. CASE p[1] # Empty
  <2>1. ~HasLeadingSlash(p) /\ Lead(p) = 0
    BY <1>4 DEF HasLeadingSlash, Lead
  <2>2. Rooted(p) = <<Empty>> \o p
    BY <2>1 DEF Rooted
  <2>3. <<Empty>> \in Seq(Segment) /\ Len(<<Empty>>) = 1
    BY DEF Segment
  <2>4. /\ Rooted(p) \in Seq(Segment) /\ Len(Rooted(p)) = Len(p) + 1
        /\ Rooted(p)[1] = Empty
        /\ \A i \in 2 .. Len(p) + 1 : Rooted(p)[i] = p[i - 1]
    BY <1>1, <1>2, <2>2, <2>3
  <2>5. Rooted(p) # <<>>
    BY <1>1, <2>4
  <2> QED BY <1>1, <2>1, <2>4, <2>5 DEF Template
<1> QED BY <1>3, <1>4

\* It ends where the template does.
LEMMA RootedFinal ==
  ASSUME NEW p \in Template, Kept(p) # {}
  PROVE  Kept(Rooted(p)) # {} /\ Final(Rooted(p)) = Final(p) + 1 - Lead(p)
<1> DEFINE r == Rooted(p)
           f == Final(p) + 1 - Lead(p)
<1>1. /\ Final(p) \in 1 .. Len(p) /\ p[Final(p)] # Empty
      /\ Len(p) \in Nat \ {0} /\ DOMAIN p = 1 .. Len(p)
      /\ \A i \in DOMAIN p : p[i] # Empty => i <= Final(p)
  BY FinalIsLast
<1>2. Lead(p) \in {0, 1} /\ Final(p) - Lead(p) \in Nat \ {0}
  BY <1>1 DEF Lead
<1>3. /\ r \in Template /\ Len(r) = Len(p) + 1 - Lead(p) /\ r[1] = Empty
      /\ \A i \in 2 .. Len(r) : r[i] = p[i - 1 + Lead(p)]
  BY RootedIs
<1>4. DOMAIN r = 1 .. Len(r)
  BY <1>3 DEF Template
<1> HIDE DEF r
<1>5. f \in DOMAIN r /\ r[f] # Empty
  BY <1>1, <1>2, <1>3, <1>4
<1>6. ASSUME NEW i \in DOMAIN r, r[i] # Empty PROVE i <= f
  <2>1. i \in 2 .. Len(r)
    BY <1>3, <1>4, <1>6
  <2>2. i - 1 + Lead(p) \in DOMAIN p /\ p[i - 1 + Lead(p)] # Empty
    BY <1>1, <1>2, <1>3, <1>6, <2>1
  <2>3. i - 1 + Lead(p) <= Final(p)
    BY <1>1, <2>2
  <2> QED BY <1>1, <1>2, <1>3, <2>1, <2>3
<1>7. f \in Kept(r) /\ \A i \in Kept(r) : i <= f
  BY <1>5, <1>6 DEF Kept
<1>8. /\ Final(r) \in DOMAIN r /\ r[Final(r)] # Empty
      /\ \A i \in DOMAIN r : r[i] # Empty => i <= Final(r)
  BY <1>3, <1>7, FinalIsLast
<1>9. Final(r) <= f /\ f <= Final(r)
  BY <1>5, <1>6, <1>8
<1>10. Final(r) \in Nat /\ f \in Nat
  BY <1>2, <1>4, <1>5, <1>8, <1>3
<1> QED BY <1>7, <1>9, <1>10 DEF r

\* Trimming takes what is behind the last named segment.
LEMMA TrimmedIs ==
  ASSUME NEW r \in Template, Kept(r) # {}, r[1] = Empty
  PROVE  (IF HasTrailingSlash(r) THEN TrimRight(r) ELSE r) = SubSeq(r, 1, Final(r))
<1>1. /\ Final(r) \in 1 .. Len(r) /\ r[Final(r)] # Empty
      /\ Len(r) \in Nat \ {0} /\ DOMAIN r = 1 .. Len(r)
      /\ \A i \in DOMAIN r : r[i] # Empty => i <= Final(r)
  BY FinalIsLast
<1>2. CASE HasTrailingSlash(r)
  BY <1>2 DEF TrimRight, Kept, Final
<1>3. CASE ~HasTrailingSlash(r)
  <2>1. Final(r) # 1
    BY <1>1
  <2>2. Final(r) = Len(r)
    BY <1>1, <1>3, <2>1 DEF HasTrailingSlash
  <2>3. r \in Seq(Segment)
    BY DEF Template
  <2> QED BY <1>3, <2>2, <2>3
<1> QED BY <1>2, <1>3

\* The normal form, position by position.
LEMMA NormalFormIs ==
  ASSUME NEW p \in Template, Kept(p) # {}
  PROVE  /\ Final(p) - Lead(p) \in Nat \ {0}
         /\ NormalizePath(p) = [i \in 1 .. Final(p) - Lead(p) + 1 |->
                IF i = 1 THEN Empty ELSE Marked(p[i - 1 + Lead(p)])]
<1> DEFINE r == Rooted(p)
           n == Final(p) - Lead(p)
           t == SubSeq(r, 1, Final(r))
<1>1. /\ Final(p) \in 1 .. Len(p) /\ p[Final(p)] # Empty
      /\ Len(p) \in Nat \ {0} /\ DOMAIN p = 1 .. Len(p)
  BY FinalIsLast
<1>2. n \in Nat \ {0} /\ Lead(p) \in {0, 1}
  BY <1>1 DEF Lead
<1>3. /\ r \in Template /\ Len(r) = Len(p) + 1 - Lead(p) /\ r[1] = Empty
      /\ \A i \in 2 .. Len(r) : r[i] = p[i - 1 + Lead(p)]
      /\ Kept(r) # {} /\ Final(r) = n + 1
  <2>1. /\ r \in Template /\ Len(r) = Len(p) + 1 - Lead(p) /\ r[1] = Empty
        /\ \A i \in 2 .. Len(r) : r[i] = p[i - 1 + Lead(p)]
    BY RootedIs
  <2>2. Kept(r) # {} /\ Final(r) = Final(p) + 1 - Lead(p)
    BY RootedFinal
  <2> QED BY <1>1, <1>2, <2>1, <2>2
<1>4. n + 1 \in DOMAIN r /\ DOMAIN r = 1 .. Len(r) /\ Len(r) \in Nat
  BY <1>3, FinalIsLast
<1>5. p # <<Empty>>
  BY DEF Kept
<1>6. NormalizePath(p) = [i \in DOMAIN t |-> Marked(t[i])]
  <2>1. (IF HasTrailingSlash(r) THEN TrimRight(r) ELSE r) = t
    BY <1>3, TrimmedIs
  <2> QED BY <1>5, <2>1 DEF NormalizePath, Rooted, Marked
<1> HIDE DEF r, n
<1>7. t = [i \in 1 .. n + 1 |-> r[i]]
  BY <1>2, <1>3, <1>4
<1>8. NormalizePath(p) = [i \in 1 .. n + 1 |-> Marked(r[i])]
  BY <1>6, <1>7
<1>9. Marked(Empty) = Empty
  BY SegmentAssumption DEF Marked
<1>10. ASSUME NEW i \in 1 .. n + 1
       PROVE  Marked(r[i]) = IF i = 1 THEN Empty ELSE Marked(p[i - 1 + Lead(p)])
  <2>1. CASE i = 1
    BY <2>1, <1>3, <1>9
  <2>2. CASE i # 1
    <3>1. i \in 2 .. Len(r)
      BY <2>2, <1>2, <1>4
    <3> QED BY <2>2, <3>1, <1>3
  <2> QED BY <2>1, <2>2
<1> QED BY <1>2, <1>8, <1>10 DEF n

\* Without a segment the normal form is the empty template or the root.
LEMMA NormalFormOfNone ==
  ASSUME NEW p \in Template, Kept(p) = {}
  PROVE  NormalizePath(p) \in {<<Empty>>, <<Empty, Empty>>}
<1> DEFINE r == Rooted(p)
<1>1. Len(p) \in Nat \ {0} /\ DOMAIN p = 1 .. Len(p) /\ p \in Seq(Segment)
  BY DEF Template
<1>2. \A i \in 1 .. Len(p) : p[i] = Empty
  BY <1>1 DEF Kept
<1>3. Marked(Empty) = Empty
  BY SegmentAssumption DEF Marked
<1>4. CASE Len(p) = 1
  <2>1. p = <<Empty>>
    BY <1>1, <1>2, <1>4
  <2> QED BY <2>1 DEF NormalizePath
<1>5. CASE Len(p) # 1
  <2>1. r = p /\ p # <<Empty>>
    <3>1. Len(p) > 1 /\ p[1] = Empty
      BY <1>1, <1>2, <1>5
    <3>2. HasLeadingSlash(p)
      BY <3>1 DEF HasLeadingSlash
    <3>3. Len(<<Empty>>) = 1
      OBVIOUS
    <3> QED BY <1>5, <3>2, <3>3 DEF Rooted
  <2> DEFINE t == IF HasTrailingSlash(p) THEN TrimRight(p) ELSE p
  <2>2. NormalizePath(p) = [i \in DOMAIN t |-> Marked(t[i])]
    BY <2>1 DEF NormalizePath, Rooted, Marked
  <2>3. t \in {<<Empty>>, <<Empty, Empty>>}
    <3>1. CASE Len(p) = 2
      <4>1. p = <<Empty, Empty>>
        BY <1>1, <1>2, <3>1
      <4> QED BY <4>1 DEF HasTrailingSlash
    <3>2. CASE Len(p) > 2
      <4>1. HasTrailingSlash(p)
        BY <1>1, <1>2, <3>2 DEF HasTrailingSlash
      <4>2. TrimRight(p) = <<Empty>>
        BY DEF TrimRight, Kept
      <4> QED BY <4>1, <4>2
    <3> QED BY <1>1, <1>5, <3>1, <3>2
  <2> HIDE DEF t
  <2>4. CASE t = <<Empty>>
    BY <2>2, <2>4, <1>3
  <2>5. CASE t = <<Empty, Empty>>
    BY <2>2, <2>5, <1>3
  <2> QED BY <2>3, <2>4, <2>5
<1> QED BY <1>4, <1>5

----------------------------------------------------------------------------
(* What the normal form tells. *)

\* The kept segments of a template are those of its normal form, moved behind
\* the slash in front.
LEMMA NormalFormShifts ==
  ASSUME NEW p \in Template
  PROVE  /\ NormalizePath(p) \in Template
         /\ 1 - Lead(p) \in {0, 1}
         /\ \A i \in Kept(p) : /\ i + (1 - Lead(p)) \in Kept(NormalizePath(p))
                               /\ NormalizePath(p)[i + (1 - Lead(p))] = Marked(p[i])
         /\ \A j \in Kept(NormalizePath(p)) : j - (1 - Lead(p)) \in Kept(p)
<1> DEFINE n == NormalizePath(p)
           d == 1 - Lead(p)
<1>1. d \in {0, 1} /\ Lead(p) \in {0, 1}
  BY DEF Lead
<1>2. CASE Kept(p) = {}
  <2>1. n \in {<<Empty>>, <<Empty, Empty>>}
    BY <1>2, NormalFormOfNone
  <2>2. n \in Template
    <3>1. Empty \in Segment
      BY DEF Segment
    <3>2. <<Empty>> \in Seq(Segment) /\ <<Empty>> # <<>>
      BY <3>1
    <3>3. <<Empty, Empty>> \in Seq(Segment) /\ <<Empty, Empty>> # <<>>
      BY <3>1
    <3> HIDE DEF n
    <3>4. n \in Seq(Segment) /\ n # <<>>
      BY <2>1, <3>2, <3>3
    <3> QED BY <3>4 DEF Template
  <2>3. Kept(n) = {}
    <3> HIDE DEF n
    <3> QED BY <2>1 DEF Kept
  <2> QED BY <1>1, <1>2, <2>2, <2>3
<1>3. CASE Kept(p) # {}
  <2> DEFINE m == Final(p) - Lead(p)
  <2>1. /\ m \in Nat \ {0}
        /\ n = [i \in 1 .. m + 1 |-> IF i = 1 THEN Empty ELSE Marked(p[i - 1 + Lead(p)])]
    BY <1>3, NormalFormIs
  <2>2. /\ Final(p) \in DOMAIN p /\ DOMAIN p = 1 .. Len(p) /\ Len(p) \in Nat
        /\ \A i \in DOMAIN p : p[i] # Empty => i <= Final(p)
        /\ \A i \in DOMAIN p : p[i] \in Segment
    BY <1>3, FinalIsLast
  <2>3. \A x \in Segment : Marked(x) \in Segment /\ (Marked(x) = Empty <=> x = Empty)
    BY SegmentAssumption DEF Marked, Segment
  <2>4. p[1] = Empty <=> Lead(p) = 1
    BY DEF Lead
  <2> HIDE DEF n, d
  <2>5. DOMAIN n = 1 .. m + 1 /\ \A i \in 2 .. m + 1 : n[i] = Marked(p[i - 1 + Lead(p)]) /\ i - 1 + Lead(p) \in DOMAIN p
    BY <2>1, <2>2, <1>1
  <2>6. n[1] = Empty
    BY <2>1
  <2>7. \A i \in 1 .. m + 1 : n[i] \in Segment
    <3>1. Empty \in Segment
      BY DEF Segment
    <3> SUFFICES ASSUME NEW i \in 1 .. m + 1 PROVE n[i] \in Segment
      OBVIOUS
    <3>2. CASE i = 1
      BY <3>1, <3>2, <2>6
    <3>3. CASE i # 1
      <4>1. i \in 2 .. m + 1
        BY <3>3, <2>1
      <4> QED BY <4>1, <2>2, <2>3, <2>5
    <3> QED BY <3>2, <3>3
  <2>8. n \in Template
    <3>1. n = [i \in 1 .. m + 1 |-> n[i]]
      BY <2>1
    <3>2. n \in Seq(Segment)
      BY <2>1, <2>7, <3>1
    <3>3. n # <<>>
      BY <2>1, <2>5
    <3> QED BY <3>2, <3>3 DEF Template
  <2>9. ASSUME NEW i \in Kept(p) PROVE i + d \in Kept(n) /\ n[i + d] = Marked(p[i])
    <3>1. i \in DOMAIN p /\ p[i] # Empty /\ i <= Final(p) /\ p[i] \in Segment
      BY <2>2 DEF Kept
    <3>2. i + d \in 2 .. m + 1 /\ (i + d) - 1 + Lead(p) = i
      <4>1. Lead(p) = 1 => i # 1
        BY <2>4, <3>1
      <4> QED BY <1>1, <2>1, <2>2, <3>1, <4>1 DEF d
    <3>3. n[i + d] = Marked(p[i])
      BY <2>5, <3>2
    <3> QED BY <2>1, <2>3, <2>5, <3>1, <3>2, <3>3 DEF Kept
  <2>10. ASSUME NEW j \in Kept(n) PROVE j - d \in Kept(p)
    <3>1. j \in 1 .. m + 1 /\ n[j] # Empty
      BY <2>5 DEF Kept
    <3>2. j \in 2 .. m + 1
      BY <2>1, <2>6, <3>1
    <3>3. n[j] = Marked(p[j - 1 + Lead(p)]) /\ j - 1 + Lead(p) \in DOMAIN p
      BY <2>5, <3>2
    <3>4. j - d = j - 1 + Lead(p)
      BY <1>1, <3>2, <2>1 DEF d
    <3>5. p[j - 1 + Lead(p)] # Empty
      BY <2>2, <2>3, <3>1, <3>3
    <3> QED BY <3>3, <3>4, <3>5 DEF Kept
  <2> QED BY <1>1, <2>8, <2>9, <2>10 DEF n, d
<1> QED BY <1>2, <1>3

\* Two templates whose segments are shifts of those of a third, in which each
\* segment reads as in them, are one route.
LEMMA ShiftedIsSameRoute ==
  ASSUME NEW p \in Template, NEW q \in Template, NEW S \in SUBSET Int,
         NEW d \in Int, NEW e \in Int, NEW g,
         \A i \in Kept(p) : i + d \in S /\ g[i + d] = Marked(p[i]),
         \A i \in Kept(q) : i + e \in S /\ g[i + e] = Marked(q[i]),
         \A j \in S : j - d \in Kept(p) /\ j - e \in Kept(q)
  PROVE  SameRoute(p, q)
<1> DEFINE f == [i \in Kept(p) |-> (i + d) - e]
<1>1. \A i \in Kept(p) : i \in Int
  BY DEF Template, Kept
<1>2. \A j \in Kept(q) : j \in Int
  BY DEF Template, Kept
<1>3. f \in [Kept(p) -> Kept(q)]
  BY <1>1
<1>4. ASSUME NEW j \in Kept(q) PROVE \E i \in Kept(p) : f[i] = j
  <2> DEFINE k == j + e
  <2>0. k \in S /\ k \in Int /\ j \in Int
    BY <1>2
  <2> DEFINE i == k - d
  <2>1. i \in Kept(p) /\ i \in Int
    BY <2>0
  <2>2. (i + d) - e = j
    BY <2>0
  <2>3. f[i] = j
    BY <2>1, <2>2
  <2> QED BY <2>1, <2>3
<1>5. \A i, j \in Kept(p) : i < j => f[i] < f[j]
  BY <1>1
<1>6. ASSUME NEW i \in Kept(p) PROVE Marked(p[i]) = Marked(q[f[i]])
  <2>1. f[i] \in Kept(q) /\ f[i] + e = i + d
    BY <1>1, <1>3
  <2>2. Marked(p[i]) = g[i + d] /\ Marked(q[f[i]]) = g[f[i] + e]
    BY <2>1
  <2> QED BY <2>1, <2>2
<1> QED BY <1>3, <1>4, <1>5, <1>6 DEF SameRoute

\* The normal form of a template names the template's own route, whatever its
\* length and its slashes (linker.go:260-288).
THEOREM NormalFormKeepsRoute ==
  ASSUME NEW p \in Template
  PROVE  SameRoute(p, NormalizePath(p))
<1> DEFINE n == NormalizePath(p)
           d == 1 - Lead(p)
<1>1. /\ n \in Template /\ d \in {0, 1}
      /\ \A i \in Kept(p) : i + d \in Kept(n) /\ n[i + d] = Marked(p[i])
      /\ \A j \in Kept(n) : j - d \in Kept(p)
  BY NormalFormShifts
<1> HIDE DEF n, d
<1>2. Kept(n) \in SUBSET Int /\ d \in Int /\ \A j \in Kept(n) : j + 0 = j /\ j - 0 = j
  BY <1>1 DEF Template, Kept
<1>3. ASSUME NEW j \in Kept(n) PROVE n[j] = Marked(n[j])
  <2>1. j - d \in Kept(p) /\ (j - d) + d = j
    BY <1>1, <1>2
  <2>2. n[j] = Marked(p[j - d])
    BY <1>1, <2>1
  <2> QED BY <2>2, SegmentAssumption DEF Marked
<1>4. /\ \A i \in Kept(n) : i + 0 \in Kept(n) /\ n[i + 0] = Marked(n[i])
      /\ \A j \in Kept(n) : j - d \in Kept(p) /\ j - 0 \in Kept(n)
  BY <1>1, <1>2, <1>3
<1>5. 0 \in Int
  OBVIOUS
<1>6. \A i \in Kept(p) : i + d \in Kept(n) /\ n[i + d] = Marked(p[i])
  BY <1>1
<1>7. SameRoute(p, n)
  BY <1>1, <1>2, <1>4, <1>5, <1>6, ShiftedIsSameRoute, Zenon
<1> QED BY <1>7 DEF n

\* Soundness: one normal form, one route.
LEMMA NormalFormsAreSound ==
  ASSUME NEW p \in Template, NEW q \in Template, NormalizePath(p) = NormalizePath(q)
  PROVE  SameRoute(p, q)
<1> DEFINE n == NormalizePath(p)
           d == 1 - Lead(p)
           e == 1 - Lead(q)
<1>1. /\ n \in Template /\ d \in {0, 1}
      /\ \A i \in Kept(p) : i + d \in Kept(n) /\ n[i + d] = Marked(p[i])
      /\ \A j \in Kept(n) : j - d \in Kept(p)
  BY NormalFormShifts
<1>2. /\ e \in {0, 1}
      /\ \A i \in Kept(q) : i + e \in Kept(n) /\ n[i + e] = Marked(q[i])
      /\ \A j \in Kept(n) : j - e \in Kept(q)
  BY NormalFormShifts
<1> HIDE DEF n, d, e
<1>3. Kept(n) \in SUBSET Int /\ d \in Int /\ e \in Int
  BY <1>1, <1>2 DEF Template, Kept
<1> QED BY <1>1, <1>2, <1>3, ShiftedIsSameRoute

\* In a template without doubled slashes the kept segments are in a row.
LEMMA SingleSlashedIs ==
  ASSUME NEW p \in Template, SingleSlashed(p), Kept(p) # {}
  PROVE  /\ Lead(p) \in {0, 1} /\ Final(p) \in Nat
         /\ Lead(p) + 1 <= Final(p)
         /\ Kept(p) = (Lead(p) + 1) .. Final(p)
<1>1. /\ Final(p) \in DOMAIN p /\ p[Final(p)] # Empty
      /\ Len(p) \in Nat \ {0} /\ DOMAIN p = 1 .. Len(p)
      /\ \A i \in DOMAIN p : p[i] # Empty => i <= Final(p)
  BY FinalIsLast
<1>2. Lead(p) \in {0, 1} /\ (p[1] = Empty <=> Lead(p) = 1)
  BY DEF Lead
<1>3. Kept(p) = (Lead(p) + 1) .. Final(p)
  <2>1. ASSUME NEW i \in Kept(p) PROVE i \in (Lead(p) + 1) .. Final(p)
    <3>1. i \in 1 .. Len(p) /\ p[i] # Empty /\ i <= Final(p)
      BY <1>1 DEF Kept
    <3>2. Lead(p) = 1 => i # 1
      BY <1>2, <3>1
    <3> QED BY <1>1, <1>2, <3>1, <3>2
  <2>2. ASSUME NEW i \in (Lead(p) + 1) .. Final(p) PROVE i \in Kept(p)
    <3>1. i \in DOMAIN p /\ Final(p) \in Kept(p)
      BY <1>1, <1>2 DEF Kept
    <3>2. CASE i = Final(p)
      BY <3>1, <3>2
    <3>3. CASE i = 1
      <4>1. Lead(p) = 0
        BY <1>2, <3>3
      <4>2. p[1] # Empty
        BY <1>2, <4>1
      <4> QED BY <3>1, <3>3, <4>2 DEF Kept
    <3>4. CASE i # Final(p) /\ i # 1
      <4>1. 1 < i /\ i < Final(p)
        BY <1>1, <1>2, <3>4
      <4> QED BY <3>1, <4>1 DEF SingleSlashed
    <3> QED BY <3>2, <3>3, <3>4
  <2> QED BY <2>1, <2>2
<1>4. Final(p) \in Nat /\ Final(p) >= Lead(p) + 1
  <2>1. Final(p) \in Kept(p)
    BY <1>1 DEF Kept
  <2> QED BY <1>1, <1>2, <1>3, <2>1
<1> QED BY <1>2, <1>3, <1>4

\* An increasing map of one row of positions onto another moves all alike.
RowsJoined(a, u, b, v, f) ==
    /\ a \in Nat /\ b \in Nat /\ u \in Nat /\ v \in Nat /\ a <= u /\ b <= v
    /\ f \in [a .. u -> b .. v]
    /\ \A j \in b .. v : \E i \in a .. u : f[i] = j
    /\ \A i, j \in a .. u : i < j => f[i] < f[j]

LEMMA RowsMoveTogether ==
  ASSUME NEW a, NEW b, NEW u, NEW v, NEW f, RowsJoined(a, u, b, v, f)
  PROVE  u - a = v - b /\ \A i \in a .. u : f[i] = (i - a) + b
<1> USE DEF RowsJoined
<1> DEFINE odd == {i \in a .. u : f[i] # (i - a) + b}
<1>1. odd = {}
  <2> SUFFICES ASSUME odd # {} PROVE FALSE
    OBVIOUS
  <2>1. odd \subseteq Nat
    OBVIOUS
  <2>2. PICK i \in odd : \A j \in odd : <<j, i>> \notin Below
    BY <2>1, BelowIsWellFounded, WFMin
  <2>3. i \in a .. u /\ i \in Nat /\ f[i] \in b .. v /\ f[i] # (i - a) + b
    BY <2>1
  <2>4. ASSUME NEW j \in a .. u, j < i PROVE f[j] = (j - a) + b
    <3>1. j \in Nat /\ i \in Nat
      BY <2>3
    <3>2. <<j, i>> \in Below
      BY <2>4, <3>1 DEF Below
    <3> QED BY <2>2, <2>4, <3>2
  <2>5. f[i] > (i - a) + b
    <3>1. CASE i = a
      BY <2>3, <3>1
    <3>2. CASE i # a
      <4>1. i - 1 \in a .. u /\ i - 1 < i
        BY <2>3, <3>2
      <4>2. f[i - 1] = ((i - 1) - a) + b /\ f[i - 1] < f[i]
        BY <2>3, <2>4, <4>1
      <4>3. f[i] \in Int /\ i \in Int
        BY <2>3
      <4>4. f[i] > ((i - 1) - a) + b
        BY <4>2, <4>3
      <4> DEFINE h == (i - a) + b
      <4>5. h \in Int /\ ((i - 1) - a) + b = h - 1 /\ f[i] # h
        BY <2>3, <4>3
      <4>6. f[i] > h - 1
        BY <4>4, <4>5
      <4>7. f[i] > h
        <5> HIDE DEF h
        <5> QED BY <4>3, <4>5, <4>6
      <4> QED BY <4>7
    <3> QED BY <3>1, <3>2
  <2>6. (i - a) + b \in b .. v
    BY <2>3, <2>5
  <2>7. PICK k \in a .. u : f[k] = (i - a) + b
    BY <2>6
  <2>8. CASE k < i
    <3>1. f[k] = (k - a) + b
      BY <2>4, <2>8
    <3> QED BY <2>3, <2>7, <2>8, <3>1
  <2>9. CASE k >= i
    <3>1. k = i \/ i < k
      BY <2>3, <2>9
    <3>2. f[k] >= f[i]
      <4>1. CASE k = i
        BY <2>3, <4>1
      <4>2. CASE i < k
        <5>1. f[i] < f[k]
          BY <2>3, <4>2
        <5>2. f[i] \in Int /\ f[k] \in Int
          BY <2>3
        <5> QED BY <5>1, <5>2
      <4> QED BY <3>1, <4>1, <4>2
    <3> QED BY <2>3, <2>5, <2>7, <3>2
  <2> QED BY <2>3, <2>8, <2>9
<1>2. \A i \in a .. u : f[i] = (i - a) + b
  BY <1>1
<1>3. f[u] = (u - a) + b /\ f[u] \in b .. v
  BY <1>2
<1>4. PICK k \in a .. u : f[k] = v
  OBVIOUS
<1>5. (k - a) + b = v
  BY <1>2, <1>4
<1> QED BY <1>2, <1>3, <1>5

\* Completeness: one route, one normal form, where no slash is doubled.
LEMMA NormalFormsAreComplete ==
  ASSUME NEW p \in Template, NEW q \in Template,
         SingleSlashed(p), SingleSlashed(q), SameRoute(p, q)
  PROVE  NormalizePath(p) = NormalizePath(q)
<1>1. PICK f \in [Kept(p) -> Kept(q)] :
          /\ \A j \in Kept(q) : \E i \in Kept(p) : f[i] = j
          /\ \A i, j \in Kept(p) : i < j => f[i] < f[j]
          /\ \A i \in Kept(p) : Marked(p[i]) = Marked(q[f[i]])
  BY DEF SameRoute
<1>2. CASE Kept(p) = {}
  <2>1. Kept(q) = {}
    BY <1>1, <1>2
  <2>2. p = q
    BY <1>2, <2>1 DEF SingleSlashed
  <2> QED BY <2>2
<1>3. CASE Kept(p) # {}
  <2>0. Kept(q) # {}
    BY <1>1, <1>3
  <2> DEFINE a == Lead(p) + 1  u == Final(p)  b == Lead(q) + 1  v == Final(q)  m == u - Lead(p)
  <2>1. a \in Nat /\ u \in Nat /\ a <= u /\ Kept(p) = a .. u /\ Lead(p) \in {0, 1}
    BY <1>3, SingleSlashedIs
  <2>2. b \in Nat /\ v \in Nat /\ b <= v /\ Kept(q) = b .. v /\ Lead(q) \in {0, 1}
    BY <2>0, SingleSlashedIs
  <2>3. u - a = v - b /\ \A i \in a .. u : f[i] = (i - a) + b
    <3> HIDE DEF a, b, u, v
    <3>1. f \in [a .. u -> b .. v]
      BY <1>1, <2>1, <2>2
    <3>2. \A j \in b .. v : \E i \in a .. u : f[i] = j
      BY <1>1, <2>1, <2>2
    <3>3. \A i, j \in a .. u : i < j => f[i] < f[j]
      BY <1>1, <2>1
    <3>4. a \in Nat /\ u \in Nat /\ b \in Nat /\ v \in Nat /\ a <= u /\ b <= v
      BY <2>1, <2>2
    <3>5. RowsJoined(a, u, b, v, f)
      BY <3>1, <3>2, <3>3, <3>4 DEF RowsJoined
    <3> QED BY <3>5, RowsMoveTogether
  <2>4. Final(q) - Lead(q) = m /\ m \in Nat
    BY <2>1, <2>2, <2>3
  <2>5. NormalizePath(p) = [i \in 1 .. m + 1 |-> IF i = 1 THEN Empty ELSE Marked(p[i - 1 + Lead(p)])]
    BY <1>3, NormalFormIs
  <2>6. NormalizePath(q) = [i \in 1 .. m + 1 |-> IF i = 1 THEN Empty ELSE Marked(q[i - 1 + Lead(q)])]
    BY <2>0, <2>4, NormalFormIs
  <2>7. ASSUME NEW i \in 1 .. m + 1, i # 1
        PROVE  Marked(p[i - 1 + Lead(p)]) = Marked(q[i - 1 + Lead(q)])
    <3> DEFINE k == i - 1 + Lead(p)
    <3>1. k \in a .. u /\ (k - a) + b = i - 1 + Lead(q)
      BY <2>1, <2>2, <2>4, <2>7
    <3>2. f[k] = i - 1 + Lead(q)
      BY <2>3, <3>1
    <3>3. Marked(p[k]) = Marked(q[f[k]])
      BY <1>1, <2>1, <3>1
    <3> QED BY <3>2, <3>3
  <2> QED BY <2>5, <2>6, <2>7
<1> QED BY <1>2, <1>3

\* A template has a segment at least, as strings.Split gives one.
LEMMA PathIsTemplate == RouteSpec => [](path \in Template)
<1>1. NoPath => path \in Template
  BY DEF NoPath, Template, Segment
<1>2. path \in Template /\ [RouteNext]_path => (path \in Template)'
  <2>1. ASSUME path \in Template, NEW s \in Segment, AppendSegment(s) PROVE path' \in Template
    <3>1. path \in Seq(Segment) /\ path' = Append(path, s)
      BY <2>1 DEF Template, AppendSegment
    <3>2. path' \in Seq(Segment) /\ Len(path') = Len(path) + 1
      BY <3>1
    <3> QED BY <3>1, <3>2 DEF Template
  <2>2. ASSUME NEW s \in Segment, ReplaceFirst(s) PROVE path' \in Template
    BY <2>2 DEF Template, ReplaceFirst
  <2> QED BY <2>1, <2>2 DEF RouteNext, Template
<1> QED BY <1>1, <1>2, PTL DEF RouteSpec

\* The linker takes two templates for one route only if they are, and for
\* every template without doubled slashes whenever they are, whatever their
\* length (linker.go:251-260).
THEOREM RoutesAreTold == RouteSpec => []NormalFormsTellRoutes
<1>1. path \in Template => NormalFormsTellRoutes
  <2> SUFFICES ASSUME path \in Template, NEW q \in PathsUpTo(MaxSegments - 1)
               PROVE  LET same == NormalizePath(path) = NormalizePath(q)
                      IN  /\ same => SameRoute(path, q)
                          /\ (SingleSlashed(path) /\ SingleSlashed(q) /\ SameRoute(path, q)) => same
    BY DEF NormalFormsTellRoutes
  <2>1. q \in Template
    <3>1. PICK k \in 1 .. MaxSegments - 1 : q \in [1 .. k -> Segment]
      BY DEF PathsUpTo
    <3>2. k \in Nat \ {0}
      BY MaxSegmentsAssumption
    <3> QED BY <3>1, <3>2 DEF Template
  <2> QED BY <2>1, NormalFormsAreSound, NormalFormsAreComplete
<1> QED BY <1>1, PathIsTemplate, PTL

----------------------------------------------------------------------------
(* Numbers of a document. *)

\* A document: its leaves are numbers as they are written, or no numbers.
Document(d) == \A p \in DOMAIN d : p \in Path /\ d[p] \in Leaf

\* A leaf is one or the other.
LEMMA Leaves ==
  ASSUME NEW v \in Leaf
  PROVE  /\ v[1] = "number" => v[2] \in Numeral /\ v = <<"number", v[2]>>
         /\ v[1] # "number" => ~IsNumber(v)
BY OtherAssumption DEF Leaf, IsNumber

\* A number in range keeps its value through normalizeNumbers, and one out of
\* range stays a number only in a list.
LEMMA LeafNormalized ==
  ASSUME NEW p \in Path, NEW v \in Leaf
  PROVE  LET w == NormalizeLeaf(p, v)
         IN  /\ v[1] # "number" => w = v
             /\ v[1] = "number" /\ v[2] \in Float64 =>
                   /\ w \in {v, <<"int", v[2]>>, <<"float", Nearest[v[2]]>>}
                   /\ (ListSteps(p) = {} \/ ListSteps(p) = {Len(p)}) => w # v
             /\ v[1] = "number" /\ v[2] \notin Float64 =>
                   w = IF ListSteps(p) = {} THEN <<"string", v[2]>> ELSE v
<1>1. v[1] = "number" /\ v[2] \in Float64 =>
         /\ NormalizeElement(v) \in {<<"int", v[2]>>, <<"float", Nearest[v[2]]>>}
         /\ NormalizeElement(v) # v
  <2> SUFFICES ASSUME v[1] = "number", v[2] \in Float64
               PROVE  /\ NormalizeElement(v) \in {<<"int", v[2]>>, <<"float", Nearest[v[2]]>>}
                      /\ NormalizeElement(v) # v
    OBVIOUS
  <2>1. NormalizeElement(v) = IF v[2] \in Int64 THEN <<"int", v[2]>>
                              ELSE <<"float", Nearest[v[2]]>>
    BY DEF NormalizeElement
  <2>2. NormalizeElement(v)[1] # v[1]
    BY <2>1
  <2> QED BY <2>1, <2>2
<1>2. ~(v[1] = "number" /\ v[2] \in Float64) => NormalizeElement(v) = v
  BY NumeralAssumption DEF NormalizeElement
<1>3. CASE ListSteps(p) = {}
  <2>1. NormalizeLeaf(p, v) = IF v[1] = "number" /\ v[2] \notin Float64
                              THEN <<"string", v[2]>> ELSE NormalizeElement(v)
    BY <1>3 DEF NormalizeLeaf, NormalizeMember
  <2> QED BY <1>1, <1>2, <1>3, <2>1
<1>4. CASE ListSteps(p) # {} /\ ListSteps(p) = {Len(p)}
  <2>1. NormalizeLeaf(p, v) = NormalizeElement(v)
    BY <1>4 DEF NormalizeLeaf
  <2> QED BY <1>1, <1>2, <1>4, <2>1
<1>5. CASE ListSteps(p) # {} /\ ListSteps(p) # {Len(p)}
  <2>1. NormalizeLeaf(p, v) = v
    BY <1>5 DEF NormalizeLeaf
  <2> QED BY <1>5, <2>1
<1> QED BY <1>4, <1>5, <1>3

\* A scalar, and an element of a list of scalars, is at such a place.
LEMMA StorablePlaces ==
  ASSUME NEW p \in Path
  PROVE  /\ Len(p) = 1 => ListSteps(p) = {}
         /\ Len(p) = 2 /\ p[2][1] = "list" => ListSteps(p) = {Len(p)}
<1>1. Len(p) \in Nat /\ DOMAIN p = 1 .. Len(p) /\ p[1][1] # "list"
  BY PathAssumption
<1>2. ASSUME Len(p) = 1 PROVE ListSteps(p) = {}
  BY <1>1, <1>2 DEF ListSteps
<1>3. ASSUME Len(p) = 2, p[2][1] = "list" PROVE ListSteps(p) = {Len(p)}
  BY <1>1, <1>3 DEF ListSteps
<1> QED BY <1>2, <1>3

\* What is read back of a document: each number in range as the double nearest
\* to it, or nothing of it when a number in a list is out of range.
LEMMA DocumentReadBack ==
  ASSUME NEW d, Document(d)
  PROVE  LET m == NormalizeNumbers(d)
             lost == \E p \in DOMAIN d : /\ d[p][1] = "number" /\ d[p][2] \notin Float64
                                         /\ ListSteps(p) # {}
         IN  /\ Readable(m) <=> ~lost
             /\ Readable(m) =>
                   /\ DOMAIN ReadBack(m) = DOMAIN d
                   /\ \A p \in DOMAIN d :
                         d[p][1] = "number" /\ d[p][2] \in Float64 =>
                            ReadBack(m)[p] = <<"float", Nearest[d[p][2]]>>
                   /\ ReadBack(ReadBack(m)) = ReadBack(m)
<1> DEFINE m == NormalizeNumbers(d)
           lost == \E p \in DOMAIN d : /\ d[p][1] = "number" /\ d[p][2] \notin Float64
                                       /\ ListSteps(p) # {}
<1>1. DOMAIN m = DOMAIN d /\ \A p \in DOMAIN d : m[p] = NormalizeLeaf(p, d[p])
  BY DEF NormalizeNumbers
<1>2. ASSUME NEW p \in DOMAIN d
      PROVE  /\ d[p][1] # "number" => ~IsNumber(m[p])
             /\ d[p][1] = "number" /\ d[p][2] \in Float64 =>
                   /\ IsNumber(m[p]) /\ m[p][2] \in Float64
                   /\ Nearest[m[p][2]] = Nearest[d[p][2]]
             /\ d[p][1] = "number" /\ d[p][2] \notin Float64 =>
                   IF ListSteps(p) = {} THEN ~IsNumber(m[p])
                   ELSE IsNumber(m[p]) /\ m[p][2] \notin Float64
  <2>1. p \in Path /\ d[p] \in Leaf
    BY DEF Document
  <2>2. m[p] = NormalizeLeaf(p, d[p])
    BY <1>1
  <2> HIDE DEF m
  <2>3. CASE d[p][1] # "number"
    BY <2>1, <2>2, <2>3, Leaves, LeafNormalized
  <2>4. CASE d[p][1] = "number" /\ d[p][2] \in Float64
    <3>1. m[p] \in {d[p], <<"int", d[p][2]>>, <<"float", Nearest[d[p][2]]>>}
      BY <2>1, <2>2, <2>4, LeafNormalized
    <3>2. Nearest[d[p][2]] \in Float64 /\ Nearest[Nearest[d[p][2]]] = Nearest[d[p][2]]
      BY <2>4, NumeralAssumption
    <3> QED BY <2>4, <3>1, <3>2 DEF IsNumber
  <2>5. CASE d[p][1] = "number" /\ d[p][2] \notin Float64
    <3>1. m[p] = IF ListSteps(p) = {} THEN <<"string", d[p][2]>> ELSE d[p]
      BY <2>1, <2>2, <2>5, LeafNormalized
    <3> QED BY <2>5, <3>1 DEF IsNumber
  <2> QED BY <2>3, <2>4, <2>5
<1> HIDE DEF m
<1>3. Readable(m) <=> ~lost
  BY <1>1, <1>2 DEF Readable
<1>4. ASSUME Readable(m)
      PROVE  /\ DOMAIN ReadBack(m) = DOMAIN d
             /\ \A p \in DOMAIN d :
                   d[p][1] = "number" /\ d[p][2] \in Float64 =>
                      ReadBack(m)[p] = <<"float", Nearest[d[p][2]]>>
             /\ ReadBack(ReadBack(m)) = ReadBack(m)
  <2> DEFINE back == ReadBack(m)
  <2>1. back = [p \in DOMAIN d |-> Unmarshalled(m[p])]
    BY <1>1, <1>4 DEF ReadBack
  <2> HIDE DEF back
  <2>2. \A p \in DOMAIN d : d[p][1] = "number" /\ d[p][2] \in Float64 =>
                               back[p] = <<"float", Nearest[d[p][2]]>>
    BY <1>2, <2>1 DEF Unmarshalled
  <2>3. ASSUME NEW p \in DOMAIN d
        PROVE  /\ IsNumber(back[p]) => back[p][2] \in Float64
               /\ Unmarshalled(back[p]) = back[p]
    <3>1. CASE IsNumber(m[p])
      <4>1. m[p][2] \in Float64
        BY <1>1, <1>4, <3>1 DEF Readable
      <4>2. back[p] = <<"float", Nearest[m[p][2]]>>
        BY <2>1, <3>1 DEF Unmarshalled
      <4>3. Nearest[m[p][2]] \in Float64 /\ Nearest[Nearest[m[p][2]]] = Nearest[m[p][2]]
        BY <4>1, NumeralAssumption
      <4> QED BY <4>2, <4>3 DEF Unmarshalled, IsNumber
    <3>2. CASE ~IsNumber(m[p])
      BY <2>1, <3>2 DEF Unmarshalled
    <3> QED BY <3>1, <3>2
  <2>4. ReadBack(back) = [p \in DOMAIN d |-> Unmarshalled(back[p])]
    BY <2>1, <2>3 DEF ReadBack, Readable
  <2>5. [p \in DOMAIN d |-> Unmarshalled(back[p])] = back
    <3>1. [p \in DOMAIN d |-> Unmarshalled(back[p])] = [p \in DOMAIN d |-> back[p]]
      BY <2>3
    <3> QED BY <2>1, <3>1
  <2> QED BY <2>1, <2>2, <2>4, <2>5 DEF back
<1> QED BY <1>3, <1>4 DEF m

\* A document stays one while it grows.
LEMMA DocumentGrows == DocumentSpec => []Document(document)
<1>1. EmptyDocument => Document(document)
  BY DEF EmptyDocument, Document
<1>2. Document(document) /\ [DocumentNext]_document => Document(document)'
  <2>1. ASSUME Document(document), NEW p \in Path, NEW v \in Leaf, AddLeaf(p, v)
        PROVE  Document(document')
    <3>1. document' = [q \in DOMAIN document \cup {p} |-> IF q = p THEN v ELSE document[q]]
      BY <2>1 DEF AddLeaf
    <3> QED BY <2>1, <3>1 DEF Document
  <2> QED BY <2>1 DEF DocumentNext
<1> QED BY <1>1, <1>2, PTL DEF DocumentSpec

\* The numbers of a document reach the graph as values the driver takes, and its
\* readers as the doubles nearest to them (payload.go:71-72).
THEOREM NumbersReachReaders == DocumentSpec => []NumbersSurvive
<1>1. Document(document) => NumbersSurvive
  <2> DEFINE m == NormalizeNumbers(document)
             InRange(v) == v[1] = "number" /\ v[2] \in Float64
             Storable(p) == Len(p) = 1 \/ (Len(p) = 2 /\ p[2][1] = "list")
             Native(before, after) ==
                 IF InRange(before)
                 THEN after \in {<<"int", before[2]>>, <<"float", Nearest[before[2]]>>}
                 ELSE before[1] # "number" => after = before
             lost == \E p \in DOMAIN document :
                         /\ document[p][1] = "number" /\ ~InRange(document[p])
                         /\ ListSteps(p) # {}
  <2> SUFFICES ASSUME Document(document) PROVE NumbersSurvive
    OBVIOUS
  <2>1. ASSUME NEW p \in DOMAIN document
        PROVE  /\ Storable(p) => Native(document[p], m[p])
               /\ Len(p) = 1 => m[p][1] # "number"
    <3> DEFINE v == document[p]
    <3>1. p \in Path /\ v \in Leaf /\ m[p] = NormalizeLeaf(p, v)
      BY DEF Document, NormalizeNumbers
    <3>2. /\ Len(p) = 1 => ListSteps(p) = {}
          /\ Storable(p) => ListSteps(p) = {} \/ ListSteps(p) = {Len(p)}
      BY <3>1, StorablePlaces
    <3>3. v[1] = "number" => v = <<"number", v[2]>>
      BY <3>1, Leaves
    <3> HIDE DEF m, v
    <3>4. v[1] # "number" => m[p] = v
      BY <3>1, LeafNormalized
    <3>5. v[1] = "number" /\ v[2] \in Float64 =>
             /\ m[p] \in {v, <<"int", v[2]>>, <<"float", Nearest[v[2]]>>}
             /\ (ListSteps(p) = {} \/ ListSteps(p) = {Len(p)}) => m[p] # v
      BY <3>1, LeafNormalized
    <3>6. v[1] = "number" /\ v[2] \notin Float64 /\ ListSteps(p) = {} =>
             m[p] = <<"string", v[2]>>
      BY <3>1, LeafNormalized
    <3>7. Storable(p) => Native(v, m[p])
      BY <3>2, <3>4, <3>5
    <3>8. Len(p) = 1 => m[p][1] # "number"
      BY <3>2, <3>4, <3>5, <3>6
    <3> QED BY <3>7, <3>8 DEF v
  <2>2. /\ Readable(m) <=> ~lost
        /\ ~lost => /\ DOMAIN ReadBack(m) = DOMAIN document
                    /\ \A p \in DOMAIN document :
                          InRange(document[p]) =>
                              ReadBack(m)[p] = <<"float", Nearest[document[p][2]]>>
                    /\ ReadBack(ReadBack(m)) = ReadBack(m)
    BY DocumentReadBack
  <2>3. lost => ReadBack(m) = <<>>
    BY <2>2 DEF ReadBack
  <2> HIDE DEF m
  <2> QED BY <2>1, <2>2, <2>3 DEF NumbersSurvive, m
<1> QED BY <1>1, DocumentGrows, PTL

----------------------------------------------------------------------------
(* The lists of names. *)

\* The members every kind has.
BaseKeys == {"urn", "kind", "name", "language", "serviceURN", "metadata", "resolved"}

\* The decoder and the encoder of a kind name the same members for the same
\* fields, and none that every kind has.
ListsAgree(k) ==
    /\ \A f \in DOMAIN Decodes[k] :
          /\ f \in StructOf[k] /\ FieldType(f) # "slice"
          /\ Decodes[k][f] \in DOMAIN Encodes[k] /\ Encodes[k][Decodes[k][f]] = f
    /\ \A key \in DOMAIN Encodes[k] :
          /\ Encodes[k][key] \in DOMAIN Decodes[k]
          /\ Decodes[k][Encodes[k][key]] = key
          /\ key \notin BaseKeys
          /\ key \in AlwaysWritten => FieldType(Encodes[k][key]) = "bool"

\* The kinds init registers.
LEMMA KindsAre ==
  Kind = {"Service", "Database", "Broker", "Endpoint", "Function", "Method", "Struct",
          "Interface", "Type", "IfNode", "SwitchNode", "LoopNode", "TryNode", "Block",
          "ReturnNode", "ThrowNode", "Language", "Framework", "Runtime", "CallFunction",
          "CallHTTP", "CallDB", "PublishEvent", "ErrorType", "Middleware", "Config",
          "LogNode", "EntryNode", "ExitNode", "JoinNode", "ConsumeEvent"}
BY DEF Kind, Decodes, DecodesContainers, DecodesFlow, DecodesCalls, Over

\* So it is with each of them.
LEMMA TablesAgree == \A k \in Kind : ListsAgree(k)
<1> USE DEF ListsAgree, Decodes, DecodesContainers, DecodesFlow, DecodesCalls, Encodes,
            EncodesContainers, EncodesTechAndCalls, StructOf, FieldsOf, FieldsOfTechAndCalls,
            Over, FieldType, BaseKeys, AlwaysWritten
<1>1. ListsAgree("Service")
  BY SMTT(60)
<1>2. ListsAgree("Database") /\ ListsAgree("Broker") /\ ListsAgree("Endpoint")
  BY SMTT(60)
<1>3. ListsAgree("Function") /\ ListsAgree("Method") /\ ListsAgree("Struct") /\ ListsAgree("Interface")
  BY SMTT(60)
<1>4. ListsAgree("Type") /\ ListsAgree("IfNode") /\ ListsAgree("SwitchNode") /\ ListsAgree("LoopNode")
  BY SMTT(60)
<1>5. ListsAgree("TryNode") /\ ListsAgree("Block") /\ ListsAgree("ReturnNode") /\ ListsAgree("ThrowNode")
  BY SMTT(60)
<1>6. ListsAgree("Language") /\ ListsAgree("Framework") /\ ListsAgree("Runtime") /\ ListsAgree("CallFunction")
  BY SMTT(60)
<1>7. ListsAgree("CallHTTP")
  BY SMTT(60)
<1>8. ListsAgree("CallDB")
  BY SMTT(60)
<1>9. ListsAgree("PublishEvent")
  BY SMTT(60)
<1>10. ListsAgree("ErrorType")
  BY SMTT(60)
<1>11. ListsAgree("ConsumeEvent")
  BY SMTT(60)
<1>12. ListsAgree("Middleware")
  BY SMTT(60)
<1>13. ListsAgree("Config")
  BY SMTT(60)
<1>14. ListsAgree("LogNode")
  BY SMTT(60)
<1>15. ListsAgree("EntryNode") /\ ListsAgree("ExitNode") /\ ListsAgree("JoinNode")
  BY SMTT(60)
<1> HIDE DEF ListsAgree, Decodes
<1> QED BY <1>1, <1>2, <1>3, <1>4, <1>5, <1>6, <1>7, <1>8, <1>9, <1>10, <1>11,
           <1>12, <1>13, <1>14, <1>15, KindsAre

\* What the view shows of a kind is what its decoder reads, under the same name;
\* but for the time of the extraction and a flag it is text.
ShowsAgree(k) ==
    /\ k \in Kind
    /\ \A key \in DOMAIN Shows[k] :
          /\ Shows[k][key] \in DOMAIN Decodes[k] /\ Decodes[k][Shows[k][key]] = key
          /\ key \notin BaseKeys
          /\ key \notin {"lastExtractedAt", "isAsync"} => FieldType(Shows[k][key]) = "string"

\* The kinds that show something of their own.
LEMMA ShownKinds ==
  DOMAIN Shows = {"Service", "Database", "Broker", "Endpoint", "Function", "Method", "IfNode",
                  "SwitchNode", "LoopNode", "CallFunction", "CallHTTP", "CallDB",
                  "PublishEvent", "ConsumeEvent"}
BY DEF Shows, ShowsContainers, ShowsCalls, Over

\* So it is with each of them.
LEMMA ShowsFit == \A k \in DOMAIN Shows : ShowsAgree(k)
<1> USE DEF ShowsAgree, Decodes, DecodesContainers, DecodesFlow, DecodesCalls, Shows,
            ShowsContainers, ShowsCalls, Over, FieldType, BaseKeys, Kind
<1>1. ShowsAgree("Service")
  BY SMTT(60)
<1>2. ShowsAgree("Database") /\ ShowsAgree("Broker")
  BY SMTT(60)
<1>3. ShowsAgree("Endpoint")
  BY SMTT(60)
<1>4. ShowsAgree("Function") /\ ShowsAgree("Method")
  BY SMTT(60)
<1>5. ShowsAgree("IfNode") /\ ShowsAgree("SwitchNode") /\ ShowsAgree("LoopNode")
  BY SMTT(60)
<1>6. ShowsAgree("CallHTTP")
  BY SMTT(60)
<1>7. ShowsAgree("CallFunction") /\ ShowsAgree("CallDB") /\ ShowsAgree("PublishEvent") /\ ShowsAgree("ConsumeEvent")
  BY SMTT(60)
<1> HIDE DEF ShowsAgree, Decodes, Shows
<1> QED BY <1>1, <1>2, <1>3, <1>4, <1>5, <1>6, <1>7, ShownKinds

\* A call shows its link, and reads it from where the linker writes it.
LEMMA CallHTTPNames ==
  /\ "CallHTTP" \in Kind /\ "CallHTTP" \in Stubs /\ "CallHTTP" \in DOMAIN Shows
  /\ "TargetURN" \in DOMAIN Decodes["CallHTTP"] /\ Decodes["CallHTTP"]["TargetURN"] = "targetURN"
  /\ "targetURN" \in DOMAIN Shows["CallHTTP"] /\ Shows["CallHTTP"]["targetURN"] = "TargetURN"
  /\ FieldType("TargetURN") = "string"
  /\ \A f \in StructOf["CallHTTP"] : FieldType(f) = "string"
BY KindsAre, ShownKinds
   DEF Stubs, Decodes, DecodesContainers, DecodesFlow, DecodesCalls, Shows, ShowsContainers,
       ShowsCalls, StructOf, FieldsOf, FieldsOfTechAndCalls, Over, FieldType

\* The type of a field, and what it is when nothing was read into it.
LEMMA FieldTypes ==
  ASSUME NEW f
  PROVE  /\ FieldType(f) \in {"bool", "int", "time", "slice", "string"}
         /\ FieldType(f) = "bool" => ZeroOf(f) = FALSE
         /\ FieldType(f) = "int" => ZeroOf(f) = 0
         /\ FieldType(f) \in {"time", "string"} => ZeroOf(f) = ""
BY DEF FieldType, ZeroOf

----------------------------------------------------------------------------
(* There and back. *)

\* A struct has these members and no other.
IsNode(n) ==
    n = [struct |-> n.struct, urn |-> n.urn, kind |-> n.kind, name |-> n.name,
         serviceURN |-> n.serviceURN, language |-> n.language,
         resolved |-> n.resolved, metadata |-> n.metadata, fields |-> n.fields]

\* A struct with two of its members set.
LEMMA NodeChanged ==
  ASSUME NEW n, IsNode(n), NEW r, NEW fs
  PROVE  Over([resolved |-> r, fields |-> fs], n)
           = [struct |-> n.struct, urn |-> n.urn, kind |-> n.kind, name |-> n.name,
              serviceURN |-> n.serviceURN, language |-> n.language,
              resolved |-> r, metadata |-> n.metadata, fields |-> fs]
<1>1. DOMAIN n = {"struct", "urn", "kind", "name", "serviceURN", "language", "resolved",
                  "metadata", "fields"}
  BY DEF IsNode
<1> QED BY <1>1 DEF Over

\* A struct that DecodeByKind made of kind k: what no decoder reads is zero, a
\* time is one, and metadata has been read once.
Decoded(n, k) ==
    /\ IsNode(n) /\ n.struct = k /\ n.kind = k
    /\ n.resolved \in BOOLEAN
    /\ n.metadata # "" => n.metadata \in MetaText /\ Reread[n.metadata] = n.metadata
    /\ n.fields = [f \in StructOf[k] |-> n.fields[f]]
    /\ \A f \in StructOf[k] :
          /\ f \notin DOMAIN Decodes[k] => n.fields[f] = ZeroOf(f)
          /\ FieldType(f) = "time" => n.fields[f] \in TimeText \cup {""}

\* A property of the graph a decoder can read.
Typed(props) ==
    \A key \in DOMAIN props : props[key][1] = "bool" => props[key][2] \in BOOLEAN

\* Whatever the properties, the decoder makes such a struct.
LEMMA DecodeMakes ==
  ASSUME NEW k \in Kind, NEW props, Typed(props), OptString(props, "kind") = k
  PROVE  Decoded(Decode(k, props), k)
<1> DEFINE n == Decode(k, props)
<1>1. IsNode(n) /\ n.struct = k /\ n.kind = k
  BY DEF Decode, IsNode
<1>2. n.resolved \in BOOLEAN
  BY DEF Decode, Typed, OptBool, Has
<1>3. n.metadata # "" => n.metadata \in MetaText /\ Reread[n.metadata] = n.metadata
  BY MetadataAssumption DEF Decode, OptJSONMap
<1>4. n.fields = [f \in StructOf[k] |-> n.fields[f]]
  BY DEF Decode
<1>5. ASSUME NEW f \in StructOf[k]
      PROVE  /\ f \notin DOMAIN Decodes[k] => n.fields[f] = ZeroOf(f)
             /\ FieldType(f) = "time" => n.fields[f] \in TimeText \cup {""}
  <2>1. n.fields[f] = DecodeField(k, props, f)
    BY DEF Decode
  <2>2. FieldType(f) = "time" => DecodeField(k, props, f) \in TimeText \cup {""}
    BY FieldTypes DEF DecodeField, OptTime
  <2>3. f \notin DOMAIN Decodes[k] => DecodeField(k, props, f) = ZeroOf(f)
    BY DEF DecodeField
  <2> QED BY <2>1, <2>2, <2>3
<1> QED BY <1>1, <1>2, <1>3, <1>4, <1>5 DEF Decoded

\* What the encoder writes of a field: nothing when it is zero, except for the
\* flags that are always written.
LEMMA FieldWritten ==
  ASSUME NEW k \in Kind, NEW n, Decoded(n, k), NEW key \in DOMAIN Encodes[k]
  PROVE  /\ key \in DOMAIN Encode(n) <=>
                key \in AlwaysWritten \/ n.fields[Encodes[k][key]] # ZeroOf(Encodes[k][key])
         /\ key \in DOMAIN Encode(n) => Encode(n)[key] = FieldValue(n, Encodes[k][key])
<1>1. n.struct = k /\ key \notin BaseKeys
  BY TablesAgree DEF Decoded, ListsAgree
<1>2. key \notin DOMAIN EncodeBase(n)
  BY <1>1 DEF EncodeBase, Restrict, BaseKeys
<1> QED BY <1>1, <1>2 DEF Encode, EncodeFields, Over

\* A member is one that every kind has or one of a field, never both.
LEMMA EncodeParts ==
  ASSUME NEW k \in Kind, NEW n, Decoded(n, k)
  PROVE  /\ DOMAIN Encode(n) \subseteq BaseKeys \cup DOMAIN Encodes[k]
         /\ \A key \in BaseKeys :
               /\ key \in DOMAIN Encode(n) <=> key \in DOMAIN EncodeBase(n)
               /\ key \in DOMAIN EncodeBase(n) => Encode(n)[key] = EncodeBase(n)[key]
<1>1. n.struct = k
  BY DEF Decoded
<1>2. \A key \in BaseKeys : key \notin DOMAIN EncodeFields(n)
  BY <1>1, TablesAgree DEF ListsAgree, EncodeFields
<1>3. DOMAIN EncodeBase(n) \subseteq BaseKeys /\ DOMAIN EncodeFields(n) \subseteq DOMAIN Encodes[k]
  BY <1>1 DEF EncodeBase, Restrict, BaseKeys, EncodeFields
<1> QED BY <1>2, <1>3 DEF Encode, Over

\* What is written of the members every kind has.
LEMMA BaseWritten ==
  ASSUME NEW k \in Kind, NEW n, Decoded(n, k)
  PROVE  /\ OptString(Encode(n), "urn") = n.urn
         /\ OptString(Encode(n), "kind") = n.kind
         /\ OptString(Encode(n), "name") = n.name
         /\ OptString(Encode(n), "language") = n.language
         /\ OptString(Encode(n), "serviceURN") = n.serviceURN
         /\ OptString(Encode(n), "metadata") = n.metadata
         /\ Encode(n)["kind"] = Text(k)
         /\ OptBool(Encode(n), "resolved", TRUE) = (n.resolved \/ k \notin Stubs)
<1>1. n.struct = k /\ n.kind = k /\ n.resolved \in BOOLEAN
  BY DEF Decoded
<1>3. \A key \in BaseKeys :
         /\ key \in DOMAIN Encode(n) <=> key \in DOMAIN EncodeBase(n)
         /\ key \in DOMAIN EncodeBase(n) => Encode(n)[key] = EncodeBase(n)[key]
  BY EncodeParts
<1>4. /\ OptString(EncodeBase(n), "urn") = n.urn
      /\ OptString(EncodeBase(n), "kind") = n.kind
      /\ OptString(EncodeBase(n), "name") = n.name
      /\ OptString(EncodeBase(n), "language") = n.language
      /\ OptString(EncodeBase(n), "serviceURN") = n.serviceURN
      /\ OptString(EncodeBase(n), "metadata") = n.metadata
  BY DEF OptString, Has, EncodeBase, Restrict, BaseMembers, Text
<1>5. EncodeBase(n)["kind"] = Text(k) /\ "kind" \in DOMAIN EncodeBase(n)
  BY <1>1 DEF EncodeBase, Restrict, BaseMembers
<1>6. OptBool(EncodeBase(n), "resolved", TRUE) = (n.resolved \/ k \notin Stubs)
  BY <1>1 DEF OptBool, Has, EncodeBase, Restrict, BaseMembers, Flag
<1>7. \A key \in BaseKeys : OptString(Encode(n), key) = OptString(EncodeBase(n), key)
  BY <1>3 DEF OptString, Has
<1>8. OptBool(Encode(n), "resolved", TRUE) = OptBool(EncodeBase(n), "resolved", TRUE)
  BY <1>3 DEF OptBool, Has, BaseKeys
<1>9. {"urn", "kind", "name", "language", "serviceURN", "metadata"} \subseteq BaseKeys
  BY DEF BaseKeys
<1> QED BY <1>3, <1>4, <1>5, <1>6, <1>7, <1>8, <1>9

\* What is written is read as it is,
LEMMA ReadsWritten ==
  ASSUME NEW props, NEW key \in DOMAIN props, NEW v
  PROVE  /\ props[key] = Text(v) => OptString(props, key) = v
         /\ props[key] = Flag(v) => OptBool(props, key, FALSE) = v
<1>1. ASSUME props[key] = Text(v) PROVE OptString(props, key) = v
  <2>1. Has(props, key, "string")
    BY <1>1 DEF Has, Text
  <2>2. props[key][2] = v
    BY <1>1 DEF Text
  <2> QED BY <2>1, <2>2, Zenon DEF OptString
<1>2. ASSUME props[key] = Flag(v) PROVE OptBool(props, key, FALSE) = v
  <2>1. Has(props, key, "bool")
    BY <1>2 DEF Has, Flag
  <2>2. props[key][2] = v
    BY <1>2 DEF Flag
  <2> QED BY <2>1, <2>2, Zenon DEF OptBool
<1> QED BY <1>1, <1>2

\* so that a text left out when it is empty is not lost,
LEMMA TextReadBack ==
  ASSUME NEW props, NEW key, NEW v,
         key \in DOMAIN props => props[key] = Text(v),
         key \notin DOMAIN props => v = ""
  PROVE  OptString(props, key) = v
BY ReadsWritten, Zenon DEF OptString, Has

\* nor a flag left out when it is false.
LEMMA FlagReadBack ==
  ASSUME NEW props, NEW key, NEW v,
         key \in DOMAIN props => props[key] = Flag(v),
         key \notin DOMAIN props => v = FALSE
  PROVE  OptBool(props, key, FALSE) = v
<1>1. CASE key \in DOMAIN props
  BY <1>1, ReadsWritten
<1>2. CASE key \notin DOMAIN props
  BY <1>2, Zenon DEF OptBool, Has
<1> QED BY <1>1, <1>2

\* The decoder undoes the encoder: what a reader gets is what was encoded, the
\* time in whole seconds and resolved true unless the kind may be a stub.
LEMMA DecodeUndoesEncode ==
  ASSUME NEW k \in Kind, NEW n, Decoded(n, k)
  PROVE  Decode(k, Encode(n)) = AsKept(n)
<1>1. n.struct = k /\ n.kind = k /\ n.resolved \in BOOLEAN /\ IsNode(n)
  BY DEF Decoded
<1> DEFINE kept(f) == IF FieldType(f) = "time" /\ n.fields[f] # ""
                      THEN WholeSeconds[n.fields[f]] ELSE n.fields[f]
<1>2. ASSUME NEW f \in StructOf[k] PROVE DecodeField(k, Encode(n), f) = kept(f)
  <2>1. CASE f \notin DOMAIN Decodes[k]
    <3>1. n.fields[f] = ZeroOf(f) /\ DecodeField(k, Encode(n), f) = ZeroOf(f)
      BY <2>1 DEF Decoded, DecodeField
    <3>2. FieldType(f) = "time" => ZeroOf(f) = ""
      BY FieldTypes
    <3> QED BY <3>1, <3>2
  <2>2. CASE f \in DOMAIN Decodes[k]
    <3> DEFINE key == Decodes[k][f]
    <3>1. key \in DOMAIN Encodes[k] /\ Encodes[k][key] = f /\ FieldType(f) # "slice"
          /\ (key \in AlwaysWritten => FieldType(f) = "bool")
      BY <2>2, TablesAgree DEF ListsAgree
    <3>2. /\ key \in DOMAIN Encode(n) <=> key \in AlwaysWritten \/ n.fields[f] # ZeroOf(f)
          /\ key \in DOMAIN Encode(n) => Encode(n)[key] = FieldValue(n, f)
      BY <3>1, FieldWritten
    <3>3. CASE FieldType(f) = "bool"
      <4>1. DecodeField(k, Encode(n), f) = OptBool(Encode(n), key, FALSE) /\ ZeroOf(f) = FALSE
            /\ FieldValue(n, f) = Flag(n.fields[f])
        BY <2>2, <3>3, FieldTypes DEF DecodeField, FieldValue
      <4>2. OptBool(Encode(n), key, FALSE) = n.fields[f]
        BY <3>2, <4>1, FlagReadBack
      <4> QED BY <3>3, <4>1, <4>2
    <3>4. CASE FieldType(f) = "int"
      <4>1. DecodeField(k, Encode(n), f) = OptInt(Encode(n), key) /\ ZeroOf(f) = 0
            /\ FieldValue(n, f) = <<"int", n.fields[f]>>
        BY <2>2, <3>4, FieldTypes DEF DecodeField, FieldValue
      <4> QED BY <3>1, <3>2, <3>4, <4>1 DEF OptInt, Has
    <3>5. CASE FieldType(f) = "time"
      <4>1. DecodeField(k, Encode(n), f) = OptTime(Encode(n), key) /\ ZeroOf(f) = ""
            /\ (n.fields[f] # "" => FieldValue(n, f) = Text(WholeSeconds[n.fields[f]]))
        BY <2>2, <3>5, FieldTypes DEF DecodeField, FieldValue
      <4>2. n.fields[f] # "" => WholeSeconds[n.fields[f]] \in TimeText
        BY <3>5, TimeAssumption DEF Decoded
      <4>3. "" \notin TimeText
        BY TimeAssumption
      <4>4. key \notin AlwaysWritten
        BY <3>1, <3>5
      <4>5. OptString(Encode(n), key) = kept(f)
        BY <3>2, <3>5, <4>1, <4>4, TextReadBack
      <4> QED BY <3>5, <4>1, <4>2, <4>3, <4>5 DEF OptTime
    <3>6. CASE FieldType(f) = "string"
      <4>1. DecodeField(k, Encode(n), f) = OptString(Encode(n), key) /\ ZeroOf(f) = ""
            /\ FieldValue(n, f) = Text(n.fields[f])
        BY <2>2, <3>6, FieldTypes DEF DecodeField, FieldValue
      <4>2. key \notin AlwaysWritten
        BY <3>1, <3>6
      <4>3. OptString(Encode(n), key) = n.fields[f]
        BY <3>2, <4>1, <4>2, TextReadBack
      <4> QED BY <3>6, <4>1, <4>3
    <3> QED BY <3>1, <3>3, <3>4, <3>5, <3>6, FieldTypes
  <2> QED BY <2>1, <2>2
<1>3. DOMAIN n.fields = StructOf[k]
  BY DEF Decoded
<1>4. AsKept(n) = [struct |-> k, urn |-> n.urn, kind |-> k, name |-> n.name,
                   serviceURN |-> n.serviceURN, language |-> n.language,
                   resolved |-> n.resolved \/ k \notin Stubs, metadata |-> n.metadata,
                   fields |-> [f \in StructOf[k] |-> kept(f)]]
  <2> DEFINE fields == [f \in DOMAIN n.fields |-> kept(f)]
  <2>1. fields = [f \in StructOf[k] |-> kept(f)]
    BY <1>3
  <2>2. AsKept(n) = Over([resolved |-> n.resolved \/ n.struct \notin Stubs,
                          fields |-> fields], n)
    BY DEF AsKept
  <2> HIDE DEF fields
  <2>3. Over([resolved |-> n.resolved \/ n.struct \notin Stubs, fields |-> fields], n)
          = [struct |-> n.struct, urn |-> n.urn, kind |-> n.kind, name |-> n.name,
             serviceURN |-> n.serviceURN, language |-> n.language,
             resolved |-> n.resolved \/ n.struct \notin Stubs, metadata |-> n.metadata,
             fields |-> fields]
    BY <1>1, NodeChanged
  <2> QED BY <1>1, <2>1, <2>2, <2>3
<1>5. OptJSONMap(Encode(n), "metadata") = n.metadata
  BY BaseWritten, MetadataAssumption DEF OptJSONMap, Decoded
<1>6. Decode(k, Encode(n))
        = [struct |-> k, urn |-> n.urn, kind |-> k, name |-> n.name,
           serviceURN |-> n.serviceURN, language |-> n.language,
           resolved |-> n.resolved \/ k \notin Stubs, metadata |-> n.metadata,
           fields |-> [f \in StructOf[k] |-> DecodeField(k, Encode(n), f)]]
  BY <1>1, <1>5, BaseWritten DEF Decode
<1>7. [f \in StructOf[k] |-> DecodeField(k, Encode(n), f)] = [f \in StructOf[k] |-> kept(f)]
  BY <1>2
<1> QED BY <1>4, <1>6, <1>7

----------------------------------------------------------------------------
(* The link. *)

Linked(n, t) == Over([resolved |-> TRUE, fields |-> [n.fields EXCEPT !["TargetURN"] = t]], n)

\* A call with a link is still what its decoder may make.
LEMMA LinkedIsDecoded ==
  ASSUME NEW n, Decoded(n, "CallHTTP"), NEW t
  PROVE  /\ Decoded(Linked(n, t), "CallHTTP")
         /\ Linked(n, t) = [struct |-> n.struct, urn |-> n.urn, kind |-> n.kind,
                name |-> n.name, serviceURN |-> n.serviceURN, language |-> n.language,
                resolved |-> TRUE, metadata |-> n.metadata,
                fields |-> [n.fields EXCEPT !["TargetURN"] = t]]
<1> DEFINE fields == [n.fields EXCEPT !["TargetURN"] = t]
<1>1. IsNode(n) /\ n.struct = "CallHTTP" /\ n.kind = "CallHTTP"
      /\ (n.metadata # "" => n.metadata \in MetaText /\ Reread[n.metadata] = n.metadata)
  BY DEF Decoded
<1>2. DOMAIN n.fields = StructOf["CallHTTP"]
  BY DEF Decoded
<1>3. fields = [f \in StructOf["CallHTTP"] |-> fields[f]]
  BY <1>2
<1>4. \A f \in StructOf["CallHTTP"] :
         /\ f \notin DOMAIN Decodes["CallHTTP"] => fields[f] = ZeroOf(f)
         /\ FieldType(f) # "time"
  BY <1>2, CallHTTPNames DEF Decoded
<1> DEFINE m == Linked(n, t)
<1> HIDE DEF fields
<1>5. m = [struct |-> n.struct, urn |-> n.urn, kind |-> n.kind,
         name |-> n.name, serviceURN |-> n.serviceURN, language |-> n.language,
         resolved |-> TRUE, metadata |-> n.metadata, fields |-> fields]
  BY <1>1, NodeChanged DEF Linked, fields
<1>6. IsNode(m)
  BY <1>5 DEF IsNode
<1> HIDE DEF m
<1>7. m.struct = "CallHTTP" /\ m.kind = "CallHTTP" /\ m.resolved = TRUE
      /\ m.metadata = n.metadata /\ m.fields = fields
  BY <1>1, <1>5
<1>8. Decoded(m, "CallHTTP")
  <2>2. /\ m.resolved \in BOOLEAN
        /\ m.metadata # "" => m.metadata \in MetaText /\ Reread[m.metadata] = m.metadata
    BY <1>1, <1>7
  <2>3. m.fields = [f \in StructOf["CallHTTP"] |-> m.fields[f]]
    BY <1>3, <1>7
  <2>4. ASSUME NEW f \in StructOf["CallHTTP"]
        PROVE  /\ f \notin DOMAIN Decodes["CallHTTP"] => m.fields[f] = ZeroOf(f)
               /\ FieldType(f) = "time" => m.fields[f] \in TimeText \cup {""}
    BY <1>4, <1>7
  <2> QED BY <1>6, <1>7, <2>2, <2>3, <2>4 DEF Decoded
<1> QED BY <1>5, <1>8 DEF fields, m

\* What the linker sets is what the encoder would write of the call it links.
LEMMA LinkIsEncoded ==
  ASSUME NEW n, Decoded(n, "CallHTTP"), NEW t, t # ""
  PROVE  Over([targetURN |-> Text(t), resolved |-> Flag(TRUE)], Encode(n)) = Encode(Linked(n, t))
<1> DEFINE k == "CallHTTP"  m == Linked(n, t)
           set == Over([targetURN |-> Text(t), resolved |-> Flag(TRUE)], Encode(n))
<1>1. /\ Decoded(m, k) /\ Decoded(n, k) /\ n.struct = k /\ n.kind = k
      /\ m = [struct |-> n.struct, urn |-> n.urn, kind |-> n.kind,
                name |-> n.name, serviceURN |-> n.serviceURN, language |-> n.language,
                resolved |-> TRUE, metadata |-> n.metadata,
                fields |-> [n.fields EXCEPT !["TargetURN"] = t]]
  <2>1. n.struct = k /\ n.kind = k
    BY DEF Decoded
  <2> QED BY <2>1, LinkedIsDecoded
<1>2. k \in Kind /\ k \in Stubs /\ ListsAgree(k)
  BY CallHTTPNames, TablesAgree
<1> HIDE DEF m
<1>0. /\ m.struct = n.struct /\ m.resolved = TRUE
      /\ m.urn = n.urn /\ m.kind = n.kind /\ m.name = n.name /\ m.language = n.language
      /\ m.serviceURN = n.serviceURN /\ m.metadata = n.metadata
      /\ m.fields = [n.fields EXCEPT !["TargetURN"] = t]
  BY <1>1
<1>3. \A key \in BaseKeys \ {"resolved"} :
         /\ key \in DOMAIN EncodeBase(m) <=> key \in DOMAIN EncodeBase(n)
         /\ key \in DOMAIN EncodeBase(m) => EncodeBase(m)[key] = EncodeBase(n)[key]
  <2>1. \A key \in BaseKeys \ {"resolved"} : BaseMembers(m)[key] = BaseMembers(n)[key]
    <3>1. \A key \in BaseKeys \ {"resolved"} :
             key \in {"urn", "kind", "name", "language", "serviceURN", "metadata"}
      BY DEF BaseKeys
    <3>2. /\ BaseMembers(m)["urn"] = BaseMembers(n)["urn"]
          /\ BaseMembers(m)["kind"] = BaseMembers(n)["kind"]
          /\ BaseMembers(m)["name"] = BaseMembers(n)["name"]
          /\ BaseMembers(m)["language"] = BaseMembers(n)["language"]
          /\ BaseMembers(m)["serviceURN"] = BaseMembers(n)["serviceURN"]
          /\ BaseMembers(m)["metadata"] = BaseMembers(n)["metadata"]
      BY <1>0 DEF BaseMembers
    <3> QED BY <3>1, <3>2
  <2>2. DOMAIN EncodeBase(m) = DOMAIN EncodeBase(n)
    BY <1>0 DEF EncodeBase, Restrict
  <2>3. /\ \A key \in DOMAIN EncodeBase(m) : EncodeBase(m)[key] = BaseMembers(m)[key]
        /\ \A key \in DOMAIN EncodeBase(n) : EncodeBase(n)[key] = BaseMembers(n)[key]
    BY DEF EncodeBase, Restrict
  <2> QED BY <2>1, <2>2, <2>3
<1>4. "resolved" \in DOMAIN EncodeBase(m) /\ EncodeBase(m)["resolved"] = Flag(TRUE)
  BY <1>0, <1>1, <1>2 DEF EncodeBase, Restrict, BaseMembers
<1>5. ASSUME NEW key \in DOMAIN Encodes[k], key # "targetURN"
      PROVE  /\ key \in DOMAIN Encode(m) <=> key \in DOMAIN Encode(n)
             /\ key \in DOMAIN Encode(m) => Encode(m)[key] = Encode(n)[key]
  <2> DEFINE f == Encodes[k][key]
  <2>1. f # "TargetURN" /\ f \in StructOf[k]
    BY <1>2, <1>5, CallHTTPNames DEF ListsAgree
  <2>2. m.fields[f] = n.fields[f]
    BY <1>0, <1>1, <2>1 DEF Decoded
  <2>3. FieldValue(m, f) = FieldValue(n, f)
    BY <2>2 DEF FieldValue
  <2>4. /\ key \in DOMAIN Encode(n) <=> key \in AlwaysWritten \/ n.fields[f] # ZeroOf(f)
        /\ key \in DOMAIN Encode(n) => Encode(n)[key] = FieldValue(n, f)
    BY <1>1, <1>2, FieldWritten
  <2>5. /\ key \in DOMAIN Encode(m) <=> key \in AlwaysWritten \/ m.fields[f] # ZeroOf(f)
        /\ key \in DOMAIN Encode(m) => Encode(m)[key] = FieldValue(m, f)
    BY <1>1, <1>2, FieldWritten
  <2> HIDE DEF f
  <2> QED BY <2>2, <2>3, <2>4, <2>5
<1>6. "targetURN" \in DOMAIN Encode(m) /\ Encode(m)["targetURN"] = Text(t)
      /\ "targetURN" \notin BaseKeys
  <2>1. "targetURN" \in DOMAIN Encodes[k] /\ Encodes[k]["targetURN"] = "TargetURN"
        /\ "TargetURN" \in StructOf[k] /\ FieldType("TargetURN") = "string"
        /\ "targetURN" \notin BaseKeys
    BY <1>2, CallHTTPNames DEF ListsAgree
  <2>2. m.fields["TargetURN"] = t
    BY <1>0, <1>1, <2>1 DEF Decoded
  <2>3. FieldValue(m, "TargetURN") = Text(t) /\ ZeroOf("TargetURN") = ""
    BY <2>1, <2>2, FieldTypes DEF FieldValue
  <2> QED BY <1>1, <1>2, <2>1, <2>2, <2>3, FieldWritten
<1>7. DOMAIN Encode(m) \subseteq BaseKeys \cup DOMAIN Encodes[k]
      /\ DOMAIN Encode(n) \subseteq BaseKeys \cup DOMAIN Encodes[k]
  BY <1>1, <1>2, EncodeParts
<1>8. ASSUME NEW key \in BaseKeys \cup DOMAIN Encodes[k]
      PROVE  /\ key \in DOMAIN set <=> key \in DOMAIN Encode(m)
             /\ key \in DOMAIN set => set[key] = Encode(m)[key]
  <2>1. CASE key = "resolved"
    <3>1. key \in BaseKeys
      BY <2>1 DEF BaseKeys
    <3> QED BY <1>1, <1>2, <1>4, <2>1, <3>1, EncodeParts DEF Over
  <2>2. CASE key = "targetURN"
    BY <2>2, <1>6 DEF Over
  <2>3. CASE key \in BaseKeys \ {"resolved"}
    <3>1. key # "targetURN"
      BY <2>3, <1>6
    <3>2. key # "resolved" /\ key \in BaseKeys
      BY <2>3
    <3>3. /\ key \in DOMAIN Encode(m) <=> key \in DOMAIN EncodeBase(m)
          /\ key \in DOMAIN EncodeBase(m) => Encode(m)[key] = EncodeBase(m)[key]
          /\ key \in DOMAIN Encode(n) <=> key \in DOMAIN EncodeBase(n)
          /\ key \in DOMAIN EncodeBase(n) => Encode(n)[key] = EncodeBase(n)[key]
      BY <1>1, <1>2, <3>2, EncodeParts
    <3> QED BY <1>3, <2>3, <3>1, <3>2, <3>3 DEF Over
  <2>4. CASE key \in DOMAIN Encodes[k] /\ key \notin BaseKeys /\ key # "targetURN"
    <3>1. key # "resolved"
      BY <2>4 DEF BaseKeys
    <3> QED BY <2>4, <3>1, <1>5 DEF Over
  <2> QED BY <2>1, <2>2, <2>3, <2>4
<1>9. DOMAIN set \subseteq BaseKeys \cup DOMAIN Encodes[k]
  <2>1. "resolved" \in BaseKeys
    BY DEF BaseKeys
  <2> QED BY <1>6, <1>7, <2>1 DEF Over
<1>10. DOMAIN set = DOMAIN Encode(m)
  BY <1>7, <1>8, <1>9
<1>11. set = [key \in DOMAIN set |-> set[key]]
       /\ Encode(m) = [key \in DOMAIN Encode(m) |-> Encode(m)[key]]
  BY DEF Encode, Over
<1> QED BY <1>7, <1>8, <1>10, <1>11 DEF m

\* A second link takes the place of the first,
LEMMA LinkedAgain ==
  ASSUME NEW n, Decoded(n, "CallHTTP"), NEW t, NEW u
  PROVE  Linked(Linked(n, t), u) = Linked(n, u)
<1> DEFINE m == Linked(n, t)
<1>1. Decoded(m, "CallHTTP")
      /\ m = [struct |-> n.struct, urn |-> n.urn, kind |-> n.kind,
                name |-> n.name, serviceURN |-> n.serviceURN, language |-> n.language,
                resolved |-> TRUE, metadata |-> n.metadata,
                fields |-> [n.fields EXCEPT !["TargetURN"] = t]]
  BY LinkedIsDecoded
<1> HIDE DEF m
<1>2. Linked(m, u) = [struct |-> m.struct, urn |-> m.urn, kind |-> m.kind,
         name |-> m.name, serviceURN |-> m.serviceURN, language |-> m.language,
         resolved |-> TRUE, metadata |-> m.metadata,
         fields |-> [m.fields EXCEPT !["TargetURN"] = u]]
  BY <1>1, LinkedIsDecoded
<1>3. Linked(n, u) = [struct |-> n.struct, urn |-> n.urn, kind |-> n.kind,
         name |-> n.name, serviceURN |-> n.serviceURN, language |-> n.language,
         resolved |-> TRUE, metadata |-> n.metadata,
         fields |-> [n.fields EXCEPT !["TargetURN"] = u]]
  BY LinkedIsDecoded
<1>4. /\ m.struct = n.struct /\ m.urn = n.urn /\ m.kind = n.kind /\ m.name = n.name
      /\ m.serviceURN = n.serviceURN /\ m.language = n.language /\ m.metadata = n.metadata
      /\ m.fields = [n.fields EXCEPT !["TargetURN"] = t]
  BY <1>1
<1>5. [m.fields EXCEPT !["TargetURN"] = u] = [n.fields EXCEPT !["TargetURN"] = u]
  BY <1>4
<1> QED BY <1>2, <1>3, <1>4, <1>5 DEF m

\* and nothing of a call is lost in what the encoders drop.
LEMMA CallIsKept ==
  ASSUME NEW n, Decoded(n, "CallHTTP")
  PROVE  AsKept(n) = n
<1>1. /\ DOMAIN n.fields = StructOf["CallHTTP"] /\ n.struct = "CallHTTP"
      /\ n.resolved \in BOOLEAN /\ n.fields = [f \in DOMAIN n.fields |-> n.fields[f]]
      /\ IsNode(n)
  BY DEF Decoded
<1>2. [f \in DOMAIN n.fields |-> IF FieldType(f) = "time" /\ n.fields[f] # ""
                                 THEN WholeSeconds[n.fields[f]] ELSE n.fields[f]] = n.fields
  BY <1>1, CallHTTPNames
<1>3. (n.resolved \/ n.struct \notin Stubs) = n.resolved
  BY <1>1, CallHTTPNames
<1>4. AsKept(n) = Over([resolved |-> n.resolved, fields |-> n.fields], n)
  BY <1>2, <1>3 DEF AsKept
<1>5. Over([resolved |-> n.resolved, fields |-> n.fields], n)
        = [struct |-> n.struct, urn |-> n.urn, kind |-> n.kind, name |-> n.name,
           serviceURN |-> n.serviceURN, language |-> n.language,
           resolved |-> n.resolved, metadata |-> n.metadata, fields |-> n.fields]
  BY <1>1, NodeChanged
<1> QED BY <1>1, <1>4, <1>5 DEF IsNode

----------------------------------------------------------------------------
(* What the loader writes. *)

\* A property of a payload's node is a pair, a flag one of the two.
LEMMA FlattenedIsReadable ==
  ASSUME NEW nin \in NodeIn
  PROVE  /\ Typed(FlattenNode(nin))
         /\ \A key \in DOMAIN FlattenNode(nin) :
               LET value == FlattenNode(nin)[key] IN value = <<value[1], value[2]>>
<1> DEFINE said == FlattenNode(nin)
<1>1. ASSUME NEW key \in DOMAIN said
      PROVE  /\ said[key] = <<said[key][1], said[key][2]>>
             /\ said[key][1] = "bool" => said[key][2] \in BOOLEAN
  <2>1. CASE key \in DOMAIN nin.properties
    <3>1. said[key] = nin.properties[key]
      BY <2>1 DEF FlattenNode, Over
    <3> HIDE DEF said
    <3> QED BY <2>1, <3>1, NodeAssumption
  <2>2. CASE key \notin DOMAIN nin.properties
    <3> DEFINE member == [urn |-> Text(nin.urn), kind |-> Text(nin.kind),
                   name |-> Text(nin.name), resolved |-> Flag(nin.resolved),
                   lastExtractedAt |-> Text(nin.extractedAt),
                   sourceRev |-> Text(nin.sourceRev), metadata |-> Text(nin.metadata)]
    <3>1. /\ key \in DOMAIN member /\ said[key] = member[key]
          /\ key = "resolved" => nin.resolved # Absent
      BY <2>2, <1>1 DEF FlattenNode, Over, Restrict
    <3>2. \/ key = "resolved" /\ member[key] = <<"bool", nin.resolved>>
          \/ member[key] = <<"string", member[key][2]>>
      BY <3>1 DEF Text, Flag
    <3> HIDE DEF said, member
    <3>3. CASE key = "resolved" /\ member[key] = <<"bool", nin.resolved>>
      BY <3>1, <3>3, NodeAssumption
    <3>4. CASE member[key] = <<"string", member[key][2]>>
      BY <3>1, <3>4
    <3> QED BY <3>2, <3>3, <3>4
  <2> QED BY <2>1, <2>2
<1> QED BY <1>1 DEF Typed

----------------------------------------------------------------------------
(* One node. *)

Loaded == Decode(given.kind, FlattenNode(given))

\* The inductive invariant: what is stored is the encoding of the struct the
\* loader decoded, with the link if there is one, and only an HTTP call has one.
StoredAsDecoded ==
    /\ target \in Target \cup {Absent}
    /\ outcome # "stored" => target = Absent
    /\ outcome = "stored" =>
          /\ given \in NodeIn /\ given.kind \in Kind
          /\ Decoded(Loaded, given.kind)
          /\ target # Absent => given.kind = "CallHTTP"
          /\ stored = Encode(AsLinked(Loaded))

\* A node that is stored had a registered kind, which no property of it changed.
LEMMA StoredHasItsKind ==
  ASSUME NEW nin \in NodeIn, LoadOutcome(nin) = "stored"
  PROVE  nin.kind \in Kind /\ Decoded(Decode(nin.kind, FlattenNode(nin)), nin.kind)
<1> DEFINE props == FlattenNode(nin)  n == Decode(nin.kind, props)
<1>1. nin.kind \in Kind /\ EncodeOutcome(n) = "stored"
  BY DEF LoadOutcome
<1>2. n.kind = n.struct
  <2> HIDE DEF n
  <2> QED BY <1>1 DEF EncodeOutcome
<1>3. OptString(props, "kind") = nin.kind
  BY <1>2 DEF Decode
<1> QED BY <1>1, <1>3, FlattenedIsReadable, DecodeMakes

\* A text is the text it holds.
LEMMA TextsDiffer ==
  ASSUME NEW s PROVE Text(s)[2] = s /\ \A u : Text(s) = Text(u) => s = u
BY DEF Text

\* What is stored is a struct of its kind, with or without a link.
LEMMA StoredIsDecoded ==
  ASSUME StoredAsDecoded, outcome = "stored"
  PROVE  /\ given \in NodeIn /\ given.kind \in Kind
         /\ Decoded(Loaded, given.kind) /\ Decoded(AsLinked(Loaded), given.kind)
         /\ stored = Encode(AsLinked(Loaded))
         /\ stored["kind"] = Text(given.kind)
         /\ target # Absent => given.kind = "CallHTTP" /\ target \in Target /\ target # ""
                               /\ AsLinked(Loaded) = Linked(Loaded, target)
<1>1. /\ given \in NodeIn /\ given.kind \in Kind
      /\ Decoded(Loaded, given.kind)
      /\ stored = Encode(AsLinked(Loaded))
      /\ target # Absent => given.kind = "CallHTTP" /\ target \in Target /\ target # ""
  BY TargetAssumption DEF StoredAsDecoded
<1>2. target # Absent => AsLinked(Loaded) = Linked(Loaded, target)
  BY DEF AsLinked, Linked
<1>3. Decoded(AsLinked(Loaded), given.kind)
  <2>1. CASE target = Absent
    BY <1>1, <2>1 DEF AsLinked
  <2>2. CASE target # Absent
    BY <1>1, <1>2, <2>2, LinkedIsDecoded
  <2> QED BY <2>1, <2>2
<1>4. stored["kind"] = Text(given.kind)
  BY <1>1, <1>3, BaseWritten
<1> QED BY <1>1, <1>2, <1>3, <1>4

\* It holds of each behaviour.
LEMMA StoredAsDecodedHolds == CodecSpec => []StoredAsDecoded
<1>1. CodecInit => StoredAsDecoded
  BY DEF CodecInit, StoredAsDecoded
<1>2. StoredAsDecoded /\ [CodecNext]_codecVars => StoredAsDecoded'
  <2> SUFFICES ASSUME StoredAsDecoded, [CodecNext]_codecVars PROVE StoredAsDecoded'
    OBVIOUS
  <2>1. CASE LoadNode
    <3>1. PICK nin \in NodeIn :
             /\ given' = nin /\ outcome' = LoadOutcome(nin)
             /\ outcome' = "stored" => stored' = Encode(Decode(nin.kind, FlattenNode(nin)))
      BY <2>1 DEF LoadNode
    <3>2. target' = Absent
      BY <2>1 DEF LoadNode, StoredAsDecoded
    <3>3. ASSUME outcome' = "stored"
          PROVE  /\ given' \in NodeIn /\ (given.kind)' \in Kind
                 /\ Decoded(Loaded', (given.kind)')
                 /\ stored' = Encode(AsLinked(Loaded)')
      <4>1. nin.kind \in Kind /\ Decoded(Decode(nin.kind, FlattenNode(nin)), nin.kind)
        BY <3>1, <3>3, StoredHasItsKind
      <4>2. Loaded' = Decode(nin.kind, FlattenNode(nin)) /\ AsLinked(Loaded)' = Loaded'
        BY <3>1, <3>2 DEF Loaded, AsLinked
      <4> QED BY <3>1, <3>3, <4>1, <4>2
    <3> QED BY <3>2, <3>3 DEF StoredAsDecoded
  <2>2. ASSUME NEW t \in Target, LinkNode(t) PROVE StoredAsDecoded'
    <3>1. /\ outcome = "stored" /\ stored["kind"] = Text("CallHTTP")
          /\ target' = t /\ given' = given /\ outcome' = outcome
          /\ stored' = Over([targetURN |-> Text(t), resolved |-> Flag(TRUE)], stored)
          /\ t # "" /\ t # Absent
      BY <2>2, TargetAssumption DEF LinkNode
    <3>2. /\ given \in NodeIn /\ given.kind \in Kind
          /\ Decoded(Loaded, given.kind) /\ Decoded(AsLinked(Loaded), given.kind)
          /\ stored = Encode(AsLinked(Loaded)) /\ stored["kind"] = Text(given.kind)
      BY <3>1, StoredIsDecoded
    <3>3. given.kind = "CallHTTP"
      BY <3>1, <3>2, TextsDiffer
    <3>4. stored' = Encode(Linked(AsLinked(Loaded), t))
      BY <3>1, <3>2, <3>3, LinkIsEncoded
    <3>5. Linked(AsLinked(Loaded), t) = Linked(Loaded, t)
      <4>1. CASE target = Absent
        BY <4>1 DEF AsLinked
      <4>2. CASE target # Absent
        <5>1. AsLinked(Loaded) = Linked(Loaded, target)
          BY <4>2 DEF AsLinked, Linked
        <5> QED BY <3>2, <3>3, <5>1, LinkedAgain
      <4> QED BY <4>1, <4>2
    <3>6. Loaded' = Loaded /\ AsLinked(Loaded)' = Linked(Loaded, t)
      BY <3>1 DEF Loaded, AsLinked, Linked
    <3> QED BY <3>1, <3>2, <3>3, <3>4, <3>5, <3>6 DEF StoredAsDecoded
  <2>3. CASE UNCHANGED codecVars
    BY <2>3 DEF codecVars, StoredAsDecoded, Loaded, AsLinked
  <2> QED BY <2>1, <2>2, <2>3 DEF CodecNext
<1> QED BY <1>1, <1>2, PTL DEF CodecSpec

\* Every struct that was stored is read back as it was loaded, a link on top
\* (encoders.go:9).
THEOREM StructsSurvive == CodecSpec => []ReadsAsLoaded
<1>1. StoredAsDecoded => ReadsAsLoaded
  <2> SUFFICES ASSUME StoredAsDecoded, outcome = "stored"
               PROVE  Decode(stored["kind"][2], stored) = AsLinked(AsKept(Loaded))
    BY DEF ReadsAsLoaded, Loaded
  <2>1. /\ given.kind \in Kind
        /\ Decoded(Loaded, given.kind) /\ Decoded(AsLinked(Loaded), given.kind)
        /\ stored = Encode(AsLinked(Loaded)) /\ stored["kind"] = Text(given.kind)
    BY StoredIsDecoded
  <2>2. Decode(stored["kind"][2], stored) = AsKept(AsLinked(Loaded))
    BY <2>1, DecodeUndoesEncode, TextsDiffer
  <2>3. CASE target = Absent
    BY <2>2, <2>3 DEF AsLinked
  <2>4. CASE target # Absent
    <3>1. given.kind = "CallHTTP"
      BY <2>4, StoredIsDecoded
    <3>2. AsKept(AsLinked(Loaded)) = AsLinked(Loaded) /\ AsKept(Loaded) = Loaded
      BY <2>1, <3>1, CallIsKept
    <3> QED BY <2>2, <3>2
  <2> QED BY <2>3, <2>4
<1> QED BY <1>1, StoredAsDecodedHolds, PTL

\* The view shows a text as it is in the struct, or leaves it out when it is empty.
ListsText(d, key, f) ==
    /\ d.struct \in DOMAIN Shows
    /\ key \in DOMAIN Shows[d.struct]
    /\ f = Shows[d.struct][key]
    /\ FieldType(f) = "string"
ShowsText(d, key, text) ==
    /\ key \in DOMAIN View(d) => View(d)[key] = Text(text)
    /\ key \notin DOMAIN View(d) => text = ""

LEMMA TextsShown ==
  ASSUME NEW d, NEW key, NEW f, ListsText(d, key, f)
  PROVE  ShowsText(d, key, d.fields[f])
<1> USE DEF ListsText, ShowsText
<1>1. key \notin BaseKeys
  BY ShowsFit DEF ShowsAgree
<1>2. FieldValue(d, f) = Text(d.fields[f]) /\ ZeroOf(f) = ""
  BY FieldTypes DEF FieldValue
<1>3. key \in DOMAIN View(d) <=> key \notin OmitEmpty \/ d.fields[f] # ZeroOf(f)
  BY <1>1 DEF View, Over, Restrict, BaseKeys
<1>4. key \in DOMAIN View(d) => View(d)[key] = FieldValue(d, f)
  BY <1>1, <1>3 DEF View, Over, Restrict, BaseKeys
<1> QED BY <1>2, <1>3, <1>4

\* And whether the node is resolved.
LEMMA ResolvedShown ==
  ASSUME NEW d
  PROVE  View(d)["resolved"] = Flag(d.resolved)
<1>1. d.struct \in DOMAIN Shows => "resolved" \notin DOMAIN Shows[d.struct]
  BY ShowsFit DEF ShowsAgree, BaseKeys
<1> QED BY <1>1 DEF View, Over, Restrict, BaseMembers

\* A text the loader decoded is in the struct a reader gets, unless it is the
\* link.
LEMMA TextsKept ==
  ASSUME StoredAsDecoded, ReadsAsLoaded, outcome = "stored",
         NEW f \in DOMAIN Decodes[given.kind], FieldType(f) = "string",
         f # "TargetURN" \/ target = Absent
  PROVE  Decode(stored["kind"][2], stored).fields[f]
           = OptString(FlattenNode(given), Decodes[given.kind][f])
<1> DEFINE k == given.kind  n == Loaded  said == FlattenNode(given)
           d == Decode(stored["kind"][2], stored)
<1>1. /\ k \in Kind /\ Decoded(n, k) /\ d = AsLinked(AsKept(n))
      /\ target # Absent => k = "CallHTTP"
  BY StoredIsDecoded DEF ReadsAsLoaded, Loaded
<1>2. f \in StructOf[k]
  BY <1>1, TablesAgree DEF ListsAgree
<1>3. n.fields[f] = OptString(said, Decodes[k][f])
  <2>1. n.fields[f] = DecodeField(k, said, f)
    BY <1>2 DEF Loaded, Decode
  <2> QED BY <2>1 DEF DecodeField
<1>4. IsNode(n) /\ DOMAIN n.fields = StructOf[k]
  BY <1>1 DEF Decoded
<1>5. d.fields[f] = n.fields[f]
  <2>1. CASE target = Absent
    <3> DEFINE fields == [g \in DOMAIN n.fields |-> IF FieldType(g) = "time" /\ n.fields[g] # ""
                                                   THEN WholeSeconds[n.fields[g]] ELSE n.fields[g]]
    <3>1. fields[f] = n.fields[f]
      BY <1>2, <1>4
    <3>2. d = Over([resolved |-> n.resolved \/ n.struct \notin Stubs, fields |-> fields], n)
      BY <1>1, <2>1 DEF AsLinked, AsKept
    <3> HIDE DEF fields, d, n
    <3>3. d.fields = fields
      BY <3>2 DEF Over
    <3> QED BY <3>1, <3>3
  <2>2. CASE target # Absent
    <3>1. AsKept(n) = n /\ Decoded(n, "CallHTTP")
      BY <1>1, <2>2, CallIsKept
    <3>2. d = Linked(n, target)
      BY <1>1, <2>2, <3>1 DEF AsLinked, Linked
    <3> HIDE DEF d, n
    <3>3. d.fields = [n.fields EXCEPT !["TargetURN"] = target]
      BY <3>2 DEF Linked, Over
    <3> QED BY <1>2, <1>4, <2>2, <3>3
  <2> QED BY <2>1, <2>2
<1> QED BY <1>3, <1>5

\* The texts every kind has are shown as they are in the struct,
Common == {"urn", "kind", "name", "language", "serviceURN"}

LEMMA CommonShown ==
  ASSUME NEW d, NEW key \in Common,
         d.struct \in DOMAIN Shows => key \notin DOMAIN Shows[d.struct]
  PROVE  /\ key \in DOMAIN View(d) => View(d)[key] = Text(d[key])
         /\ key \notin DOMAIN View(d) => d[key] = ""
<1>1. BaseMembers(d)[key] = Text(d[key])
  BY DEF Common, BaseMembers
<1>2. key \notin DOMAIN View(d) => d[key] = ""
  BY DEF Common, View, Over, Restrict, BaseMembers
<1>3. key \in DOMAIN View(d) => View(d)[key] = BaseMembers(d)[key]
  <2> DEFINE t == IF d.struct \in DOMAIN Shows THEN Shows[d.struct] ELSE <<>>
             shown == {m \in DOMAIN t : \/ m \notin OmitEmpty
                                       \/ d.fields[t[m]] # ZeroOf(t[m])}
             base == {"urn", "kind", "name", "resolved"}
                       \cup {m \in {"language"} : d.language # ""}
                       \cup {m \in {"serviceURN"} : d.serviceURN # ""}
             own == [m \in shown |-> FieldValue(d, t[m])]
             rest == Restrict(BaseMembers(d), base)
  <2>1. View(d) = Over(own, rest)
    BY DEF View
  <2>2. key \notin shown
    OBVIOUS
  <2>3. key \in DOMAIN rest => rest[key] = BaseMembers(d)[key]
    BY DEF Restrict
  <2>4. DOMAIN own = shown
    OBVIOUS
  <2> HIDE DEF own, rest, shown
  <2> QED BY <2>1, <2>2, <2>3, <2>4 DEF Over
<1> QED BY <1>1, <1>2, <1>3

\* and are in it what the properties said.
LEMMA CommonKept ==
  ASSUME StoredAsDecoded, ReadsAsLoaded, outcome = "stored", NEW key \in Common
  PROVE  Decode(stored["kind"][2], stored)[key] = OptString(FlattenNode(given), key)
<1> DEFINE n == Loaded
           d == Decode(stored["kind"][2], stored)
<1>1. Decoded(n, given.kind) /\ IsNode(n) /\ d = AsLinked(AsKept(n))
  BY StoredIsDecoded DEF ReadsAsLoaded, Loaded, Decoded
<1>2. n[key] = OptString(FlattenNode(given), key)
  BY DEF Common, Loaded, Decode
<1> HIDE DEF n, d
<1>3. AsKept(n)[key] = n[key] /\ key \in DOMAIN AsKept(n) /\ key \in DOMAIN n
  BY <1>1 DEF Common, AsKept, Over, IsNode
<1>4. AsLinked(AsKept(n))[key] = AsKept(n)[key]
  BY <1>3 DEF Common, AsLinked, Over
<1> QED BY <1>1, <1>2, <1>3, <1>4 DEF d

\* Without a link a node is resolved as the loader decoded it, or for its kind.
LEMMA ResolvedKept ==
  ASSUME StoredAsDecoded, ReadsAsLoaded, outcome = "stored", target = Absent
  PROVE  Decode(stored["kind"][2], stored).resolved
           = (given.kind \in Stubs => OptBool(FlattenNode(given), "resolved", TRUE))
<1> DEFINE n == Loaded
           d == Decode(stored["kind"][2], stored)
<1>1. Decoded(n, given.kind) /\ d = AsKept(n)
  BY StoredIsDecoded DEF ReadsAsLoaded, Loaded, AsLinked
<1>2. n.resolved = OptBool(FlattenNode(given), "resolved", TRUE)
  BY DEF Loaded, Decode
<1> HIDE DEF n, d
<1>3. n.struct = given.kind /\ n.resolved \in BOOLEAN
  BY <1>1 DEF Decoded
<1>4. AsKept(n).resolved = (n.resolved \/ n.struct \notin Stubs)
  BY DEF AsKept, Over
<1> QED BY <1>1, <1>2, <1>3, <1>4 DEF d

\* Every text that a client is shown of a node is the payload's, and of a call
\* the linker resolved it is the link; a node is shown as resolved or not as the
\* payload said it, if its kind may be a stub (view.go:13).
THEOREM ViewsTellPayloads == CodecSpec => []ViewTellsPayload
<1>1. StoredAsDecoded /\ ReadsAsLoaded => ViewTellsPayload
  <2> DEFINE k == given.kind  said == FlattenNode(given)
             d == Decode(stored["kind"][2], stored)
             linked == IF target = Absent THEN {} ELSE {"targetURN", "resolved"}
             own == IF k \in DOMAIN Shows THEN DOMAIN Shows[k] \ {"lastExtractedAt", "isAsync"}
                    ELSE {}
             Told(key) == /\ key \in DOMAIN View(d) => View(d)[key] = said[key]
                          /\ key \notin DOMAIN View(d) => said[key] = Text("")
  <2> SUFFICES ASSUME StoredAsDecoded, ReadsAsLoaded, outcome = "stored"
               PROVE  /\ \A key \in (Common \cup own) \ linked :
                            IF Has(said, key, "string") THEN Told(key)
                            ELSE key \in DOMAIN View(d) => View(d)[key] = Text("")
                      /\ linked # {} => /\ View(d)["targetURN"] = Text(target)
                                        /\ View(d)["resolved"] = Flag(TRUE)
                      /\ linked = {} => View(d)["resolved"] =
                            Flag(k \in Stubs => OptBool(said, "resolved", TRUE))
    BY DEF ViewTellsPayload, Common
  <2>1. /\ given \in NodeIn /\ k \in Kind /\ Decoded(Loaded, k)
        /\ target # Absent => k = "CallHTTP" /\ target # ""
        /\ d = AsLinked(AsKept(Loaded)) /\ d.struct = k
    <3>1. stored["kind"][2] = k
      BY StoredIsDecoded, TextsDiffer
    <3>2. d.struct = k
      BY <3>1 DEF Decode
    <3> QED BY <3>2, StoredIsDecoded DEF ReadsAsLoaded, Loaded
  <2>0. k \in DOMAIN Shows => Common \cap DOMAIN Shows[k] = {}
    BY ShowsFit DEF ShowsAgree, BaseKeys, Common
  <2>2. ASSUME NEW key \in own \ linked
        PROVE  IF Has(said, key, "string") THEN Told(key)
               ELSE key \in DOMAIN View(d) => View(d)[key] = Text("")
    <3> DEFINE f == Shows[k][key]
    <3>0. k \in DOMAIN Shows
      OBVIOUS
    <3>1. f \in DOMAIN Decodes[k] /\ Decodes[k][f] = key /\ FieldType(f) = "string"
      BY <3>0, ShowsFit DEF ShowsAgree
    <3>2. f # "TargetURN" \/ target = Absent
      BY <2>1, <3>1, CallHTTPNames
    <3>3. d.fields[f] = OptString(said, key)
      BY <3>1, <3>2, TextsKept
    <3> HIDE DEF said, d
    <3>4. d.struct = k /\ key \in DOMAIN Shows[k]
      BY <2>1, <3>0
    <3>5. /\ key \in DOMAIN View(d) => View(d)[key] = Text(d.fields[f])
          /\ key \notin DOMAIN View(d) => d.fields[f] = ""
      <4>1. d.struct \in DOMAIN Shows /\ key \in DOMAIN Shows[d.struct]
            /\ f = Shows[d.struct][key]
        BY <3>0, <3>4
      <4> HIDE DEF f
      <4>2. ListsText(d, key, f)
        BY <3>1, <4>1 DEF ListsText
      <4> QED BY <4>2, TextsShown DEF ShowsText
    <3>6. CASE Has(said, key, "string")
      <4>1. said[key] = Text(said[key][2])
        BY <2>1, <3>6, FlattenedIsReadable DEF Has, Text, said
      <4>2. OptString(said, key) = said[key][2]
        BY <3>6 DEF OptString
      <4> QED BY <3>3, <3>5, <3>6, <4>1, <4>2
    <3>7. CASE ~Has(said, key, "string")
      <4>1. OptString(said, key) = ""
        BY <3>7 DEF OptString
      <4> QED BY <3>3, <3>5, <3>7, <4>1
    <3> QED BY <3>6, <3>7
  <2>3. ASSUME linked # {}
        PROVE  View(d)["targetURN"] = Text(target) /\ View(d)["resolved"] = Flag(TRUE)
    <3>1. target # Absent /\ k = "CallHTTP" /\ target # ""
      BY <2>1, <2>3
    <3>2. AsKept(Loaded) = Loaded /\ Decoded(Loaded, "CallHTTP")
      BY <2>1, <3>1, CallIsKept
    <3>3. d = Linked(Loaded, target)
      BY <2>1, <3>1, <3>2 DEF AsLinked, Linked
    <3> HIDE DEF d
    <3>4. d.resolved = TRUE /\ d.fields = [Loaded.fields EXCEPT !["TargetURN"] = target]
      BY <3>3 DEF Linked, Over
    <3>5. d.fields["TargetURN"] = target
      <4>1. DOMAIN Loaded.fields = StructOf["CallHTTP"] /\ "TargetURN" \in StructOf["CallHTTP"]
        BY <3>2, CallHTTPNames, TablesAgree DEF Decoded, ListsAgree
      <4> QED BY <3>4, <4>1
    <3>6. "targetURN" \in DOMAIN View(d) /\ View(d)["targetURN"] = Text(target)
      <4>1. ListsText(d, "targetURN", "TargetURN")
        BY <2>1, <3>1, CallHTTPNames DEF ListsText
      <4> QED BY <3>1, <3>5, <4>1, TextsShown DEF ShowsText
    <3>7. View(d)["resolved"] = Flag(TRUE)
      BY <3>4, ResolvedShown
    <3> QED BY <3>6, <3>7
  <2>4. ASSUME NEW key \in Common
        PROVE  IF Has(said, key, "string") THEN Told(key)
               ELSE key \in DOMAIN View(d) => View(d)[key] = Text("")
    <3>1. d[key] = OptString(said, key)
      BY CommonKept
    <3>2. /\ key \in DOMAIN View(d) => View(d)[key] = Text(d[key])
          /\ key \notin DOMAIN View(d) => d[key] = ""
      BY <2>0, <2>1, CommonShown
    <3> HIDE DEF d
    <3>3. CASE Has(said, key, "string")
      <4>1. said[key] = Text(said[key][2])
        BY <2>1, <3>3, FlattenedIsReadable DEF Has, Text
      <4>2. OptString(said, key) = said[key][2]
        BY <3>3 DEF OptString
      <4> HIDE DEF said
      <4> QED BY <3>1, <3>2, <3>3, <4>1, <4>2
    <3>4. CASE ~Has(said, key, "string")
      <4>1. OptString(said, key) = ""
        BY <3>4 DEF OptString
      <4> HIDE DEF said
      <4> QED BY <3>1, <3>2, <3>4, <4>1
    <3> QED BY <3>3, <3>4
  <2>5. ASSUME linked = {}
        PROVE  View(d)["resolved"] = Flag(k \in Stubs => OptBool(said, "resolved", TRUE))
    <3>1. target = Absent
      BY <2>5
    <3>2. d.resolved = (k \in Stubs => OptBool(said, "resolved", TRUE))
      BY <3>1, ResolvedKept
    <3> HIDE DEF d, said
    <3>4. View(d)["resolved"] = Flag(d.resolved)
      BY ResolvedShown
    <3> QED BY <3>2, <3>4
  <2> QED BY <2>2, <2>3, <2>4, <2>5
<1> QED BY <1>1, StoredAsDecodedHolds, StructsSurvive, PTL

\* A node is stored when it says what it is, and only then, whatever its other
\* properties are (loader.go:69-117, encoders.go:429-444).
THEOREM ConformingIsStored == CodecSpec => []StoredIffConforming
<1> DEFINE Went == outcome # "waiting" => given \in NodeIn /\ outcome = LoadOutcome(given)
<1>1. CodecInit => Went
  BY DEF CodecInit
<1>2. Went /\ [CodecNext]_codecVars => Went'
  BY DEF CodecNext, LoadNode, LinkNode, codecVars
<1>3. ASSUME NEW nin \in NodeIn PROVE LoadOutcome(nin) = "stored" <=> Conforming(nin)
  <2> DEFINE props == FlattenNode(nin)  n == Decode(nin.kind, props)
  <2>1. /\ "kind" \in DOMAIN props /\ "urn" \in DOMAIN props
        /\ props["kind"] = IF "kind" \in DOMAIN nin.properties THEN nin.properties["kind"]
                           ELSE Text(nin.kind)
        /\ props["urn"] = IF "urn" \in DOMAIN nin.properties THEN nin.properties["urn"]
                          ELSE Text(nin.urn)
    BY DEF FlattenNode, Over, Restrict
  <2>2. "kind" \in DOMAIN nin.properties =>
            nin.properties["kind"] = <<nin.properties["kind"][1], nin.properties["kind"][2]>>
    BY NodeAssumption
  <2>3. n.struct = nin.kind /\ n.kind = OptString(props, "kind")
    BY DEF Decode
  <2> HIDE DEF props, n
  <2>4. Has(props, "urn", "string") <=>
            ("urn" \in DOMAIN nin.properties => Has(nin.properties, "urn", "string"))
    BY <2>1 DEF Has, Text
  <2>5. (Has(props, "kind", "string") /\ OptString(props, "kind") = nin.kind)
            <=> ("kind" \in DOMAIN nin.properties => nin.properties["kind"] = Text(nin.kind))
    <3>1. CASE "kind" \notin DOMAIN nin.properties
      <4>1. props["kind"] = Text(nin.kind)
        BY <2>1, <3>1
      <4> QED BY <2>1, <3>1, <4>1 DEF Has, Text, OptString
    <3>2. CASE "kind" \in DOMAIN nin.properties
      <4> DEFINE v == nin.properties["kind"]
      <4>1. v = <<v[1], v[2]>> /\ props["kind"] = v
        BY <2>1, <2>2, <3>2
      <4> HIDE DEF v
      <4>2. v = Text(nin.kind) <=> v[1] = "string" /\ v[2] = nin.kind
        BY <4>1 DEF Text
      <4>3. Has(props, "kind", "string") <=> v[1] = "string"
        BY <2>1, <4>1 DEF Has
      <4>4. Has(props, "kind", "string") => OptString(props, "kind") = v[2]
        BY <4>1 DEF OptString
      <4> QED BY <3>2, <4>2, <4>3, <4>4 DEF v
    <3> QED BY <3>1, <3>2
  <2>6. EncodeOutcome(n) = "stored" <=> n.kind = n.struct
    BY DEF EncodeOutcome
  <2>7. LoadOutcome(nin) = IF Malformed(nin) THEN "rejected"
                           ELSE IF nin.kind \notin Kind \/ ~Decodable(props) THEN "skipped"
                           ELSE EncodeOutcome(n)
    BY DEF LoadOutcome, props, n
  <2> QED BY <2>3, <2>4, <2>5, <2>6, <2>7 DEF Conforming, Decodable
<1>4. Went => StoredIffConforming
  BY <1>3 DEF StoredIffConforming
<1> QED BY <1>1, <1>2, <1>4, PTL DEF CodecSpec
=============================================================================
