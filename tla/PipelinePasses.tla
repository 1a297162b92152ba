--------------------------- MODULE PipelinePasses ---------------------------
(****************************************************************************)
(* What TLAPS proves of the linker's passes in Pipeline, beside loads and   *)
(* deletions: what a pass may still promise when the graph is not its own.  *)
(****************************************************************************)
EXTENDS PipelineProofs, LinkerPasses

----------------------------------------------------------------------------
(* A pass during which only linkers have written. *)

\* What a pass carries from its reads describes the graph it writes to: the
\* three parts of LinkerInv that a load or a deletion may break, of one pass.
Faithful(l) ==
    /\ \A call \in todo[l] :
        /\ IsKind(call.urn, "CallHTTP")
        /\ nodes[call.urn].method # Absent
        /\ nodes[call.urn].path # Absent
        /\ call.method = Upper[nodes[call.urn].method]
        /\ call.path = nodes[call.urn].path
    /\ \A m \in DOMAIN cands[l] : cands[l][m] = EndpointsForMethod(m)
    /\ pc[l] = "resolving" =>
        /\ IsKind(cur[l].call, "CallHTTP")
        /\ IsKind(cur[l].target, "Endpoint")
        /\ RouteMatches(cur[l].call) = {cur[l].target}

\* Once it has listed, every call it could link is still before it.
Answers(l) ==
    /\ pc[l] = "done" => todo[l] = {}
    /\ Counting(l) => \A c \in UnresolvedCalls : \A t \in URN :
                            RouteMatches(c) = {t} => c \in Pending(l)

\* A load that was running when the pass began is still running, or the pass
\* is not quiet; so no load writes beside a quiet pass.
QuietPasses == \A l \in Linkers : quiet[l] => ~Loading /\ Faithful(l) /\ Answers(l)

\* A call that every extraction leaves to the linker is marked unresolved until
\* it has a target: a load writes the mark of its payload, the linker's
\* transaction sets the mark and the target together, a deletion takes both.
UnlinkedIsMarked ==
    \A c \in DOMAIN nodes :
        (nodes[c].kind = "CallHTTP" /\ LeftToLink(c) /\ nodes[c].targetURN = Absent)
            => nodes[c].resolved = FALSE

QuietInv == PipeInv /\ QuietPasses /\ UnlinkedIsMarked

\* What the queries of a pass read is as it was, but that a call may have
\* been resolved.
ReadsKept ==
    /\ DOMAIN nodes' = DOMAIN nodes
    /\ \A u \in DOMAIN nodes : /\ nodes'[u].kind = nodes[u].kind
                               /\ nodes'[u].method = nodes[u].method
                               /\ nodes'[u].path = nodes[u].path
    /\ \A m : EndpointsForMethod(m)' = EndpointsForMethod(m)
    /\ \A u \in DOMAIN nodes : RouteMatches(u)' = RouteMatches(u)
    /\ \A u, k : IsKind(u, k)' <=> IsKind(u, k)
    /\ UnresolvedCalls' \subseteq UnresolvedCalls

\* A pass that resolves what it has in flight, whatever that is, leaves the
\* routes alone and makes no call unresolved.
LEMMA ResolveKeepsReads ==
    ASSUME GraphTypeOK, NEW c \in URN, NEW t \in URN, ResolveCallHTTPTarget(c, t)
    PROVE  ReadsKept /\ (CanResolve(c, t) => c \notin UnresolvedCalls')
<1>1. /\ DOMAIN nodes' = DOMAIN nodes
      /\ \A u \in DOMAIN nodes : /\ nodes'[u].kind = nodes[u].kind
                                 /\ nodes'[u].method = nodes[u].method
                                 /\ nodes'[u].path = nodes[u].path
                                 /\ u # c => nodes'[u] = nodes[u]
  BY ResolveKeepsRoutes
<1>2. IF CanResolve(c, t) THEN nodes'[c].resolved = TRUE ELSE nodes' = nodes
  BY ResolveSetsTarget
<1>3. TRUE # Absent
  BY AbsentAssumption
<1>4. CanResolve(c, t) => c \notin UnresolvedCalls'
  BY <1>2, <1>3 DEF UnresolvedCalls
<1>5. UnresolvedCalls' \subseteq UnresolvedCalls
  BY <1>1, <1>2, <1>4 DEF UnresolvedCalls
<1> QED BY <1>1, <1>4, <1>5, RoutesKept DEF ReadsKept

\* So does a step that writes nothing.
LEMMA SameGraphKeepsReads ==
    ASSUME UNCHANGED graph
    PROVE  ReadsKept
<1>1. nodes' = nodes
  BY DEF graph
<1> QED BY <1>1 DEF ReadsKept, EndpointsForMethod, RouteMatches, IsKind, UnresolvedCalls

\* A pass whose own state does not move keeps its promises through them.
LEMMA OtherStepsKeepFaith ==
    ASSUME NEW l \in Linkers, Faithful(l), Answers(l), ReadsKept,
           pc'[l] = pc[l], todo'[l] = todo[l], cands'[l] = cands[l], cur'[l] = cur[l]
    PROVE  Faithful(l)' /\ Answers(l)'
<1>1. Faithful(l)'
  <2>1. \A call \in todo[l] : IsKind(call.urn, "CallHTTP") => call.urn \in DOMAIN nodes
    BY DEF IsKind
  <2>2. pc[l] = "resolving" => RouteMatches(cur[l].call)' = RouteMatches(cur[l].call)
    BY DEF Faithful, ReadsKept, IsKind
  <2>3. pc'[l] = "resolving" =>
        /\ IsKind(cur[l].call, "CallHTTP")'
        /\ IsKind(cur[l].target, "Endpoint")'
        /\ RouteMatches(cur[l].call)' = {cur'[l].target}
    BY <2>2 DEF Faithful, ReadsKept, IsKind
  <2>4. \A m \in DOMAIN cands'[l] : cands'[l][m] = EndpointsForMethod(m)'
    BY DEF Faithful, ReadsKept
  <2>5. \A call \in todo'[l] :
            /\ IsKind(call.urn, "CallHTTP")'
            /\ nodes'[call.urn].method # Absent
            /\ nodes'[call.urn].path # Absent
            /\ call.method = Upper[nodes'[call.urn].method]
            /\ call.path = nodes'[call.urn].path
    BY <2>1 DEF Faithful, ReadsKept, IsKind
  <2> QED BY <2>3, <2>4, <2>5 DEF Faithful
<1>2. Answers(l)'
  <2>1. \A c \in UnresolvedCalls' : c \in UnresolvedCalls /\ RouteMatches(c)' = RouteMatches(c)
    BY DEF ReadsKept, UnresolvedCalls
  <2>2. Pending(l)' = Pending(l) /\ (Counting(l)' <=> Counting(l))
    BY DEF Pending, Counting
  <2> QED BY <2>1, <2>2 DEF Answers
<1> QED BY <1>1, <1>2

\* A pass begins with nothing to answer for.
LEMMA StartKeepsFaith ==
    ASSUME LinkerTypeOK, NEW l \in Linkers, Start(l)
    PROVE  Faithful(l)' /\ Answers(l)'
BY DEF LinkerTypeOK, Start, Faithful, Answers, Counting

\* The listing describes the graph it was read from, and is all of it.
LEMMA ListKeepsFaith ==
    ASSUME LinkerTypeOK, NEW l \in Linkers, Faithful(l), ListUnresolved(l)
    PROVE  Faithful(l)' /\ Answers(l)'
<1> DEFINE entry(c) == [urn |-> c, method |-> Upper[nodes[c].method], path |-> nodes[c].path]
<1>1. /\ todo'[l] = {entry(c) : c \in UnresolvedCalls}
      /\ pc'[l] = "matching" /\ cands'[l] = cands[l] /\ nodes' = nodes
  BY DEF LinkerTypeOK, ListUnresolved, graph
<1>2. Faithful(l)'
  <2>1. \A call \in todo'[l] :
            /\ IsKind(call.urn, "CallHTTP")'
            /\ nodes'[call.urn].method # Absent
            /\ nodes'[call.urn].path # Absent
            /\ call.method = Upper[nodes'[call.urn].method]
            /\ call.path = nodes'[call.urn].path
    <3> SUFFICES ASSUME NEW call \in todo'[l], NEW c \in UnresolvedCalls, call = entry(c)
                 PROVE  /\ IsKind(call.urn, "CallHTTP")'
                        /\ nodes'[call.urn].method # Absent
                        /\ nodes'[call.urn].path # Absent
                        /\ call.method = Upper[nodes'[call.urn].method]
                        /\ call.path = nodes'[call.urn].path
      BY <1>1
    <3> QED BY <1>1 DEF UnresolvedCalls, IsKind
  <2>2. \A m : EndpointsForMethod(m)' = EndpointsForMethod(m)
    BY <1>1 DEF EndpointsForMethod
  <2> QED BY <1>1, <2>1, <2>2 DEF Faithful
<1>3. Answers(l)'
  <2>1. UnresolvedCalls' = UnresolvedCalls
    BY <1>1 DEF UnresolvedCalls
  <2>2. \A c \in UnresolvedCalls : \E x \in todo'[l] : x.urn = c
    <3> SUFFICES ASSUME NEW c \in UnresolvedCalls PROVE \E x \in todo'[l] : x.urn = c
      OBVIOUS
    <3>1. entry(c) \in todo'[l] /\ entry(c).urn = c
      BY <1>1
    <3> QED BY <3>1
  <2> HIDE DEF entry
  <2>3. UnresolvedCalls \subseteq Pending(l)'
    BY <2>2 DEF Pending
  <2> QED BY <1>1, <2>1, <2>3 DEF Answers
<1> QED BY <1>2, <1>3

\* Whatever the pass cached before, the next call is matched against the graph.
LEMMA FaithfulMatches ==
    ASSUME NEW l \in Linkers, Faithful(l), NEW call \in todo[l]
    PROVE  Matches(l, call) = RouteMatches(call.urn)
<1>1. LoadCandidates(l, call.method) = EndpointsForMethod(call.method)
  BY DEF LoadCandidates, Faithful
<1>2. /\ nodes[call.urn].method # Absent
      /\ nodes[call.urn].path # Absent
      /\ call.method = Upper[nodes[call.urn].method]
      /\ call.path = nodes[call.urn].path
  BY DEF Faithful
<1>3. Matches(l, call) = {e.urn : e \in {x \in EndpointsForMethod(call.method) :
                                            Norm[x.path] = Norm[call.path]}}
  BY <1>1 DEF Matches
<1>4. ASSUME NEW e
      PROVE  e \in Matches(l, call) <=> e \in RouteMatches(call.urn)
  <2>1. ASSUME e \in Matches(l, call)
        PROVE  e \in RouteMatches(call.urn)
    <3>1. PICK x \in EndpointsForMethod(call.method) :
                Norm[x.path] = Norm[call.path] /\ e = x.urn
      BY <2>1, <1>3
    <3> QED BY <3>1, <1>2 DEF EndpointsForMethod, RouteMatches
  <2>2. ASSUME e \in RouteMatches(call.urn)
        PROVE  e \in Matches(l, call)
    <3> DEFINE x == [urn |-> e, path |-> nodes[e].path]
    <3>1. x \in EndpointsForMethod(call.method)
      BY <2>2, <1>2 DEF EndpointsForMethod, RouteMatches
    <3>2. Norm[x.path] = Norm[call.path] /\ x.urn = e
      BY <2>2, <1>2 DEF RouteMatches
    <3> HIDE DEF x
    <3> QED BY <3>1, <3>2, <1>3
  <2> QED BY <2>1, <2>2
<1> QED BY <1>4

\* Taking a call: the rest of the listing and the cache stay faithful, and the
\* call is the only one that is no longer before the pass.
LEMMA TakeKeepsFaith ==
    ASSUME LinkerTypeOK, NEW l \in Linkers, Faithful(l), Answers(l),
           NEW call, TakeCall(l, call), UNCHANGED graph
    PROVE  /\ todo'[l] = todo[l] \ {call} /\ call \in todo[l] /\ pc[l] = "matching"
           /\ \A x \in todo'[l] : /\ IsKind(x.urn, "CallHTTP")'
                                  /\ nodes'[x.urn].method # Absent
                                  /\ nodes'[x.urn].path # Absent
                                  /\ x.method = Upper[nodes'[x.urn].method]
                                  /\ x.path = nodes'[x.urn].path
           /\ \A m \in DOMAIN cands'[l] : cands'[l][m] = EndpointsForMethod(m)'
           /\ \A c \in UnresolvedCalls' : \A t \in URN :
                RouteMatches(c)' = {t} =>
                    c \in {x.urn : x \in todo'[l]} \/ (c = call.urn /\ Matches(l, call) = {t})
<1>1. /\ todo'[l] = todo[l] \ {call} /\ call \in todo[l] /\ pc[l] = "matching"
      /\ cands'[l] = [m \in DOMAIN cands[l] \cup {call.method} |-> LoadCandidates(l, m)]
      /\ nodes' = nodes
  BY DEF LinkerTypeOK, TakeCall, graph
<1>2. \A m \in DOMAIN cands'[l] : cands'[l][m] = EndpointsForMethod(m)'
  <2>1. \A m : LoadCandidates(l, m) = EndpointsForMethod(m)
    BY DEF LoadCandidates, Faithful
  <2>2. \A m : EndpointsForMethod(m)' = EndpointsForMethod(m)
    BY <1>1 DEF EndpointsForMethod
  <2> QED BY <1>1, <2>1, <2>2
<1>3. \A x \in todo'[l] : /\ IsKind(x.urn, "CallHTTP")'
                          /\ nodes'[x.urn].method # Absent
                          /\ nodes'[x.urn].path # Absent
                          /\ x.method = Upper[nodes'[x.urn].method]
                          /\ x.path = nodes'[x.urn].path
  BY <1>1 DEF Faithful, IsKind
<1>4. ASSUME NEW c \in UnresolvedCalls', NEW t \in URN, RouteMatches(c)' = {t}
      PROVE  c \in {x.urn : x \in todo'[l]} \/ (c = call.urn /\ Matches(l, call) = {t})
  <2>1. c \in UnresolvedCalls /\ RouteMatches(c) = {t}
    BY <1>1, <1>4 DEF UnresolvedCalls, RouteMatches
  <2>2. PICK x \in todo[l] : x.urn = c
    BY <1>1, <2>1 DEF Answers, Counting, Pending
  <2>3. c = call.urn => Matches(l, call) = {t}
    BY <1>1, <2>1, FaithfulMatches
  <2> QED BY <1>1, <2>2, <2>3
<1> QED BY <1>1, <1>2, <1>3, <1>4

\* The three outcomes of a call that was taken.
LEMMA MatchKeepsFaith ==
    ASSUME LinkerTypeOK, NEW l \in Linkers, Faithful(l), Answers(l),
           SkipNoMatch(l) \/ ReportAmbiguous(l) \/ PickTarget(l)
    PROVE  Faithful(l)' /\ Answers(l)'
<1>1. CASE SkipNoMatch(l) \/ ReportAmbiguous(l)
  <2>1. PICK call : /\ TakeCall(l, call) /\ UNCHANGED <<graph, pc>>
                    /\ Matches(l, call) = {} \/ \E x, y \in Matches(l, call) : x # y
    BY <1>1 DEF SkipNoMatch, ReportAmbiguous
  <2>2. pc'[l] = "matching"
    BY <2>1 DEF TakeCall
  <2>3. Faithful(l)'
    BY <2>1, <2>2, TakeKeepsFaith DEF Faithful
  <2>4. \A c \in UnresolvedCalls' : \A t \in URN :
            RouteMatches(c)' = {t} => c \in {x.urn : x \in todo'[l]}
    BY <2>1, TakeKeepsFaith
  <2>5. {x.urn : x \in todo'[l]} \subseteq Pending(l)'
    BY DEF Pending
  <2>6. Answers(l)'
    BY <2>2, <2>4, <2>5 DEF Answers
  <2> QED BY <2>3, <2>6
<1>2. CASE PickTarget(l)
  <2>1. PICK call \in todo[l], t \in URN :
          /\ TakeCall(l, call) /\ UNCHANGED graph
          /\ Matches(l, call) = {t}
          /\ cur' = [cur EXCEPT ![l] = [call |-> call.urn, target |-> t]]
          /\ pc' = [pc EXCEPT ![l] = "resolving"]
    BY <1>2 DEF PickTarget
  <2>2. pc'[l] = "resolving" /\ cur'[l].call = call.urn /\ cur'[l].target = t /\ nodes' = nodes
    BY <2>1 DEF LinkerTypeOK, graph
  <2>3. IsKind(call.urn, "CallHTTP") /\ RouteMatches(call.urn) = {t}
    BY <2>1, FaithfulMatches DEF Faithful
  <2>4. IsKind(t, "Endpoint")
    BY <2>3 DEF RouteMatches, IsKind
  <2>5. /\ IsKind(cur[l].call, "CallHTTP")'
        /\ IsKind(cur[l].target, "Endpoint")'
        /\ RouteMatches(cur[l].call)' = {cur'[l].target}
    BY <2>2, <2>3, <2>4 DEF IsKind, RouteMatches
  <2>6. Faithful(l)'
    BY <2>1, <2>5, TakeKeepsFaith DEF Faithful
  <2>7. Pending(l)' = {x.urn : x \in todo'[l]} \cup {call.urn}
    BY <2>2 DEF Pending
  <2>8. \A c \in UnresolvedCalls' : \A s \in URN : RouteMatches(c)' = {s} => c \in Pending(l)'
    BY <2>1, <2>7, TakeKeepsFaith
  <2>9. Answers(l)'
    BY <2>2, <2>8 DEF Answers
  <2> QED BY <2>6, <2>9
<1> QED BY <1>1, <1>2

\* The transaction takes its call out of the unresolved; the last step of a
\* pass needs an empty listing; a pass that fails promises nothing more.
LEMMA CommitKeepsFaith ==
    ASSUME PipeTypeOK, NEW l \in Linkers, Faithful(l), Answers(l),
           Resolve(l) \/ Finish(l) \/ Fail(l) \/ FailAfterCommit(l)
    PROVE  Faithful(l)' /\ Answers(l)'
<1>1. LinkerTypeOK /\ GraphTypeOK /\ pc \in [Linkers -> {"idle"} \cup Active \cup Over]
      /\ \A k \in Linkers : pc[k] = "resolving" => cur[k].call \in URN /\ cur[k].target \in URN
  BY DEF PipeTypeOK, LinkerTypeOK
<1>2. /\ todo'[l] = todo[l] /\ cands'[l] = cands[l]
      /\ \/ pc[l] = "resolving" /\ pc'[l] = "matching"
         \/ pc[l] = "matching" /\ pc'[l] = "done" /\ todo[l] = {} /\ UNCHANGED graph
         \/ pc'[l] = "failed"
      /\ \/ UNCHANGED graph
         \/ pc[l] = "resolving" /\ ResolveCallHTTPTarget(cur[l].call, cur[l].target)
      /\ pc[l] = "resolving" /\ pc'[l] = "matching" =>
            ResolveCallHTTPTarget(cur[l].call, cur[l].target)
  BY <1>1 DEF Resolve, Finish, Fail, FailAfterCommit
<1>3. ReadsKept
  BY <1>1, <1>2, ResolveKeepsReads, SameGraphKeepsReads
<1>4. Faithful(l)'
  <2>1. \A m \in DOMAIN cands'[l] : cands'[l][m] = EndpointsForMethod(m)'
    BY <1>2, <1>3 DEF Faithful, ReadsKept
  <2>2. \A call \in todo'[l] :
            /\ IsKind(call.urn, "CallHTTP")'
            /\ nodes'[call.urn].method # Absent
            /\ nodes'[call.urn].path # Absent
            /\ call.method = Upper[nodes'[call.urn].method]
            /\ call.path = nodes'[call.urn].path
    BY <1>2, <1>3 DEF Faithful, ReadsKept, IsKind
  <2> QED BY <1>2, <2>1, <2>2 DEF Faithful
<1>5. Answers(l)'
  <2>1. \A c \in UnresolvedCalls' : c \in UnresolvedCalls /\ RouteMatches(c)' = RouteMatches(c)
    BY <1>3 DEF ReadsKept, UnresolvedCalls
  <2>2. CASE pc[l] = "resolving" /\ pc'[l] = "matching"
    <3>1. ResolveCallHTTPTarget(cur[l].call, cur[l].target) /\ CanResolve(cur[l].call, cur[l].target)
      BY <1>2, <2>2 DEF Faithful, CanResolve
    <3>2. cur[l].call \notin UnresolvedCalls'
      BY <1>1, <2>2, <3>1, ResolveKeepsReads
    <3>3. Pending(l) \subseteq Pending(l)' \cup {cur[l].call}
      BY <1>2 DEF Pending
    <3> QED BY <2>1, <2>2, <3>2, <3>3 DEF Answers, Counting
  <2>3. CASE pc[l] = "matching" /\ pc'[l] = "done" /\ todo[l] = {}
    BY <1>2, <2>1, <2>3 DEF Answers, Counting, Pending
  <2>4. CASE pc'[l] = "failed"
    BY <2>4 DEF Answers, Counting
  <2> QED BY <1>2, <2>2, <2>3, <2>4
<1> QED BY <1>4, <1>5

\* A step of a pass: its own promises by the lemmas above, those of the others
\* because all it may write is a resolution.
LEMMA PassKeepsQuiet ==
    ASSUME QuietInv, NEW l \in Linkers, BeginPass(l) \/ ContinuePass(l)
    PROVE  QuietPasses'
<1>1. /\ PipeTypeOK /\ LinkerTypeOK /\ GraphTypeOK /\ quiet \in [Linkers -> BOOLEAN]
      /\ \A k \in Linkers : pc[k] = "resolving" => cur[k].call \in URN /\ cur[k].target \in URN
  BY DEF QuietInv, PipeInv, PipeTypeOK, LoaderTypeOK, LinkerTypeOK
<1>2. /\ UNCHANGED loaderVars
      /\ \/ Start(l) /\ quiet' = [quiet EXCEPT ![l] = ~Loading]
         \/ (Step(l) \/ Fail(l) \/ FailAfterCommit(l)) /\ quiet' = quiet
  BY DEF BeginPass, ContinuePass
<1>3. Loading' <=> Loading
  BY <1>2 DEF loaderVars, Loading
<1>4. ReadsKept
  <2>1. \/ UNCHANGED graph
        \/ pc[l] = "resolving" /\ ResolveCallHTTPTarget(cur[l].call, cur[l].target)
    BY <1>2 DEF Start, Step, ListUnresolved, SkipNoMatch, ReportAmbiguous, PickTarget,
                Resolve, Finish, Fail, FailAfterCommit
  <2> QED BY <1>1, <2>1, ResolveKeepsReads, SameGraphKeepsReads
<1> SUFFICES ASSUME NEW k \in Linkers, quiet'[k]
             PROVE  ~Loading' /\ Faithful(k)' /\ Answers(k)'
  BY DEF QuietPasses
<1>5. CASE k # l
  <2>1. /\ pc'[k] = pc[k] /\ todo'[k] = todo[k] /\ cands'[k] = cands[k] /\ cur'[k] = cur[k]
        /\ quiet[k]
    BY <1>1, <1>2, <1>5 DEF LinkerTypeOK, Start, Step, ListUnresolved, SkipNoMatch,
            ReportAmbiguous, PickTarget, TakeCall, Resolve, Finish, Fail, FailAfterCommit
  <2> QED BY <1>3, <1>4, <2>1, OtherStepsKeepFaith DEF QuietInv, QuietPasses
<1>6. CASE k = l /\ Start(l)
  <2>1. quiet'[l] = ~Loading
    BY <1>1, <1>2, <1>6 DEF Start, Step, ListUnresolved, SkipNoMatch, ReportAmbiguous,
            PickTarget, TakeCall, Resolve, Finish, Fail, FailAfterCommit, Active
  <2> QED BY <1>1, <1>3, <1>6, <2>1, StartKeepsFaith
<1>7. CASE k = l /\ ~Start(l)
  <2>1. /\ ~Loading /\ Faithful(l) /\ Answers(l)
        /\ Step(l) \/ Fail(l) \/ FailAfterCommit(l)
    BY <1>2, <1>7 DEF QuietInv, QuietPasses
  <2>2. Faithful(l)' /\ Answers(l)'
    BY <1>1, <2>1, ListKeepsFaith, MatchKeepsFaith, CommitKeepsFaith DEF Step
  <2> QED BY <1>3, <1>7, <2>1, <2>2
<1> QED BY <1>5, <1>6, <1>7

\* A transaction of a load or of a pass keeps the mark of every unlinked call.
LEMMA WriteKeepsMark ==
    ASSUME LoaderTypeOK, NEW l \in Loaders, WriteItem(l), UnlinkedIsMarked
    PROVE  UnlinkedIsMarked'
<1>1. CASE /\ At(l, "node") /\ KnownKind(Current(l))
           /\ UpsertNode(Current(l).urn, Stored(Current(l)))
  <2>1. /\ DOMAIN nodes' = DOMAIN nodes \cup {Current(l).urn}
        /\ nodes'[Current(l).urn] = Stored(Current(l))
        /\ \A u \in DOMAIN nodes : u # Current(l).urn => nodes'[u] = nodes[u]
    BY <1>1, WriteNode
  <2>2. LeftToLink(Current(l).urn) => Current(l).resolved = FALSE
    BY <1>1, CurrentNode DEF LeftToLink
  <2>3. FALSE # Absent
    BY AbsentAssumption
  <2>4. Stored(Current(l)).kind = "CallHTTP" /\ Current(l).resolved = FALSE
            => Stored(Current(l)).resolved = FALSE
    BY <2>3 DEF Stored
  <2> QED BY <2>1, <2>2, <2>4 DEF UnlinkedIsMarked, LeftToLink
<1>2. CASE At(l, "edge") /\ WriteEdge(Current(l))
  <2>1. nodes' = nodes
    BY <1>2 DEF WriteEdge, UpsertDependsOn, UpsertEdge
  <2> QED BY <2>1 DEF UnlinkedIsMarked, LeftToLink
<1> QED BY <1>1, <1>2 DEF WriteItem

LEMMA ResolveKeepsMark ==
    ASSUME GraphTypeOK, NEW c \in URN, NEW t \in URN, ResolveCallHTTPTarget(c, t),
           UnlinkedIsMarked
    PROVE  UnlinkedIsMarked'
<1>1. /\ DOMAIN nodes' = DOMAIN nodes
      /\ \A u \in DOMAIN nodes : /\ nodes'[u].kind = nodes[u].kind
                                 /\ u # c => nodes'[u] = nodes[u]
  BY ResolveKeepsRoutes
<1>2. IF CanResolve(c, t) THEN nodes'[c].targetURN = t ELSE nodes' = nodes
  BY ResolveSetsTarget
<1>3. t # Absent
  BY AbsentAssumption
<1> QED BY <1>1, <1>2, <1>3 DEF UnlinkedIsMarked, LeftToLink

LEMMA MarkNext ==
    ASSUME PipeTypeOK, UnlinkedIsMarked, [PipeNext]_pipeVars
    PROVE  UnlinkedIsMarked'
<1>1. /\ LoaderTypeOK /\ GraphTypeOK
      /\ \A k \in Linkers : pc[k] = "resolving" => cur[k].call \in URN /\ cur[k].target \in URN
  BY DEF PipeTypeOK, LinkerTypeOK
<1>2. nodes' = nodes => UnlinkedIsMarked'
  BY DEF UnlinkedIsMarked, LeftToLink
<1>3. ASSUME NEW l \in Loaders, BeginLoad(l) \/ ContinueLoad(l)
      PROVE  UnlinkedIsMarked'
  <2>1. WriteItem(l) \/ UNCHANGED graph
    BY <1>3 DEF BeginLoad, StartLoad, ContinueLoad, LoadStep, SkipItem, LoadItem, Reject,
                FinishLoad, FailLoad, FailLoadAfterCommit
  <2> QED BY <1>1, <1>2, <2>1, WriteKeepsMark DEF graph
<1>4. ASSUME NEW l \in Linkers, BeginPass(l) \/ ContinuePass(l)
      PROVE  UnlinkedIsMarked'
  <2>1. \/ UNCHANGED graph
        \/ pc[l] = "resolving" /\ ResolveCallHTTPTarget(cur[l].call, cur[l].target)
    BY <1>4 DEF BeginPass, ContinuePass, Start, Step, ListUnresolved, SkipNoMatch,
                ReportAmbiguous, PickTarget, Resolve, Finish, Fail, FailAfterCommit
  <2> QED BY <1>1, <1>2, <2>1, ResolveKeepsMark DEF graph
<1>5. ASSUME NEW u \in URN, Delete(u)
      PROVE  UnlinkedIsMarked'
  BY <1>5 DEF Delete, DeleteNode, UnlinkedIsMarked, LeftToLink
<1>6. CASE UNCHANGED pipeVars
  BY <1>2, <1>6 DEF pipeVars, graph
<1> QED BY <1>3, <1>4, <1>5, <1>6 DEF PipeNext

\* Every step of the programs keeps what quiet passes promise: a load that
\* begins and a deletion end all of them.
LEMMA QuietNext == QuietInv /\ [PipeNext]_pipeVars => QuietInv'
<1> SUFFICES ASSUME QuietInv, [PipeNext]_pipeVars
             PROVE  QuietPasses'
  BY PipeNextInv, MarkNext DEF QuietInv, PipeInv
<1>1. quiet \in [Linkers -> BOOLEAN] /\ lpc \in [Loaders -> {"unstarted", "loading"} \cup Ended]
  BY DEF QuietInv, PipeInv, PipeTypeOK, LoaderTypeOK
<1>2. ASSUME NEW l \in Loaders, BeginLoad(l)
      PROVE  QuietPasses'
  BY <1>2 DEF BeginLoad, QuietPasses
<1>3. ASSUME NEW l \in Loaders, ContinueLoad(l)
      PROVE  QuietPasses'
  <2>1. Loading /\ quiet' = quiet
    BY <1>3 DEF ContinueLoad, LoadStep, SkipItem, LoadItem, WriteItem, Reject, FinishLoad,
                FailLoad, FailLoadAfterCommit, At, Loading
  <2> QED BY <2>1 DEF QuietInv, QuietPasses
<1>4. ASSUME NEW l \in Linkers, BeginPass(l) \/ ContinuePass(l)
      PROVE  QuietPasses'
  BY <1>4, PassKeepsQuiet
<1>5. ASSUME NEW u \in URN, Delete(u)
      PROVE  QuietPasses'
  BY <1>5 DEF Delete, QuietPasses
<1>6. CASE UNCHANGED pipeVars
  <2>1. /\ UNCHANGED graph /\ pc' = pc /\ todo' = todo /\ cands' = cands /\ cur' = cur
        /\ quiet' = quiet /\ lpc' = lpc
    BY <1>6 DEF pipeVars, linkerVars, loaderVars
  <2>2. Loading' <=> Loading
    BY <2>1 DEF Loading
  <2> QED BY <2>1, <2>2, SameGraphKeepsReads, OtherStepsKeepFaith DEF QuietInv, QuietPasses
<1> QED BY <1>2, <1>3, <1>4, <1>5, <1>6 DEF PipeNext

----------------------------------------------------------------------------
(* What a load has written stays, until something is deleted. *)

\* The items a load has passed: a node of known kind is in the graph under
\* that kind, an edge the core does not merge otherwise is there.
Written(l) ==
    LET p == payload[l]
    IN  /\ next[l] >= 1
        /\ lpc[l] = "loaded" => next[l] \notin DOMAIN Items(p)
        /\ \A i \in DOMAIN p.nodes : (i < next[l] /\ KnownKind(p.nodes[i]))
                => IsKind(p.nodes[i].urn, p.nodes[i].kind)
        /\ \A i \in DOMAIN p.edges : (Len(p.nodes) + i < next[l] /\ p.edges[i].type \in EdgeType)
                => <<p.edges[i].from, p.edges[i].to, p.edges[i].type>> \in DOMAIN edges

ItemsWritten == \A l \in Loaders : lpc[l] \in {"loading", "loaded"} => Written(l)

\* A load that ended well has passed all of them.
LEMMA LoadedHasWritten ==
    ASSUME LoaderTypeOK, ItemsWritten, NEW l \in Loaders, lpc[l] = "loaded"
    PROVE  /\ \A i \in DOMAIN payload[l].nodes : KnownKind(payload[l].nodes[i])
                => IsKind(payload[l].nodes[i].urn, payload[l].nodes[i].kind)
           /\ \A i \in DOMAIN payload[l].edges : payload[l].edges[i].type \in EdgeType
                => <<payload[l].edges[i].from, payload[l].edges[i].to,
                     payload[l].edges[i].type>> \in DOMAIN edges
<1>1. /\ payload[l] \in Payload /\ next[l] \in Nat
      /\ Len(payload[l].nodes) \in Nat /\ Len(payload[l].edges) \in Nat
      /\ DOMAIN payload[l].nodes = 1 .. Len(payload[l].nodes)
      /\ DOMAIN payload[l].edges = 1 .. Len(payload[l].edges)
  BY PayloadType
<1>2. DOMAIN Items(payload[l]) = 1 .. Len(payload[l].nodes) + Len(payload[l].edges)
  BY <1>1, ItemsInclude
<1>3. next[l] >= 1 /\ next[l] \notin 1 .. Len(payload[l].nodes) + Len(payload[l].edges)
  BY <1>2 DEF ItemsWritten, Written
<1>4. /\ \A i \in DOMAIN payload[l].nodes : i < next[l]
      /\ \A i \in DOMAIN payload[l].edges : Len(payload[l].nodes) + i < next[l]
  <2>1. ASSUME NEW m \in Nat, NEW n \in Nat, NEW k \in Nat, k >= 1, k \notin 1 .. m + n
        PROVE  (\A i \in 1 .. m : i < k) /\ (\A i \in 1 .. n : m + i < k)
    BY <2>1
  <2> QED BY <1>1, <1>3, <2>1
<1>5. Written(l)
  BY DEF ItemsWritten
<1> QED BY <1>4, <1>5 DEF Written

\* What is written stays written while the load stands still.
LEMMA WrittenStays ==
    ASSUME LoaderTypeOK, Grows, NEW l \in Loaders, Written(l),
           payload'[l] = payload[l], next'[l] = next[l],
           lpc'[l] = "loaded" => lpc[l] = "loaded" \/ next[l] \notin DOMAIN Items(payload[l])
    PROVE  Written(l)'
<1>1. \A u, k : IsKind(u, k) => IsKind(u, k)'
  BY DEF Grows, IsKind
<1>2. DOMAIN edges \subseteq DOMAIN edges'
  BY DEF Grows
<1>3. Items(payload'[l]) = Items(payload[l])
  OBVIOUS
<1> QED BY <1>1, <1>2, <1>3 DEF Written, KnownKind

\* The item a load moves past is written, or is none of those.
LEMMA PassedIsWritten ==
    ASSUME LoaderTypeOK, Grows, NEW l \in Loaders, Written(l), SkipItem(l) \/ LoadItem(l)
    PROVE  Written(l)'
<1> DEFINE p == payload[l]
<1>1. Advance(l) /\ lpc[l] = "loading"
  BY DEF SkipItem, LoadItem, WriteItem, At
<1>2. /\ payload' = payload /\ next'[l] = next[l] + 1 /\ lpc' = lpc /\ next[l] \in Nat
  BY <1>1 DEF Advance, LoaderTypeOK
<1>3. /\ p \in Payload /\ Len(p.nodes) \in Nat
      /\ \A i \in DOMAIN p.nodes : i \in Nat
      /\ \A i \in DOMAIN p.edges : i \in Nat
  BY PayloadType
<1>4. ASSUME NEW i \in DOMAIN p.nodes, i = next[l], KnownKind(p.nodes[i])
      PROVE  p.nodes[i].urn \in DOMAIN nodes' /\ nodes'[p.nodes[i].urn].kind = p.nodes[i].kind
  <2>1. Items(p)[next[l]] = Item("node", p.nodes[i]) /\ next[l] \in DOMAIN Items(p)
    BY <1>3, <1>4, ItemsInclude
  <2>2. At(l, "node") /\ ~At(l, "edge") /\ Current(l) = p.nodes[i]
    BY <1>1, <2>1 DEF At, Current, Item
  <2>3. UpsertNode(Current(l).urn, Stored(Current(l)))
    BY <1>4, <2>2 DEF SkipItem, LoadItem, WriteItem
  <2>4. Current(l).urn \in DOMAIN nodes' /\ nodes'[Current(l).urn] = Stored(Current(l))
    BY <1>4, <2>2, <2>3, WriteNode
  <2> QED BY <2>2, <2>4 DEF Stored
<1>5. ASSUME NEW i \in DOMAIN p.edges, Len(p.nodes) + i = next[l], p.edges[i].type \in EdgeType
      PROVE  <<p.edges[i].from, p.edges[i].to, p.edges[i].type>> \in DOMAIN edges'
  <2>1. Items(p)[next[l]] = Item("edge", p.edges[i]) /\ next[l] \in DOMAIN Items(p)
    BY <1>3, <1>5, ItemsInclude
  <2>2. At(l, "edge") /\ ~At(l, "node") /\ Current(l) = p.edges[i]
    BY <1>1, <2>1 DEF At, Current, Item
  <2>3. KnownEdgeType(Current(l)) /\ Current(l).type # "DEPENDS_ON"
    BY <1>5, <2>2 DEF KnownEdgeType, EdgeType
  <2>4. UpsertEdge(Current(l).from, Current(l).to, Current(l).type, Current(l).prop)
    BY <2>2, <2>3 DEF SkipItem, LoadItem, WriteItem, WriteEdge
  <2> QED BY <2>2, <2>4 DEF UpsertEdge
<1>6. /\ \A u, k : IsKind(u, k) => IsKind(u, k)'
      /\ DOMAIN edges \subseteq DOMAIN edges'
  BY DEF Grows, IsKind
<1>7. /\ \A i \in DOMAIN p.nodes : i < next'[l] => i < next[l] \/ i = next[l]
      /\ \A i \in DOMAIN p.edges :
            Len(p.nodes) + i < next'[l] => Len(p.nodes) + i < next[l] \/ Len(p.nodes) + i = next[l]
  <2>1. ASSUME NEW m \in Nat, NEW k \in Nat, NEW i \in Nat
        PROVE  /\ i < k + 1 => i < k \/ i = k
               /\ m + i < k + 1 => m + i < k \/ m + i = k
    OBVIOUS
  <2>2. ASSUME NEW i \in DOMAIN p.edges, Len(p.nodes) + i < next'[l]
        PROVE  Len(p.nodes) + i < next[l] \/ Len(p.nodes) + i = next[l]
    <3>1. /\ i \in Nat /\ Len(p.nodes) \in Nat /\ next[l] \in Nat
          /\ Len(p.nodes) + i < next[l] + 1
      BY <1>2, <1>3, <2>2
    <3> QED BY <2>1, <3>1
  <2>3. ASSUME NEW i \in DOMAIN p.nodes, i < next'[l]
        PROVE  i < next[l] \/ i = next[l]
    <3>1. i \in Nat /\ next[l] \in Nat /\ i < next[l] + 1
      BY <1>2, <1>3, <2>3
    <3> QED BY <2>1, <3>1
  <2> QED BY <2>2, <2>3
<1>8. next'[l] >= 1 /\ lpc'[l] # "loaded"
  BY <1>1, <1>2
<1>9. ASSUME NEW i \in DOMAIN p.nodes, i < next'[l], KnownKind(p.nodes[i])
      PROVE  p.nodes[i].urn \in DOMAIN nodes' /\ nodes'[p.nodes[i].urn].kind = p.nodes[i].kind
  BY <1>4, <1>6, <1>7, <1>9 DEF Written, IsKind
<1>10. ASSUME NEW i \in DOMAIN p.edges, Len(p.nodes) + i < next'[l], p.edges[i].type \in EdgeType
       PROVE  <<p.edges[i].from, p.edges[i].to, p.edges[i].type>> \in DOMAIN edges'
  <2>1. CASE Len(p.nodes) + i < next[l]
    BY <1>6, <1>10, <2>1 DEF Written
  <2> QED BY <1>5, <1>7, <1>10, <2>1
<1> QED BY <1>2, <1>8, <1>9, <1>10 DEF Written, KnownKind, IsKind

\* Every step keeps it: a load that begins has passed nothing.
LEMMA ItemsStayWritten ==
    ASSUME PipeInv, ItemsWritten, [PipeNext]_pipeVars, deletes' = deletes
    PROVE  ItemsWritten'
<1>1. LoaderTypeOK /\ Grows
  BY PipeNextInv DEF PipeInv, PipeTypeOK
<1> SUFFICES ASSUME NEW l \in Loaders, lpc'[l] \in {"loading", "loaded"}
             PROVE  Written(l)'
  BY DEF ItemsWritten
<1>2. CASE payload'[l] = payload[l] /\ next'[l] = next[l] /\ lpc'[l] = lpc[l]
  BY <1>1, <1>2, WrittenStays DEF ItemsWritten
<1>3. ASSUME NEW k \in Loaders, k # l, BeginLoad(k) \/ ContinueLoad(k)
      PROVE  Written(l)'
  <2>1. payload'[l] = payload[l] /\ next'[l] = next[l] /\ lpc'[l] = lpc[l]
    BY <1>1, <1>3 DEF BeginLoad, ContinueLoad, StartLoad, LoadStep, SkipItem, LoadItem, Reject,
          FinishLoad, FailLoad, FailLoadAfterCommit, Advance, End, LoaderTypeOK
  <2> QED BY <1>2, <2>1
<1>4. CASE BeginLoad(l)
  <2>1. next'[l] = 1 /\ payload'[l] \in Payloads /\ lpc'[l] = "loading"
    BY <1>1, <1>4 DEF BeginLoad, StartLoad, LoaderTypeOK
  <2>2. payload'[l].nodes \in Seq(NodeIn) /\ payload'[l].edges \in Seq(EdgeIn)
    BY <2>1, LoaderAssumption DEF Payload
  <2>3. /\ \A i \in DOMAIN payload'[l].nodes : ~(i < 1)
        /\ \A i \in DOMAIN payload'[l].edges : ~(Len(payload'[l].nodes) + i < 1)
    BY <2>2
  <2> QED BY <2>1, <2>3 DEF Written
<1>5. CASE ContinueLoad(l)
  <2>1. CASE SkipItem(l) \/ LoadItem(l)
    <3>1. lpc[l] = "loading"
      BY <2>1 DEF SkipItem, LoadItem, WriteItem, At
    <3> QED BY <1>1, <2>1, <3>1, PassedIsWritten DEF ItemsWritten
  <2>2. CASE FinishLoad(l)
    <3>1. /\ lpc[l] = "loading" /\ payload'[l] = payload[l] /\ next'[l] = next[l]
          /\ next[l] \notin DOMAIN Items(payload[l])
      BY <2>2 DEF FinishLoad, End
    <3> QED BY <1>1, <3>1, WrittenStays DEF ItemsWritten
  <2>3. CASE Reject(l) \/ FailLoad(l) \/ FailLoadAfterCommit(l)
    <3>1. lpc'[l] \in {"rejected", "failed"}
      BY <1>1, <2>3 DEF Reject, FailLoad, FailLoadAfterCommit, End, LoaderTypeOK
    <3> QED BY <3>1
  <2> QED BY <1>5, <2>1, <2>2, <2>3 DEF ContinueLoad, LoadStep
<1>6. CASE UNCHANGED loaderVars
  BY <1>2, <1>6 DEF loaderVars
<1>7. ASSUME NEW k \in Linkers, BeginPass(k) \/ ContinuePass(k)
      PROVE  Written(l)'
  BY <1>6, <1>7 DEF BeginPass, ContinuePass
<1>8. ASSUME NEW u \in URN, Delete(u)
      PROVE  Written(l)'
  BY <1>6, <1>8 DEF Delete
<1>9. CASE UNCHANGED pipeVars
  BY <1>6, <1>9 DEF pipeVars
<1> QED BY <1>3, <1>4, <1>5, <1>7, <1>8, <1>9 DEF PipeNext

----------------------------------------------------------------------------
(* No linked call is missing from the service map. *)

\* An extraction names the service of its endpoints and calls before them, and
\* its URN is the one their own URNs name: urn:cg:<slug>:... and
\* urn:cg:<slug>:_:service (schema/fixtures/nestjs-orders.cypher).
RoutesAreOwned ==
    \A p \in Payloads : \A i \in DOMAIN p.nodes :
        p.nodes[i].kind \in {"Endpoint", "CallHTTP"} =>
            /\ p.nodes[i].serviceURN \in {Absent, SlugOf[p.nodes[i].urn]}
            /\ \E j \in DOMAIN p.nodes : /\ j < i
                                         /\ p.nodes[j].kind = "Service"
                                         /\ p.nodes[j].urn = SlugOf[p.nodes[i].urn]

\* A dependency is "materializada pelo linker cross-service" (aggregates.go:21):
\* no payload writes one.
DependsAreTheLinkers ==
    \A p \in Payloads : \A i \in DOMAIN p.edges : p.edges[i].type # "DEPENDS_ON"

\* While nothing is deleted: every route has its service in the graph ...
RoutesOwned ==
    \A u \in DOMAIN nodes : nodes[u].kind \in {"Endpoint", "CallHTTP"} =>
        /\ nodes[u].serviceURN \in {Absent, SlugOf[u]}
        /\ IsKind(SlugOf[u], "Service")

\* ... because a load wrote it first, and what a load wrote stays, so that
\* every resolution that crosses two services is counted.
WeightsSuffice ==
    \A p \in Pairs : LinkedBetween(p) # {} =>
        \E i \in HttpRels(p) : /\ deps[p][i].weight \in Nat
                               /\ deps[p][i].weight >= Cardinality(LinkedBetween(p))

CountedInv ==
    /\ WholeInv
    /\ deletes = 0 => RoutesOwned /\ ItemsWritten /\ WeightsSuffice

\* With its service there, a route's owner is the one its URN names.
LEMMA OwnersAreSlugs ==
    ASSUME GraphTypeOK, RoutesOwned, NEW u \in DOMAIN nodes,
           nodes[u].kind \in {"Endpoint", "CallHTTP"}
    PROVE  OwnerOf(u) = SlugOf[u] /\ IsKind(OwnerOf(u), "Service")
BY AbsentAssumption DEF RoutesOwned, OwnerOf

\* The calls of a pair, told by URNs alone.
SlugLinks(p) ==
    {c \in DOMAIN nodes : /\ Linked(c)
                          /\ p = <<SlugOf[c], SlugOf[nodes[c].targetURN]>>
                          /\ p[1] # p[2]}

\* Whole links between owned routes are the ones that count.
LEMMA LinksBySlug ==
    (GraphTypeOK /\ LinksAreWhole /\ deletes = 0 /\ RoutesOwned)
        => \A p \in Pairs : LinkedBetween(p) = SlugLinks(p)
<1> SUFFICES ASSUME GraphTypeOK, LinksAreWhole, deletes = 0, RoutesOwned, NEW p \in Pairs
             PROVE  LinkedBetween(p) = SlugLinks(p)
  OBVIOUS
<1>1. ASSUME NEW c \in DOMAIN nodes, Linked(c)
      PROVE  c \in LinkedBetween(p) <=> c \in SlugLinks(p)
  <2> DEFINE t == nodes[c].targetURN
  <2>1. IsKind(c, "CallHTTP") /\ IsKind(t, "Endpoint") /\ t \in DOMAIN nodes
    BY <1>1 DEF LinksAreWhole, Linked, IsKind
  <2>2. /\ OwnerOf(c) = SlugOf[c] /\ IsKind(OwnerOf(c), "Service")
        /\ OwnerOf(t) = SlugOf[t] /\ IsKind(OwnerOf(t), "Service")
    BY <2>1, OwnersAreSlugs DEF IsKind
  <2>3. c \in LinkedBetween(p) <=> SlugOf[c] # SlugOf[t] /\ <<SlugOf[c], SlugOf[t]>> = p
    BY <1>1, <2>1, <2>2 DEF LinkedBetween, ResolveReturnsRow, CanResolve
  <2>4. c \in SlugLinks(p) <=> SlugOf[c] # SlugOf[t] /\ <<SlugOf[c], SlugOf[t]>> = p
    BY <1>1 DEF SlugLinks
  <2> QED BY <2>3, <2>4
<1> QED BY <1>1 DEF LinkedBetween, SlugLinks

\* In the next state as in this one.
LEMMA LinksBySlugNext ==
    (GraphTypeOK' /\ LinksAreWhole' /\ deletes' = 0 /\ RoutesOwned')
        => \A p \in Pairs : LinkedBetween(p)' = SlugLinks(p)'
<1>1. (GraphTypeOK /\ LinksAreWhole /\ deletes = 0 /\ RoutesOwned
            => \A p \in Pairs : LinkedBetween(p) = SlugLinks(p))'
  BY LinksBySlug, PTL
<1> QED BY <1>1

\* The MERGE on {via:'http'}: an http dependency goes up by one and stays http,
\* and there is one afterwards.
LEMMA HttpGoesUp ==
    ASSUME NEW rels \in Seq(DependsOn)
    PROVE  LET new == AddHttpDependency(rels)
           IN  /\ \E i \in DOMAIN new : new[i].via = "http" /\ new[i].weight \in Nat
                                                            /\ new[i].weight >= 1
               /\ \A i \in DOMAIN rels : (rels[i].via = "http" /\ rels[i].weight \in Nat) =>
                    /\ i \in DOMAIN new
                    /\ new[i].via = "http" /\ new[i].weight = rels[i].weight + 1
<1> DEFINE new == AddHttpDependency(rels)
<1>1. CASE \A i \in DOMAIN rels : rels[i].via # "http"
  <2>1. PICK i \in DOMAIN new : /\ {j \in DOMAIN new : new[j].via = "http"} = {i}
                                /\ new[i].weight = 1
    BY <1>1, FirstHttp
  <2>2. new[i].via = "http"
    BY <2>1
  <2> HIDE DEF new
  <2> QED BY <1>1, <2>1, <2>2 DEF new
<1>2. CASE \E i \in DOMAIN rels : rels[i].via = "http"
  <2>1. new = [j \in DOMAIN rels |->
                IF rels[j].via # "http" THEN rels[j]
                ELSE [rels[j] EXCEPT !.weight = IF @ = Absent THEN 1 ELSE @ + 1]]
    BY <1>2 DEF AddHttpDependency
  <2>2. ASSUME NEW i \in DOMAIN rels, rels[i].via = "http"
        PROVE  /\ i \in DOMAIN new /\ new[i].via = "http"
               /\ new[i].weight = IF rels[i].weight = Absent THEN 1 ELSE rels[i].weight + 1
               /\ rels[i].weight \in Maybe(Nat)
    <3>1. rels[i] \in [via : Maybe(Via), weight : Maybe(Nat)]
      <4>1. rels[i] \in DependsOn
        OBVIOUS
      <4> QED BY <4>1 DEF DependsOn
    <3>2. new[i] = [rels[i] EXCEPT !.weight = IF rels[i].weight = Absent THEN 1 ELSE rels[i].weight + 1]
      BY <2>1, <2>2
    <3>3. new[i].via = rels[i].via
          /\ new[i].weight = IF rels[i].weight = Absent THEN 1 ELSE rels[i].weight + 1
      BY <3>1, <3>2
    <3> QED BY <2>1, <2>2, <3>1, <3>3
  <2>3. \A i \in DOMAIN rels : (rels[i].via = "http" /\ rels[i].weight \in Nat) =>
            /\ i \in DOMAIN new
            /\ new[i].via = "http" /\ new[i].weight = rels[i].weight + 1
    BY <2>2, AbsentAssumption
  <2>4. \E i \in DOMAIN new : new[i].via = "http" /\ new[i].weight \in Nat /\ new[i].weight >= 1
    <3>1. PICK i \in DOMAIN rels : rels[i].via = "http"
      BY <1>2
    <3>2. i \in DOMAIN new /\ new[i].via = "http" /\ new[i].weight \in Nat /\ new[i].weight >= 1
      BY <2>2, <3>1 DEF Maybe
    <3> QED BY <3>2
  <2> HIDE DEF new
  <2> QED BY <2>3, <2>4 DEF new
<1> QED BY <1>1, <1>2

\* A load adds no link and touches no weight.
LEMMA WriteKeepsCounts ==
    ASSUME TargetsAreTheLinkers, RoutesAreOwned, DependsAreTheLinkers,
           CountedInv, deletes = 0, deletes' = deletes,
           NEW l \in Loaders, WriteItem(l)
    PROVE  RoutesOwned' /\ WeightsSuffice'
<1>1. /\ LoaderTypeOK /\ GraphTypeOK /\ NoDanglingEdges /\ LinksAreWhole
      /\ RoutesOwned /\ ItemsWritten /\ WeightsSuffice
  BY DEF CountedInv, WholeInv, PipeInv, PipeTypeOK, LoaderTypeOK
<1>2. GraphTypeOK' /\ Grows /\ LinksAreWhole'
  BY <1>1, WriteItemGrows, WriteKeepsWhole
<1>3. /\ deps' = deps
      /\ \/ nodes' = nodes
         \/ /\ At(l, "node") /\ KnownKind(Current(l))
            /\ DOMAIN nodes' = DOMAIN nodes \cup {Current(l).urn}
            /\ nodes'[Current(l).urn] = Stored(Current(l))
            /\ \A u \in DOMAIN nodes : u # Current(l).urn => nodes'[u] = nodes[u]
  <2>1. CASE /\ At(l, "node") /\ KnownKind(Current(l))
             /\ UpsertNode(Current(l).urn, Stored(Current(l)))
    BY <1>1, <2>1, WriteNode
  <2>2. CASE At(l, "edge") /\ WriteEdge(Current(l))
    <3>1. Current(l).type # "DEPENDS_ON"
      BY <1>1, <2>2, CurrentEdge DEF DependsAreTheLinkers
    <3> QED BY <2>2, <3>1 DEF WriteEdge, UpsertEdge
  <2> QED BY <2>1, <2>2 DEF WriteItem
<1>4. \A u : IsKind(u, "Service") => IsKind(u, "Service")'
  BY <1>2 DEF Grows, IsKind
<1>5. CASE nodes' = nodes
  <2>1. \A p \in Pairs : LinkedBetween(p)' = LinkedBetween(p)
    BY <1>5 DEF LinkedBetween, Linked, ResolveReturnsRow, CanResolve, IsKind, OwnerOf
  <2> QED BY <1>1, <1>3, <1>5, <2>1 DEF RoutesOwned, WeightsSuffice, HttpRels, IsKind
<1>6. CASE nodes' # nodes
  <2> DEFINE n == Current(l)
  <2>1. /\ At(l, "node") /\ KnownKind(n)
        /\ DOMAIN nodes' = DOMAIN nodes \cup {n.urn}
        /\ nodes'[n.urn] = Stored(n)
        /\ \A u \in DOMAIN nodes : u # n.urn => nodes'[u] = nodes[u]
    BY <1>3, <1>6
  <2>2. lpc[l] = "loading" /\ payload[l] \in Payloads /\ next[l] \in DOMAIN payload[l].nodes
        /\ n = payload[l].nodes[next[l]]
    BY <1>1, <2>1, CurrentNode DEF At
  <2>3. n.kind \in {"Endpoint", "CallHTTP"} =>
            n.serviceURN \in {Absent, SlugOf[n.urn]} /\ IsKind(SlugOf[n.urn], "Service")
    BY <1>1, <2>2 DEF RoutesAreOwned, ItemsWritten, Written, KnownKind, Kind
  <2>4. Stored(n).kind = n.kind /\ Stored(n).serviceURN = n.serviceURN
    BY DEF Stored
  <2>5. RoutesOwned'
    <3> SUFFICES ASSUME NEW u \in DOMAIN nodes', nodes'[u].kind \in {"Endpoint", "CallHTTP"}
                 PROVE  nodes'[u].serviceURN \in {Absent, SlugOf[u]} /\ IsKind(SlugOf[u], "Service")'
      BY DEF RoutesOwned, IsKind
    <3>1. CASE u = n.urn
      BY <1>4, <2>1, <2>3, <2>4, <3>1
    <3>2. CASE u # n.urn
      BY <1>1, <1>4, <2>1, <3>2 DEF RoutesOwned
    <3> QED BY <3>1, <3>2
  <2>6. ASSUME NEW c, Linked(c)'
        PROVE  Linked(c) /\ nodes'[c] = nodes[c]
    <3>1. n.kind = "CallHTTP" => n.targetURN = Absent
      BY <2>2 DEF TargetsAreTheLinkers
    <3>2. c # n.urn
      BY <2>1, <2>6, <3>1 DEF Linked, IsKind, Stored
    <3> QED BY <2>1, <2>6, <3>2 DEF Linked, IsKind
  <2> HIDE DEF n
  <2>7. \A p \in Pairs : LinkedBetween(p)' \subseteq LinkedBetween(p)
    <3> SUFFICES ASSUME NEW p \in Pairs, NEW c \in SlugLinks(p)'
                 PROVE  c \in SlugLinks(p)
      BY <1>1, <1>2, <2>5, LinksBySlug, LinksBySlugNext
    <3>1. Linked(c)' /\ p = <<SlugOf[c], SlugOf[nodes'[c].targetURN]>> /\ p[1] # p[2]
      BY DEF SlugLinks
    <3>2. Linked(c) /\ nodes'[c] = nodes[c]
      BY <2>6, <3>1
    <3> QED BY <3>1, <3>2 DEF SlugLinks, Linked, IsKind
  <2>8. ASSUME NEW p \in Pairs, LinkedBetween(p)' # {}
        PROVE  \E i \in HttpRels(p)' : /\ deps'[p][i].weight \in Nat
                                       /\ deps'[p][i].weight >= Cardinality(LinkedBetween(p)')
    <3>1. PICK i \in HttpRels(p) : /\ deps[p][i].weight \in Nat
                                   /\ deps[p][i].weight >= Cardinality(LinkedBetween(p))
      BY <1>1, <2>7, <2>8 DEF WeightsSuffice
    <3>2. IsFiniteSet(LinkedBetween(p))
      BY <1>1, FS_Subset DEF LinkedBetween, GraphTypeOK
    <3>3. /\ Cardinality(LinkedBetween(p)) \in Nat /\ Cardinality(LinkedBetween(p)') \in Nat
          /\ Cardinality(LinkedBetween(p)') <= Cardinality(LinkedBetween(p))
      BY <2>7, <3>2, FS_Subset, FS_CardinalityType
    <3>4. i \in HttpRels(p)' /\ deps'[p][i].weight = deps[p][i].weight
      BY <1>3, <3>1 DEF HttpRels
    <3>5. deps[p][i].weight >= Cardinality(LinkedBetween(p)')
      BY <3>1, <3>3
    <3> QED BY <3>1, <3>4, <3>5
  <2> QED BY <2>5, <2>8 DEF WeightsSuffice
<1> QED BY <1>5, <1>6

\* A resolution moves at most its own call, and adds one to the weight of the
\* pair it moves it to, now that both services are there.
LEMMA ResolveKeepsCounts ==
    ASSUME CountedInv, deletes = 0, deletes' = deletes,
           NEW c \in URN, NEW t \in URN, ResolveCallHTTPTarget(c, t)
    PROVE  RoutesOwned' /\ WeightsSuffice'
<1>1. GraphTypeOK /\ NoDanglingEdges /\ LinksAreWhole /\ RoutesOwned /\ WeightsSuffice
  BY DEF CountedInv, WholeInv, PipeInv, PipeTypeOK, LoaderTypeOK
<1>2. GraphTypeOK' /\ Grows /\ LinksAreWhole'
  BY <1>1, ResolveGrows, ResolveKeepsWhole
<1>3. /\ DOMAIN nodes' = DOMAIN nodes
      /\ \A u \in DOMAIN nodes : /\ nodes'[u].kind = nodes[u].kind
                                 /\ nodes'[u].serviceURN = nodes[u].serviceURN
                                 /\ u # c => nodes'[u] = nodes[u]
      /\ IF CanResolve(c, t) THEN nodes'[c].targetURN = t ELSE nodes' = nodes
  BY <1>1, ResolveKeepsRoutes, ResolveSetsTarget
<1>4. RoutesOwned'
  BY <1>1, <1>3 DEF RoutesOwned, IsKind
<1>5. \A p \in Pairs : IsFiniteSet(LinkedBetween(p))
  BY <1>1, FS_Subset DEF LinkedBetween, GraphTypeOK
<1> SUFFICES ASSUME NEW p \in Pairs, LinkedBetween(p)' # {}
             PROVE  \E i \in HttpRels(p)' : /\ deps'[p][i].weight \in Nat
                                            /\ deps'[p][i].weight >= Cardinality(LinkedBetween(p)')
  BY <1>4 DEF WeightsSuffice
<1> DEFINE crosses == CanResolve(c, t) /\ SlugOf[c] # SlugOf[t] /\ p = <<SlugOf[c], SlugOf[t]>>
<1>6. LinkedBetween(p)' \subseteq LinkedBetween(p) \cup (IF crosses THEN {c} ELSE {})
  <2> SUFFICES ASSUME NEW d \in SlugLinks(p)'
               PROVE  d \in SlugLinks(p) \cup (IF crosses THEN {c} ELSE {})
    BY <1>1, <1>2, <1>4, LinksBySlug, LinksBySlugNext
  <2>1. CASE d = c /\ CanResolve(c, t)
    BY <1>3, <2>1 DEF SlugLinks
  <2>2. CASE ~(d = c /\ CanResolve(c, t))
    <3>1. d \in DOMAIN nodes /\ nodes'[d] = nodes[d]
      BY <1>3, <2>2 DEF SlugLinks
    <3> QED BY <3>1 DEF SlugLinks, Linked, IsKind
  <2> QED BY <2>1, <2>2
<1>7. deps'[p] = IF crosses THEN AddHttpDependency(deps[p]) ELSE deps[p]
  <2>1. CASE CanResolve(c, t)
    <3>1. /\ OwnerOf(c) = SlugOf[c] /\ IsKind(OwnerOf(c), "Service")
          /\ OwnerOf(t) = SlugOf[t] /\ IsKind(OwnerOf(t), "Service")
      BY <1>1, <2>1, OwnersAreSlugs DEF CanResolve, IsKind
    <3>2. ResolveReturnsRow(c, t) <=> SlugOf[c] # SlugOf[t]
      BY <2>1, <3>1 DEF ResolveReturnsRow
    <3> DEFINE pair == <<SlugOf[c], SlugOf[t]>>
    <3>3. deps' = IF SlugOf[c] # SlugOf[t]
                  THEN [deps EXCEPT ![pair] = AddHttpDependency(deps[pair])]
                  ELSE deps
      BY <3>1, <3>2 DEF ResolveCallHTTPTarget
    <3> HIDE DEF pair
    <3>4. pair = <<SlugOf[c], SlugOf[t]>>
      BY DEF pair
    <3> QED BY <1>1, <2>1, <3>3, <3>4 DEF GraphTypeOK
  <2>2. CASE ~CanResolve(c, t)
    BY <2>2 DEF ResolveCallHTTPTarget, ResolveReturnsRow
  <2> QED BY <2>1, <2>2
<1>8. deps[p] \in Seq(DependsOn)
  BY <1>1 DEF GraphTypeOK
<1> DEFINE S == LinkedBetween(p)
           T == LinkedBetween(p)'
<1>9. IsFiniteSet(S) /\ T \subseteq S \cup (IF crosses THEN {c} ELSE {}) /\ T # {}
  BY <1>5, <1>6
<1>10. S # {} => \E i \in HttpRels(p) : /\ deps[p][i].weight \in Nat
                                        /\ deps[p][i].weight >= Cardinality(S)
  BY <1>1 DEF WeightsSuffice
<1> HIDE DEF S, T, crosses
<1>11. CASE crosses
  <2>1. /\ Cardinality(S) \in Nat /\ Cardinality(T) \in Nat
        /\ Cardinality(T) <= Cardinality(S) + 1
    <3> DEFINE U == S \cup {c}
    <3>0. Cardinality(S) \in Nat
      BY <1>9, FS_CardinalityType
    <3>1. IsFiniteSet(U) /\ Cardinality(U) \in {Cardinality(S), Cardinality(S) + 1}
      BY <1>9, FS_AddElement
    <3>2. T \subseteq U
      BY <1>9, <1>11
    <3> HIDE DEF U
    <3>3. Cardinality(T) \in Nat /\ Cardinality(U) \in Nat /\ Cardinality(T) <= Cardinality(U)
      BY <3>1, <3>2, FS_Subset, FS_CardinalityType
    <3> QED BY <3>0, <3>1, <3>3
  <2>2. deps'[p] = AddHttpDependency(deps[p])
    BY <1>7, <1>11
  <2>3. CASE S = {}
    <3>1. Cardinality(S) = 0
      BY <2>3, FS_EmptySet
    <3>2. PICK i \in DOMAIN deps'[p] : /\ deps'[p][i].via = "http"
                                       /\ deps'[p][i].weight \in Nat /\ deps'[p][i].weight >= 1
      BY <1>8, <2>2, HttpGoesUp
    <3>3. deps'[p][i].weight >= Cardinality(T)
      BY <2>1, <3>1, <3>2
    <3> QED BY <3>2, <3>3 DEF HttpRels, T
  <2>4. CASE S # {}
    <3>1. PICK i \in HttpRels(p) : deps[p][i].weight \in Nat /\ deps[p][i].weight >= Cardinality(S)
      BY <1>10, <2>4
    <3>2. /\ i \in DOMAIN deps'[p] /\ deps'[p][i].via = "http"
          /\ deps'[p][i].weight = deps[p][i].weight + 1
      BY <1>8, <2>2, <3>1, HttpGoesUp DEF HttpRels
    <3>3. deps'[p][i].weight \in Nat /\ deps'[p][i].weight >= Cardinality(T)
      BY <2>1, <3>1, <3>2
    <3> QED BY <3>2, <3>3 DEF HttpRels, T
  <2> QED BY <2>3, <2>4
<1>12. CASE ~crosses
  <2>1. /\ Cardinality(S) \in Nat /\ Cardinality(T) \in Nat
        /\ Cardinality(T) <= Cardinality(S) /\ S # {}
    BY <1>9, <1>12, FS_Subset, FS_CardinalityType
  <2>2. PICK i \in HttpRels(p) : deps[p][i].weight \in Nat /\ deps[p][i].weight >= Cardinality(S)
    BY <1>10, <2>1
  <2>3. deps'[p] = deps[p]
    BY <1>7, <1>12
  <2>4. deps'[p][i].weight \in Nat /\ deps'[p][i].weight >= Cardinality(T)
    BY <2>1, <2>2, <2>3
  <2> QED BY <2>2, <2>3, <2>4 DEF HttpRels, T
<1> QED BY <1>11, <1>12

\* Every step keeps the account, until something is deleted.
LEMMA CountedNext ==
    ASSUME TargetsAreTheLinkers, RoutesAreOwned, DependsAreTheLinkers,
           CountedInv, [PipeNext]_pipeVars
    PROVE  CountedInv'
<1>1. WholeInv' /\ PipeInv /\ LoaderTypeOK
  BY WholeNext DEF CountedInv, WholeInv, PipeInv, PipeTypeOK
<1>2. /\ \A k \in Linkers : pc[k] = "resolving" => cur[k].call \in URN /\ cur[k].target \in URN
      /\ deletes \in Nat
  BY <1>1, PipelineAssumption DEF PipeInv, PipeTypeOK
<1> SUFFICES ASSUME deletes' = 0
             PROVE  RoutesOwned' /\ ItemsWritten' /\ WeightsSuffice'
  BY <1>1 DEF CountedInv
<1>3. deletes = 0 /\ deletes' = deletes
  <2>1. deletes' = deletes \/ deletes' = deletes + 1
    BY DEF PipeNext, BeginLoad, ContinueLoad, BeginPass, ContinuePass, Delete, pipeVars
  <2> QED BY <1>2, <2>1
<1>4. ItemsWritten'
  BY <1>1, <1>3, ItemsStayWritten DEF CountedInv
<1>5. UNCHANGED graph => RoutesOwned' /\ WeightsSuffice'
  <2> SUFFICES ASSUME nodes' = nodes, deps' = deps
               PROVE  RoutesOwned' /\ WeightsSuffice'
    BY DEF graph
  <2>1. \A p \in Pairs : LinkedBetween(p)' = LinkedBetween(p)
    BY DEF LinkedBetween, Linked, ResolveReturnsRow, CanResolve, IsKind, OwnerOf
  <2> QED BY <1>3, <2>1 DEF CountedInv, RoutesOwned, WeightsSuffice, HttpRels, IsKind
<1>6. ASSUME NEW l \in Loaders, BeginLoad(l) \/ ContinueLoad(l)
      PROVE  RoutesOwned' /\ WeightsSuffice'
  <2>1. WriteItem(l) \/ UNCHANGED graph
    BY <1>6 DEF BeginLoad, ContinueLoad, StartLoad, LoadStep, SkipItem, LoadItem,
                Reject, FinishLoad, FailLoad, FailLoadAfterCommit
  <2> QED BY <1>3, <1>5, <2>1, WriteKeepsCounts
<1>7. ASSUME NEW l \in Linkers, BeginPass(l) \/ ContinuePass(l)
      PROVE  RoutesOwned' /\ WeightsSuffice'
  <2>1. \/ UNCHANGED graph
        \/ /\ pc[l] = "resolving"
           /\ ResolveCallHTTPTarget(cur[l].call, cur[l].target)
    BY <1>7 DEF BeginPass, ContinuePass, Start, Step, ListUnresolved, SkipNoMatch,
                ReportAmbiguous, PickTarget, Resolve, Finish, Fail, FailAfterCommit
  <2> QED BY <1>2, <1>3, <1>5, <2>1, ResolveKeepsCounts
<1>8. ASSUME NEW u \in URN, Delete(u)
      PROVE  FALSE
  BY <1>2, <1>3, <1>8 DEF Delete
<1>9. CASE UNCHANGED pipeVars
  <2>1. UNCHANGED graph
    BY <1>9 DEF pipeVars
  <2> QED BY <1>4, <1>5, <2>1
<1> QED BY <1>4, <1>6, <1>7, <1>8, <1>9 DEF PipeNext

----------------------------------------------------------------------------
(* Loads first, passes afterwards. *)

\* "Deve rodar DEPOIS de todos os rhaxis-load" (rhaxis-link main.go:3), kept to:
\* the operator who brings services in, and deletes nothing.
RunAfterLoads == Apart /\ ~Reload /\ MaxDeletes = 0

\* Some extraction names u a CallHTTP.
NamedACall(u) ==
    \E p \in Payloads : \E i \in DOMAIN p.nodes :
        p.nodes[i].urn = u /\ p.nodes[i].kind = "CallHTTP"

\* What the linker writes no extraction does: targetURN and EXPANDS_TO of a
\* CallHTTP (domain/kinds.go:240; an extractor emits EXPANDS_TO for a
\* CallFunction, node.go:153-158) and the http dependencies (aggregates.go:21).
LinksAreTheLinkers ==
    /\ TargetsAreTheLinkers
    /\ \A p \in Payloads : \A i \in DOMAIN p.edges :
            /\ p.edges[i].type = "EXPANDS_TO" => ~NamedACall(p.edges[i].from)
            /\ p.edges[i].type = "DEPENDS_ON" => p.edges[i].via # "http"

\* A payload that says a database or broker is used names it as one
\* (schema/fixtures/nestjs-orders.cypher).
StoreOf(type) == IF type = "USES_DB" THEN "Database" ELSE "Broker"
StoresAreNamed ==
    \A p \in Payloads : \A i \in DOMAIN p.edges : p.edges[i].type \in SystemEdges =>
        \E j \in DOMAIN p.nodes : /\ p.nodes[j].urn = p.edges[i].to
                                  /\ p.nodes[j].kind = StoreOf(p.edges[i].type)

\* Nothing of what the linker writes is there.
Unlinked ==
    /\ \A u \in DOMAIN nodes : nodes[u].kind = "CallHTTP" =>
            nodes[u].targetURN = Absent /\ NamedACall(u)
    /\ \A k \in DOMAIN edges : k[3] = "EXPANDS_TO" => ~NamedACall(k[1])
    /\ \A p \in Pairs : HttpRels(p) = {}

\* The first pass finds a graph that is Loaded; from then on only linkers write,
\* and what they keep of such a graph is theirs to keep.
OnboardInv ==
    /\ PipeInv
    /\ deletes = 0
    /\ ItemsWritten
    /\ passes = 0 => LinkerInit /\ Unlinked
    /\ passes > 0 => ~Loading /\ LinkerInv /\ WeightsCover

\* A load leaves an unlinked graph unlinked.
LEMMA WriteKeepsUnlinked ==
    ASSUME LinksAreTheLinkers, LoaderTypeOK, NEW l \in Loaders, WriteItem(l), Unlinked
    PROVE  Unlinked'
<1>1. CASE /\ At(l, "node") /\ KnownKind(Current(l))
           /\ UpsertNode(Current(l).urn, Stored(Current(l)))
  <2>1. /\ DOMAIN nodes' = DOMAIN nodes \cup {Current(l).urn}
        /\ nodes'[Current(l).urn] = Stored(Current(l))
        /\ \A u \in DOMAIN nodes : u # Current(l).urn => nodes'[u] = nodes[u]
        /\ edges' = edges /\ deps' = deps
    BY <1>1, WriteNode
  <2>2. Stored(Current(l)).kind = "CallHTTP" =>
            Stored(Current(l)).targetURN = Absent /\ NamedACall(Current(l).urn)
    BY <1>1, CurrentNode DEF Stored, LinksAreTheLinkers, TargetsAreTheLinkers, NamedACall
  <2> QED BY <2>1, <2>2 DEF Unlinked, NamedACall, HttpRels
<1>2. CASE At(l, "edge") /\ KnownEdgeType(Current(l)) /\ WriteEdge(Current(l))
  <2> DEFINE e == Current(l)
             p == <<e.from, e.to>>
  <2>1. /\ e \in EdgeIn
        /\ e.type = "EXPANDS_TO" => ~NamedACall(e.from)
        /\ e.type = "DEPENDS_ON" => e.via # "http" /\ p \in Pairs
    BY <1>2, CurrentEdge, LoaderAssumption DEF LinksAreTheLinkers
  <2>2. CASE e.type = "DEPENDS_ON"
    <3> DEFINE Updated(d) == [via |-> PlusEquals(d.via, e.via),
                              weight |-> PlusEquals(d.weight, e.weight)]
               rels == deps[p]
               new == IF rels = <<>> THEN <<[via |-> e.via, weight |-> e.weight]>>
                      ELSE [i \in DOMAIN rels |-> Updated(rels[i])]
    <3>1. UpsertDependsOn(e.from, e.to, e.via, e.weight)
      BY <1>2, <2>2 DEF WriteEdge
    <3>2. nodes' = nodes /\ edges' = edges /\ deps' = [deps EXCEPT ![p] = new]
      BY <3>1 DEF UpsertDependsOn
    <3>3. \A i \in DOMAIN rels : rels[i].via # "http"
      BY <2>1, <2>2 DEF Unlinked, HttpRels
    <3>4. \A i \in DOMAIN new : new[i].via # "http"
      BY <2>1, <2>2, <3>3 DEF PlusEquals
    <3> HIDE DEF new, p
    <3>5. deps \in [Pairs -> Seq(DependsOn)]
      BY DEF LoaderTypeOK, GraphTypeOK
    <3>6. ASSUME NEW q \in Pairs PROVE \A i \in DOMAIN deps'[q] : deps'[q][i].via # "http"
      <4>1. CASE q = p
        BY <3>2, <3>4, <3>5, <4>1
      <4>2. CASE q # p
        BY <3>2, <3>5, <4>2 DEF Unlinked, HttpRels
      <4> QED BY <4>1, <4>2
    <3> QED BY <3>2, <3>6 DEF Unlinked, NamedACall, HttpRels
  <2>3. CASE e.type # "DEPENDS_ON"
    <3>1. UpsertEdge(e.from, e.to, e.type, e.prop)
      BY <1>2, <2>3 DEF WriteEdge
    <3>2. /\ nodes' = nodes /\ deps' = deps
          /\ DOMAIN edges' = DOMAIN edges \cup {<<e.from, e.to, e.type>>}
      BY <3>1 DEF UpsertEdge
    <3>3. \A k \in DOMAIN edges' : k[3] = "EXPANDS_TO" => ~NamedACall(k[1])
      BY <2>1, <3>2 DEF Unlinked
    <3> QED BY <3>2, <3>3 DEF Unlinked, NamedACall, HttpRels
  <2> QED BY <2>2, <2>3
<1> QED BY <1>1, <1>2 DEF WriteItem

\* Such a graph is one the linker may begin with.
LEMMA UnlinkedIsLoaded ==
    ASSUME GraphTypeOK, Unlinked, LinkerInit
    PROVE  LinkerInv /\ WeightsCover
<1> DEFINE g == [nodes |-> nodes, edges |-> edges, deps |-> deps]
<1>1. g.nodes = nodes /\ g.edges = edges /\ g.deps = deps
  OBVIOUS
<1> HIDE DEF g
<1>2. Loaded(g)
  BY <1>1 DEF GraphTypeOK, Unlinked, HttpRels, Loaded
<1>3. \A p \in Pairs : LinkedBetween(p) = {} /\ HttpRels(p) = {}
  BY DEF Unlinked, LinkedBetween, Linked, IsKind
<1> QED BY <1>1, <1>2, <1>3, LoadedInv DEF WeightsCover

\* Every step keeps the invariant: loads while no pass has begun, and linkers
\* alone afterwards.
LEMMA OnboardNext ==
    ASSUME RunAfterLoads, LinksAreTheLinkers, OnboardInv, [PipeNext]_pipeVars
    PROVE  OnboardInv'
<1>1. /\ PipeInv /\ PipeTypeOK /\ LoaderTypeOK /\ GraphTypeOK /\ LinkerTypeOK
      /\ deletes = 0 /\ passes \in Nat
  BY LinkerAssumption DEF OnboardInv, PipeInv, PipeTypeOK, LoaderTypeOK, LinkerTypeOK
<1>2. PipeInv'
  BY <1>1, PipeNextInv
<1>3. deletes' = 0
  BY <1>1 DEF RunAfterLoads, PipeNext, BeginLoad, ContinueLoad, BeginPass, ContinuePass,
              Delete, pipeVars
<1>4. ItemsWritten'
  BY <1>1, <1>3, ItemsStayWritten DEF OnboardInv
<1> DEFINE Begun == /\ passes = 0 => LinkerInit /\ Unlinked
                    /\ passes > 0 => ~Loading /\ LinkerInv /\ WeightsCover
<1> SUFFICES Begun'
  BY <1>2, <1>3, <1>4 DEF OnboardInv
<1>5. ASSUME UNCHANGED linkerVars, UNCHANGED graph, Loading' => Loading \/ passes = 0
      PROVE  Begun'
  <2>1. UNCHANGED vars /\ UNCHANGED <<pc, todo, cands, cur, stats, passes, nodes, edges, deps>>
    BY <1>5 DEF vars, linkerVars, graph
  <2>2. CASE passes = 0
    BY <2>1, <2>2 DEF OnboardInv, LinkerInit, Unlinked, NamedACall, HttpRels
  <2>3. CASE passes > 0
    <3>1. LinkerInv' /\ WeightsCover'
      BY <2>1, <2>3, NextInv, CoverNext DEF OnboardInv
    <3> QED BY <1>5, <2>1, <2>3, <3>1 DEF OnboardInv
  <2> QED BY <1>1, <2>2, <2>3
<1>6. ASSUME NEW l \in Loaders, BeginLoad(l)
      PROVE  Begun'
  <2>1. UNCHANGED linkerVars /\ UNCHANGED graph /\ ~(passes > 0)
    BY <1>6 DEF BeginLoad, StartLoad, RunAfterLoads
  <2>2. passes = 0
    BY <1>1, <2>1
  <2> QED BY <1>5, <2>1, <2>2
<1>7. ASSUME NEW l \in Loaders, ContinueLoad(l)
      PROVE  Begun'
  <2>1. /\ UNCHANGED linkerVars /\ Loading
        /\ WriteItem(l) \/ UNCHANGED graph
    BY <1>7 DEF ContinueLoad, LoadStep, SkipItem, LoadItem, WriteItem, Reject, FinishLoad,
                FailLoad, FailLoadAfterCommit, At, Loading
  <2>2. passes = 0
    BY <1>1, <2>1 DEF OnboardInv
  <2>3. CASE WriteItem(l)
    <3>1. Unlinked'
      BY <1>1, <2>2, <2>3, WriteKeepsUnlinked DEF OnboardInv
    <3>2. LinkerInit' /\ passes' = 0
      BY <2>1, <2>2 DEF OnboardInv, LinkerInit, linkerVars
    <3> QED BY <3>1, <3>2
  <2> QED BY <1>5, <2>1, <2>2, <2>3
<1>8. ASSUME NEW l \in Linkers, BeginPass(l)
      PROVE  Begun'
  <2>1. LinkerInv /\ WeightsCover /\ ~Loading
    <3>1. CASE passes = 0
      BY <1>1, <1>8, <3>1, UnlinkedIsLoaded DEF OnboardInv, BeginPass, RunAfterLoads
    <3>2. CASE passes > 0
      BY <3>2 DEF OnboardInv
    <3> QED BY <1>1, <3>1, <3>2
  <2>2. LinkerNext /\ passes' = passes + 1 /\ UNCHANGED loaderVars
    BY <1>8 DEF BeginPass, Start, LinkerNext
  <2>3. LinkerInv' /\ WeightsCover'
    BY <2>1, <2>2, NextInv, CoverNext
  <2>4. ~Loading'
    BY <2>1, <2>2 DEF loaderVars, Loading
  <2> QED BY <1>1, <2>2, <2>3, <2>4
<1>9. ASSUME NEW l \in Linkers, ContinuePass(l)
      PROVE  Begun'
  <2>1. pc[l] \in Active /\ UNCHANGED loaderVars /\ passes' = passes /\ LinkerNext
    BY <1>9 DEF ContinuePass, Step, ListUnresolved, SkipNoMatch, ReportAmbiguous, PickTarget,
                TakeCall, Resolve, Finish, Fail, FailAfterCommit, Active, LinkerNext
  <2>2. passes > 0
    <3>1. passes # 0
      BY <2>1 DEF OnboardInv, LinkerInit, Active
    <3> QED BY <1>1, <3>1
  <2>3. LinkerInv' /\ WeightsCover'
    BY <2>1, <2>2, NextInv, CoverNext DEF OnboardInv
  <2>4. ~Loading'
    BY <2>1, <2>2 DEF OnboardInv, loaderVars, Loading
  <2> QED BY <2>1, <2>2, <2>3, <2>4
<1>10. ASSUME NEW u \in URN, Delete(u)
       PROVE  FALSE
  BY <1>1, <1>10 DEF Delete, RunAfterLoads
<1>11. CASE UNCHANGED pipeVars
  BY <1>5, <1>11 DEF pipeVars, loaderVars, Loading
<1> QED BY <1>6, <1>7, <1>8, <1>9, <1>10, <1>11 DEF PipeNext

\* What the map and the list show of such a graph.
LEMMA OnboardedScreens ==
    ASSUME StoresAreNamed, OnboardInv
    PROVE  ScreensAgree
<1>1. LoaderTypeOK /\ NoDanglingEdges /\ ItemsWritten
  BY DEF OnboardInv, PipeInv, PipeTypeOK
<1> SUFFICES ASSUME AtRest
             PROVE  /\ \A d \in ServiceMap.dependencies : d.via = "http" =>
                        /\ {d.from, d.to} \subseteq ServiceMap.services
                        /\ \E c \in LinkedBetween(<<d.from, d.to>>) :
                            LET t == nodes[c].targetURN
                            IN  Published(d.to, t, "EXPOSES") => t \in ListEndpoints(d.to).endpoints
                    /\ \A s \in Services, u \in URN :
                        (\E type \in SystemEdges : Published(s, u, type))
                            => u \in ServiceMap.externalSystems
  BY DEF ScreensAgree
<1>2. WeightsCover
  <2>1. PICK l \in Linkers : pc[l] = "done"
    BY DEF AtRest
  <2>2. passes # 0
    BY <2>1 DEF OnboardInv, LinkerInit
  <2>3. passes \in Nat
    BY LinkerAssumption DEF OnboardInv, PipeInv, PipeTypeOK, LinkerTypeOK
  <2> QED BY <2>2, <2>3 DEF OnboardInv
<1>3. ASSUME NEW from, NEW to, NEW type \in EdgeType, Published(from, to, type)
      PROVE  <<from, to, type>> \in DOMAIN edges /\ to \in DOMAIN nodes
  <2>1. PICK l \in Loaders : lpc[l] = "loaded" /\ \E i \in DOMAIN payload[l].edges :
            LET e == payload[l].edges[i] IN <<e.from, e.to, e.type>> = <<from, to, type>>
    BY <1>3 DEF Published
  <2>2. PICK i \in DOMAIN payload[l].edges :
            LET e == payload[l].edges[i] IN <<e.from, e.to, e.type>> = <<from, to, type>>
    BY <2>1
  <2>3. <<from, to, type>> \in DOMAIN edges
    BY <1>1, <1>3, <2>1, <2>2, LoadedHasWritten
  <2> QED BY <1>1, <2>3 DEF NoDanglingEdges
<1>4. ASSUME NEW d \in ServiceMap.dependencies, d.via = "http"
      PROVE  /\ {d.from, d.to} \subseteq ServiceMap.services
             /\ \E c \in LinkedBetween(<<d.from, d.to>>) :
                    LET t == nodes[c].targetURN
                    IN  Published(d.to, t, "EXPOSES") => t \in ListEndpoints(d.to).endpoints
  <2>1. PICK p \in Services \X Services \cap Pairs : \E i \in DOMAIN deps[p] :
            d = [from |-> p[1], to |-> p[2], via |-> deps[p][i].via,
                 weight |-> IF deps[p][i].weight = Absent THEN 0 ELSE deps[p][i].weight,
                 rel |-> i]
    BY DEF ServiceMap, Dependencies
  <2>2. PICK i \in DOMAIN deps[p] : d.from = p[1] /\ d.to = p[2] /\ d.via = deps[p][i].via
    BY <2>1
  <2>3. i \in HttpRels(p) /\ p = <<d.from, d.to>> /\ d.to \in Services /\ d.from \in Services
    BY <1>4, <2>2 DEF HttpRels
  <2>4. PICK c \in LinkedBetween(p) : TRUE
    BY <1>2, <2>3 DEF WeightsCover
  <2> DEFINE t == nodes[c].targetURN
  <2>5. t \in DOMAIN nodes /\ nodes[t].kind = "Endpoint"
    BY <2>4 DEF LinkedBetween, ResolveReturnsRow, CanResolve, IsKind
  <2>6. Published(d.to, t, "EXPOSES") => t \in ListEndpoints(d.to).endpoints
    BY <1>3, <2>3, <2>5 DEF EdgeType, ListEndpoints, Joined
  <2> QED BY <2>3, <2>4, <2>6 DEF ServiceMap
<1>5. ASSUME NEW s \in Services, NEW u \in URN, NEW type \in SystemEdges,
             Published(s, u, type)
      PROVE  u \in ServiceMap.externalSystems
  <2>1. PICK l \in Loaders : lpc[l] = "loaded" /\ \E i \in DOMAIN payload[l].edges :
            payload[l].edges[i].to = u /\ payload[l].edges[i].type = type
    BY <1>5 DEF Published
  <2>2. payload[l] \in Payloads
    BY <1>1, <2>1, PayloadType
  <2>3. PICK j \in DOMAIN payload[l].nodes :
            payload[l].nodes[j].urn = u /\ payload[l].nodes[j].kind = StoreOf(type)
    BY <2>1, <2>2 DEF StoresAreNamed
  <2>4. IsKind(u, StoreOf(type))
    BY <1>1, <2>1, <2>3, LoadedHasWritten DEF KnownKind, Kind, StoreOf
  <2>5. u \in Joined(type, s)
    BY <1>3, <1>5, <2>4 DEF EdgeType, SystemEdges, Joined, IsKind
  <2>6. nodes[u].kind = StoreOf(type)
    BY <2>4 DEF IsKind
  <2> QED BY <2>5, <2>6 DEF StoreOf, SystemEdges, ServiceMap, ExternalSystems
<1> QED BY <1>4, <1>5

----------------------------------------------------------------------------
(* The theorems. *)

\* A pass that ran to its end while nothing was loaded or deleted left nothing
\* it could link (linker.go:104-105), whatever overlapping passes, begun on
\* whatever graph, resolved beside it.
THEOREM QuietPassesLinkAll == PipeSpec => []QuietPassLinksAll
<1>1. PipeInit => QuietInv
  BY PipeInitInv DEF PipeInit, EmptyGraph, QuietInv, QuietPasses, UnlinkedIsMarked
<1>2. QuietInv => QuietPassLinksAll
  <2> SUFFICES ASSUME QuietInv, NEW l \in Linkers, pc[l] = "done", quiet[l],
                      NEW c \in DOMAIN nodes, NEW t \in URN, RouteMatches(c) = {t},
                      \/ c \in UnresolvedCalls
                      \/ IsKind(c, "CallHTTP") /\ ~Linked(c) /\ LeftToLink(c)
               PROVE  FALSE
    BY DEF QuietPassLinksAll
  <2>1. Answers(l) /\ Pending(l) = {}
    BY DEF QuietInv, QuietPasses, Answers, Pending
  <2>2. c \in UnresolvedCalls
    <3>1. nodes[c].method # Absent /\ nodes[c].path # Absent
      BY DEF RouteMatches
    <3>2. CASE IsKind(c, "CallHTTP") /\ ~Linked(c) /\ LeftToLink(c)
      BY <3>1, <3>2 DEF QuietInv, UnlinkedIsMarked, Linked, IsKind, UnresolvedCalls
    <3> QED BY <3>2
  <2> QED BY <2>1, <2>2 DEF Answers, Counting
<1> QED BY <1>1, <1>2, QuietNext, PTL DEF PipeSpec

\* As long as nothing is deleted, and payloads leave links and dependencies to
\* the linker and name each service before its routes, the service map misses no
\* link: however loads and passes overlap, crash and are run again
\* (ResolveCallHTTPTarget, writer.go:136-155; cypherServiceMap).
THEOREM LinksAreCounted ==
    TargetsAreTheLinkers /\ RoutesAreOwned /\ DependsAreTheLinkers /\ PipeSpec
        => []EveryLinkIsCounted
<1>1. PipeInit => CountedInv
  <2> SUFFICES ASSUME PipeInit PROVE CountedInv
    OBVIOUS
  <2>1. WholeInv
    BY PipeInitInv DEF WholeInv, PipeInit, EmptyGraph, LinksAreWhole
  <2>2. \A p \in Pairs : LinkedBetween(p) = {}
    BY DEF PipeInit, EmptyGraph, LinkedBetween
  <2> QED BY <2>1, <2>2 DEF PipeInit, EmptyGraph, LoaderInit, CountedInv, RoutesOwned,
                            ItemsWritten, WeightsSuffice
<1>2. CountedInv => EveryLinkIsCounted
  BY DEF CountedInv, WeightsSuffice, EveryLinkIsCounted
<1>3. CASE TargetsAreTheLinkers /\ RoutesAreOwned /\ DependsAreTheLinkers
  <2>1. CountedInv /\ [PipeNext]_pipeVars => CountedInv'
    BY <1>3, CountedNext
  <2> QED BY <1>1, <1>2, <2>1, PTL DEF PipeSpec
<1>4. CASE ~(TargetsAreTheLinkers /\ RoutesAreOwned /\ DependsAreTheLinkers)
  BY <1>4
<1> QED BY <1>3, <1>4

\* When loads come first, what the linker finds is what it may begin with, and
\* its invariant is the pipeline's.
LEMMA Onboarded ==
    RunAfterLoads /\ LinksAreTheLinkers /\ PipeSpec => []OnboardInv
<1>1. PipeInit => OnboardInv
  <2> SUFFICES ASSUME PipeInit PROVE OnboardInv
    OBVIOUS
  <2>1. LinkerInit /\ passes = 0 /\ ~(passes > 0)
    BY DEF PipeInit, LinkerInit
  <2>2. Unlinked
    BY DEF PipeInit, EmptyGraph, Unlinked, HttpRels
  <2>3. ItemsWritten
    BY DEF PipeInit, LoaderInit, ItemsWritten
  <2> QED BY <2>1, <2>2, <2>3, PipeInitInv DEF PipeInit, OnboardInv
<1>2. CASE RunAfterLoads /\ LinksAreTheLinkers
  <2>1. OnboardInv /\ [PipeNext]_pipeVars => OnboardInv'
    BY <1>2, OnboardNext
  <2> QED BY <1>1, <2>1, PTL DEF PipeSpec
<1>3. CASE ~(RunAfterLoads /\ LinksAreTheLinkers)
  BY <1>3
<1> QED BY <1>2, <1>3

\* When every service is loaded before the first pass, a linked call points at
\* the only endpoint its route names, however loads and passes end and are
\* repeated (linker.go:49-50).
THEOREM OnboardedTargets ==
    RunAfterLoads /\ LinksAreTheLinkers /\ PipeSpec => []TargetsAreUnique
<1>1. OnboardInv => TargetsAreUnique
  <2>1. CASE passes > 0
    BY <2>1 DEF OnboardInv, LinkerInv
  <2>2. CASE passes = 0
    BY <2>2 DEF OnboardInv, Unlinked, TargetsAreUnique, Linked, IsKind
  <2>3. OnboardInv => passes \in Nat
    BY LinkerAssumption DEF OnboardInv, PipeInv, PipeTypeOK, LinkerTypeOK
  <2> QED BY <2>1, <2>2, <2>3
<1> QED BY <1>1, Onboarded, PTL

\* And when passes do not overlap either, each http dependency weighs the calls
\* behind it (aggregates.go:24).
THEOREM OnboardedWeights ==
    ~Overlap /\ RunAfterLoads /\ LinksAreTheLinkers /\ PipeSpec => []DependsExact
<1>1. OnboardInv /\ ~Overlap => DependsExact
  <2>1. CASE passes > 0
    BY <2>1 DEF OnboardInv, LinkerInv
  <2>2. CASE passes = 0
    BY <2>2 DEF OnboardInv, Unlinked, DependsExact, LinkedBetween, Linked, IsKind
  <2>3. OnboardInv => passes \in Nat
    BY LinkerAssumption DEF OnboardInv, PipeInv, PipeTypeOK, LinkerTypeOK
  <2> QED BY <2>1, <2>2, <2>3
<1>2. CASE Overlap
  BY <1>2
<1>3. CASE ~Overlap
  <2>1. OnboardInv => DependsExact
    BY <1>1, <1>3
  <2> QED BY <2>1, Onboarded, PTL
<1> QED BY <1>2, <1>3

\* And the map, the endpoint list and the links tell one story whenever the
\* system rests after a pass (cypherServiceMap, cypherListEndpoints).
THEOREM OnboardedScreensAgree ==
    RunAfterLoads /\ LinksAreTheLinkers /\ StoresAreNamed /\ PipeSpec => []ScreensAgree
<1>1. CASE StoresAreNamed
  <2>1. OnboardInv => ScreensAgree
    BY <1>1, OnboardedScreens
  <2> QED BY <2>1, Onboarded, PTL
<1>2. CASE ~StoresAreNamed
  BY <1>2
<1> QED BY <1>1, <1>2
=============================================================================
