---------------------------- MODULE MCConversions ----------------------------
(****************************************************************************)
(* The conversions on small inputs.  A behaviour takes one subject: a path  *)
(* template grown one segment at a time, a JSON object grown one leaf at a  *)
(* time, or a node of a payload that is loaded, and linked if it is a       *)
(* call; TLC evaluates the operators on each of them.                       *)
(****************************************************************************)
EXTENDS RouteIdentity, PayloadNumbers, Codec, FiniteSets, TLC

Init == NoPath /\ EmptyDocument /\ CodecInit

NoNode == given = Absent

GrowPath == EmptyDocument /\ NoNode /\ RouteNext /\ UNCHANGED <<document, codecVars>>
GrowDocument == NoPath /\ NoNode /\ DocumentNext /\ UNCHANGED <<path, codecVars>>
HandleNode == NoPath /\ EmptyDocument /\ CodecNext /\ UNCHANGED <<path, document>>

Next == GrowPath \/ GrowDocument \/ HandleNode

Spec == Init /\ [][Next]_<<path, document, codecVars>>

----------------------------------------------------------------------------
(* The values of the constants. *)

MCNearest ==
    [x \in {"1", "9007199254740992", "9007199254740993", "2.5"} |->
        IF x = "9007199254740993" THEN "9007199254740992" ELSE x]
\* The members a and b, and up to two steps further into maps and lists.
MCPath ==
    LET further == {<<"map", "a">>, <<"list", 1>>, <<"list", 2>>}
        members == {<<<<"map", k>>>> : k \in {"a", "b"}}
        second == {Append(p, s) : p \in members, s \in further}
    IN  members \cup second \cup {Append(p, s) : p \in second, s \in further}
MCOther == {<<"string", "s">>, <<"list", "">>}
MCWholeSeconds ==
    [t \in {"2026-08-01T15:41:07Z", "2026-08-01T15:41:07.452Z"} |-> "2026-08-01T15:41:07Z"]
MCReread ==
    [m \in {"{n:1}", "{n:9007199254740993}", "{n:9007199254740992}", "{n:[1e999]}", "{}"} |->
        CASE m = "{n:9007199254740993}" -> "{n:9007199254740992}"
          [] m \in {"{n:[1e999]}", "{}"} -> ""
          [] OTHER -> m]

\* The property keys that some list of a kind names.
KeysOf(k) ==
    {Decodes[k][f] : f \in DOMAIN Decodes[k]} \cup DOMAIN Encodes[k]
        \cup (IF k \in DOMAIN Shows THEN DOMAIN Shows[k] ELSE {})
Flags == {"isAsync", "sensitive", "hasStructuredData", "includesTraceId"}
Proper(key) ==
    CASE key \in Flags -> Flag(TRUE)
      [] key = "httpStatus" -> <<"int", 404>>
      [] key = "lastExtractedAt" -> Text("2026-08-01T15:41:07.452Z")
      [] OTHER -> Text(key)
Odd == {Flag(FALSE), Flag(TRUE), Text(""), Text("x"), <<"int", 0>>, <<"int", 7>>, <<"float", -3>>}

Properties(k) ==
    {[key \in S |-> Proper(key)] : S \in SUBSET KeysOf(k)}
        \cup {[key \in KeysOf(k) |-> IF key = odd THEN v ELSE Proper(key)] :
                odd \in KeysOf(k), v \in Odd}

\* Base members that a payload may repeat among the properties of a node.
Repeated ==
    {"kind" :> v : v \in {Text("Service"), Text("IfNode"), Text("Saga"), Flag(TRUE)}}
        \cup {"urn" :> Flag(TRUE), "name" :> Text("m"), "metadata" :> Text("junk"),
              "resolved" :> Flag(FALSE), "resolved" :> Text("false"),
              "serviceURN" :> Text("s") @@ "language" :> Text("go")}

Plain(k, props, resolved) ==
    [urn |-> "u", kind |-> k, name |-> "n", resolved |-> resolved, metadata |-> "",
     properties |-> props, extractedAt |-> "", sourceRev |-> "r"]

MCNodeIn ==
    UNION {{Plain(k, props, resolved) : props \in Properties(k),
                                        resolved \in {Absent, TRUE, FALSE}} : k \in Kind}
    \cup UNION {{[Plain(k, extra @@ [key \in KeysOf(k) \ {"lastExtractedAt"} |-> Proper(key)],
                        Absent)
                    EXCEPT !.metadata = m, !.extractedAt = t, !.name = name] :
                    extra \in Repeated \cup {<<>>}, m \in {"", "{n:[1e999]}", "{n:9007199254740993}"},
                    t \in {"", "2026-08-01T15:41:07.452Z", "soon"}, name \in {"", "n"}} :
                k \in Kind}
    \cup {Plain(k, <<>>, Absent) : k \in {"", "Saga"}}
    \cup {[Plain("Service", <<>>, Absent) EXCEPT !.urn = ""]}
=============================================================================
