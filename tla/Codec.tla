-------------------------------- MODULE Codec --------------------------------
(****************************************************************************)
(* What becomes of one node on its way through the system: flattenNode of   *)
(* loader/loader.go makes a property map of a payload's node, the decoder   *)
(* of its kind (domain/decoders.go) a struct (domain/kinds.go), the encoder *)
(* (domain/encoders.go) the map that UpsertNode stores, the same decoder    *)
(* the struct a reader gets, and nodeView (rhaxis-api/view.go) the JSON a   *)
(* client sees.  Each of the five names the fields once more; the tables    *)
(* below are those five lists, each taken from its own file.                *)
(*                                                                          *)
(* A property value is a pair <<type, value>>.  What is inside a text does  *)
(* not matter, except for the two texts that are parsed.                    *)
(****************************************************************************)
EXTENDS Integers, Functions

CONSTANTS
    NodeIn,         \* nodes of payloads, with the header of their payload
    Target,         \* endpoints the linker may attach a call to
    TimeText,       \* the RFC 3339 texts
    WholeSeconds,   \* WholeSeconds[t]: t formatted again, its fraction dropped
    MetaText,       \* the texts of JSON objects
    Reread,         \* Reread[m]: m after Unmarshal and Marshal, "" if that fails
    Absent          \* a member the payload leaves out

ASSUME TimeAssumption ==
    /\ "" \notin TimeText
    /\ WholeSeconds \in [TimeText -> TimeText]
    /\ \A t \in TimeText : WholeSeconds[WholeSeconds[t]] = WholeSeconds[t]
ASSUME MetadataAssumption ==
    /\ "" \notin MetaText
    /\ Reread \in [MetaText -> MetaText \cup {""}]
    /\ \A m \in MetaText : Reread[m] # "" => Reread[Reread[m]] = Reread[m]

\* What a property may be: a bool is one; a value of a type no decoder asks for,
\* such as a list, is a pair like the others.
ASSUME NodeAssumption ==
    \A nin \in NodeIn :
        /\ nin.resolved \in BOOLEAN \cup {Absent}
        /\ \A key \in DOMAIN nin.properties :
              LET value == nin.properties[key]
              IN  value = <<value[1], value[2]>> /\ (value[1] = "bool" => value[2] \in BOOLEAN)
\* flattenNode refuses a node whose urn is empty, so that no endpoint has one.
ASSUME TargetAssumption == "" \notin Target /\ Absent \notin Target

VARIABLES
    given,      \* the node of the payload, Absent before the load
    outcome,    \* what the load did with it
    stored,     \* the properties of the node in the graph
    target      \* the endpoint the linker attached it to, or Absent

codecVars == <<given, outcome, stored, target>>

Text(s) == <<"string", s>>
Flag(b) == <<"bool", b>>

\* The members of f, set one by one in a map g.
Over(f, g) == [k \in DOMAIN f \cup DOMAIN g |-> IF k \in DOMAIN f THEN f[k] ELSE g[k]]

----------------------------------------------------------------------------
(* kinds.go: the fields of each struct beside its BaseNode. *)

FieldsOf ==
    [Service |-> {"RepoURL", "Framework", "Runtime", "LastExtractedAt", "SourceRev"},
     Database |-> {"Engine"}, Broker |-> {"Engine"},
     Endpoint |-> {"HTTPMethod", "PathTemplate", "Framework", "HandlerURN"},
     Function |-> {"Signature", "IsAsync"},
     Method |-> {"Signature", "IsAsync", "OwnerTypeURN"},
     Struct |-> {"Fields", "Methods"}, Interface |-> {"Methods"},
     Type |-> {"Definition"}, IfNode |-> {"ConditionText"},
     SwitchNode |-> {"Discriminant"}, LoopNode |-> {"Kind_"},
     TryNode |-> {}, Block |-> {},
     ReturnNode |-> {"ExpressionText"}, ThrowNode |-> {"ExpressionText"},
     EntryNode |-> {}, ExitNode |-> {}, JoinNode |-> {"After"}]

FieldsOfTechAndCalls ==
    [Language |-> {}, Framework |-> {}, Runtime |-> {},
     ErrorType |-> {"ClassName", "HTTPStatus", "Origin"},
     Middleware |-> {"Kind_", "Phase"},
     Config |-> {"Key", "Category", "DefaultValue", "Sensitive"},
     LogNode |-> {"Level", "Library", "MessageTemplate", "HasStructuredData",
                  "IncludesTraceID"},
     CallFunction |-> {"TargetURN"},
     CallHTTP |-> {"HTTPMethod", "PathTemplate", "TargetURN", "TargetHint"},
     CallDB |-> {"Operation", "TargetURN"},
     PublishEvent |-> {"Topic", "TargetURN"},
     ConsumeEvent |-> {"Topic", "TargetURN"}]

StructOf == Over(FieldsOf, FieldsOfTechAndCalls)

\* Fields that are no text.  A *URN is nil exactly when its text is empty:
\* optURNPtr makes no pointer to "".
FieldType(f) ==
    CASE f \in {"IsAsync", "Sensitive", "HasStructuredData", "IncludesTraceID"} -> "bool"
      [] f = "HTTPStatus" -> "int"
      [] f = "LastExtractedAt" -> "time"
      [] f \in {"Fields", "Methods"} -> "slice"
      [] OTHER -> "string"

ZeroOf(f) ==
    CASE FieldType(f) = "bool" -> FALSE
      [] FieldType(f) = "int" -> 0
      [] FieldType(f) = "slice" -> <<>>
      [] OTHER -> ""

----------------------------------------------------------------------------
(* decoders.go: the property each field of a kind is read from.  The kinds  *)
(* are those init registers. *)

DecodesContainers ==
    [Service |-> [RepoURL |-> "repoURL", Framework |-> "framework",
                  Runtime |-> "runtime", LastExtractedAt |-> "lastExtractedAt",
                  SourceRev |-> "sourceRev"],
     Database |-> [Engine |-> "engine"],
     Broker |-> [Engine |-> "engine"],
     Endpoint |-> [HTTPMethod |-> "httpMethod", PathTemplate |-> "pathTemplate",
                   Framework |-> "framework", HandlerURN |-> "handlerURN"],
     Function |-> [Signature |-> "signature", IsAsync |-> "isAsync"],
     Method |-> [Signature |-> "signature", IsAsync |-> "isAsync",
                 OwnerTypeURN |-> "ownerTypeURN"],
     Struct |-> <<>>, Interface |-> <<>>,
     Type |-> [Definition |-> "definition"]]

DecodesFlow ==
    [IfNode |-> [ConditionText |-> "conditionText"],
     SwitchNode |-> [Discriminant |-> "discriminant"],
     LoopNode |-> [Kind_ |-> "loopKind"],
     TryNode |-> <<>>, Block |-> <<>>,
     ReturnNode |-> [ExpressionText |-> "expressionText"],
     ThrowNode |-> [ExpressionText |-> "expressionText"],
     Language |-> <<>>, Framework |-> <<>>, Runtime |-> <<>>]

DecodesCalls ==
    [CallFunction |-> [TargetURN |-> "targetURN"],
     CallHTTP |-> [HTTPMethod |-> "httpMethod", PathTemplate |-> "pathTemplate",
                   TargetURN |-> "targetURN", TargetHint |-> "targetHint"],
     CallDB |-> [Operation |-> "operation", TargetURN |-> "targetURN"],
     PublishEvent |-> [Topic |-> "topic", TargetURN |-> "targetURN"],
     ErrorType |-> [ClassName |-> "className", HTTPStatus |-> "httpStatus",
                    Origin |-> "origin"],
     Middleware |-> [Kind_ |-> "middlewareKind", Phase |-> "phase"],
     Config |-> [Key |-> "key", Category |-> "category",
                 DefaultValue |-> "defaultValue", Sensitive |-> "sensitive"],
     LogNode |-> [Level |-> "level", Library |-> "library",
                  MessageTemplate |-> "messageTemplate",
                  HasStructuredData |-> "hasStructuredData",
                  IncludesTraceID |-> "includesTraceId"],
     EntryNode |-> <<>>, ExitNode |-> <<>>,
     JoinNode |-> [After |-> "after"],
     ConsumeEvent |-> [Topic |-> "topic", TargetURN |-> "targetURN"]]

Decodes == Over(DecodesContainers, Over(DecodesFlow, DecodesCalls))
Kind == DOMAIN Decodes

----------------------------------------------------------------------------
(* encoders.go: the field each property of a kind is written from. *)

EncodesContainers ==
    [Service |-> [repoURL |-> "RepoURL", framework |-> "Framework",
                  runtime |-> "Runtime", lastExtractedAt |-> "LastExtractedAt",
                  sourceRev |-> "SourceRev"],
     Database |-> [engine |-> "Engine"],
     Broker |-> [engine |-> "Engine"],
     Endpoint |-> [httpMethod |-> "HTTPMethod", pathTemplate |-> "PathTemplate",
                   framework |-> "Framework", handlerURN |-> "HandlerURN"],
     Function |-> [signature |-> "Signature", isAsync |-> "IsAsync"],
     Method |-> [signature |-> "Signature", isAsync |-> "IsAsync",
                 ownerTypeURN |-> "OwnerTypeURN"],
     Struct |-> <<>>, Interface |-> <<>>,
     Type |-> [definition |-> "Definition"],
     IfNode |-> [conditionText |-> "ConditionText"],
     SwitchNode |-> [discriminant |-> "Discriminant"],
     LoopNode |-> [loopKind |-> "Kind_"],
     TryNode |-> <<>>, Block |-> <<>>,
     ReturnNode |-> [expressionText |-> "ExpressionText"],
     ThrowNode |-> [expressionText |-> "ExpressionText"]]

EncodesTechAndCalls ==
    [Language |-> <<>>, Framework |-> <<>>, Runtime |-> <<>>,
     ErrorType |-> [className |-> "ClassName", httpStatus |-> "HTTPStatus",
                    origin |-> "Origin"],
     CallFunction |-> [targetURN |-> "TargetURN"],
     CallHTTP |-> [httpMethod |-> "HTTPMethod", pathTemplate |-> "PathTemplate",
                   targetHint |-> "TargetHint", targetURN |-> "TargetURN"],
     CallDB |-> [operation |-> "Operation", targetURN |-> "TargetURN"],
     PublishEvent |-> [topic |-> "Topic", targetURN |-> "TargetURN"],
     Middleware |-> [middlewareKind |-> "Kind_", phase |-> "Phase"],
     Config |-> [key |-> "Key", category |-> "Category",
                 defaultValue |-> "DefaultValue", sensitive |-> "Sensitive"],
     LogNode |-> [level |-> "Level", library |-> "Library",
                  messageTemplate |-> "MessageTemplate",
                  hasStructuredData |-> "HasStructuredData",
                  includesTraceId |-> "IncludesTraceID"],
     EntryNode |-> <<>>, ExitNode |-> <<>>,
     JoinNode |-> [after |-> "After"],
     ConsumeEvent |-> [topic |-> "Topic", targetURN |-> "TargetURN"]]

Encodes == Over(EncodesContainers, EncodesTechAndCalls)

----------------------------------------------------------------------------
(* view.go: the JSON members nodeView adds for a kind.  A kind that is not  *)
(* here shows nothing of its own. *)

\* Mutant: a call shows the hint where its path belongs.
ShowsHintAsPath ==
    [CallFunction |-> [targetURN |-> "TargetURN"],
     CallHTTP |-> [httpMethod |-> "HTTPMethod", pathTemplate |-> "TargetHint",
                   targetHint |-> "TargetHint", targetURN |-> "TargetURN"],
     CallDB |-> [operation |-> "Operation", targetURN |-> "TargetURN"],
     PublishEvent |-> [topic |-> "Topic", targetURN |-> "TargetURN"],
     ConsumeEvent |-> [topic |-> "Topic", targetURN |-> "TargetURN"]]

ShowsCalls ==
    [CallFunction |-> [targetURN |-> "TargetURN"],
     CallHTTP |-> [httpMethod |-> "HTTPMethod", pathTemplate |-> "PathTemplate",
                   targetHint |-> "TargetHint", targetURN |-> "TargetURN"],
     CallDB |-> [operation |-> "Operation", targetURN |-> "TargetURN"],
     PublishEvent |-> [topic |-> "Topic", targetURN |-> "TargetURN"],
     ConsumeEvent |-> [topic |-> "Topic", targetURN |-> "TargetURN"]]

ShowsContainers ==
    [Service |-> [framework |-> "Framework", runtime |-> "Runtime",
                  repoURL |-> "RepoURL", lastExtractedAt |-> "LastExtractedAt",
                  sourceRev |-> "SourceRev"],
     Database |-> [engine |-> "Engine"],
     Broker |-> [engine |-> "Engine"],
     Endpoint |-> [httpMethod |-> "HTTPMethod", pathTemplate |-> "PathTemplate",
                   framework |-> "Framework", handlerURN |-> "HandlerURN"],
     Function |-> [signature |-> "Signature", isAsync |-> "IsAsync"],
     Method |-> [signature |-> "Signature", isAsync |-> "IsAsync",
                 ownerTypeURN |-> "OwnerTypeURN"],
     IfNode |-> [conditionText |-> "ConditionText"],
     SwitchNode |-> [discriminant |-> "Discriminant"],
     LoopNode |-> [loopKind |-> "Kind_"]]

Shows == Over(ShowsContainers, ShowsCalls)

\* Members left out when empty; the others are shown as "" or false.
OmitEmpty == {"lastExtractedAt", "sourceRev", "handlerURN", "ownerTypeURN", "targetURN"}

----------------------------------------------------------------------------
(* Decoding: an optional property of another type counts as missing. *)

Has(props, key, type) == key \in DOMAIN props /\ props[key][1] = type

OptString(props, key) == IF Has(props, key, "string") THEN props[key][2] ELSE ""

OptBool(props, key, default) ==
    IF Has(props, key, "bool") THEN props[key][2] ELSE default

\* A text that time.Parse refuses leaves the zero time.
OptTime(props, key) ==
    IF OptString(props, key) \in TimeText THEN OptString(props, key) ELSE ""

\* A float stands for its halves; int(v) cuts it towards zero.
Truncate(halves) == IF halves >= 0 THEN halves \div 2 ELSE -((-halves) \div 2)
OptInt(props, key) ==
    CASE Has(props, key, "int") -> props[key][2]
      [] Has(props, key, "float") -> Truncate(props[key][2])
      [] OTHER -> 0

\* The map is represented by the text Marshal gives for it, nil by "".
OptJSONMap(props, key) ==
    IF OptString(props, key) \in MetaText THEN Reread[OptString(props, key)] ELSE ""

\* Mutant: metadata that cannot be read is an error of the decoder too.
ReadableOnly(props) ==
    /\ Has(props, "urn", "string") /\ Has(props, "kind", "string")
    /\ "metadata" \in DOMAIN props => OptJSONMap(props, "metadata") # ""

\* requireString of urn and kind, the only error of a decoder.
Decodable(props) == Has(props, "urn", "string") /\ Has(props, "kind", "string")

DecodeField(k, props, f) ==
    LET key == Decodes[k][f]
    IN  IF f \notin DOMAIN Decodes[k] THEN ZeroOf(f)
        ELSE CASE FieldType(f) = "bool" -> OptBool(props, key, FALSE)
               [] FieldType(f) = "int" -> OptInt(props, key)
               [] FieldType(f) = "time" -> OptTime(props, key)
               [] OTHER -> OptString(props, key)

\* DecodeByKind of a kind that is registered.
Decode(k, props) ==
    [struct     |-> k,
     urn        |-> OptString(props, "urn"),
     kind       |-> OptString(props, "kind"),
     name       |-> OptString(props, "name"),
     serviceURN |-> OptString(props, "serviceURN"),
     language   |-> OptString(props, "language"),
     resolved   |-> OptBool(props, "resolved", TRUE),
     metadata   |-> OptJSONMap(props, "metadata"),
     fields     |-> [f \in StructOf[k] |-> DecodeField(k, props, f)]]

----------------------------------------------------------------------------
(* Encoding. *)

FieldValue(n, f) ==
    CASE FieldType(f) = "bool" -> Flag(n.fields[f])
      [] FieldType(f) = "int" -> <<"int", n.fields[f]>>
      [] FieldType(f) = "time" /\ n.fields[f] # "" -> Text(WholeSeconds[n.fields[f]])
      [] OTHER -> Text(n.fields[f])

\* The kinds whose encoder writes resolved, and the flag written when false.
Stubs == {"CallFunction", "CallHTTP", "ConsumeEvent"}
AlwaysWritten == {"isAsync"}

BaseMembers(n) ==
    [urn |-> Text(n.urn), kind |-> Text(n.kind), name |-> Text(n.name),
     language |-> Text(n.language), serviceURN |-> Text(n.serviceURN),
     metadata |-> Text(n.metadata), resolved |-> Flag(n.resolved)]

\* Mutant: resolved is written like the optional flags, only when true.
BaseWhenTrue(n) ==
    Restrict(BaseMembers(n),
        {"urn", "kind", "name", "language"}
            \cup {key \in {"serviceURN"} : n.serviceURN # ""}
            \cup {key \in {"metadata"} : n.metadata # ""}
            \cup {key \in {"resolved"} : n.struct \in Stubs /\ n.resolved})

EncodeBase(n) ==
    Restrict(BaseMembers(n),
        {"urn", "kind", "name", "language"}
            \cup {key \in {"serviceURN"} : n.serviceURN # ""}
            \cup {key \in {"metadata"} : n.metadata # ""}
            \cup {key \in {"resolved"} : n.struct \in Stubs})

EncodeFields(n) ==
    LET t == Encodes[n.struct]
        written == {key \in DOMAIN t : \/ key \in AlwaysWritten
                                       \/ n.fields[t[key]] # ZeroOf(t[key])}
    IN  [key \in written |-> FieldValue(n, t[key])]

\* EncodeNode asks the registry with n.Kind(), the encoder expects the struct:
\* encodeService returns an error on another one, the others panic.
EncodeOutcome(n) ==
    CASE n.kind = n.struct -> "stored"
      [] n.kind # n.struct /\ n.kind \in Kind \ {"Service"} -> "crashed"
      [] OTHER -> "rejected"

Encode(n) == Over(EncodeFields(n), EncodeBase(n))

----------------------------------------------------------------------------
(* nodeView. *)

View(n) ==
    LET t == IF n.struct \in DOMAIN Shows THEN Shows[n.struct] ELSE <<>>
        shown == {key \in DOMAIN t : \/ key \notin OmitEmpty
                                     \/ n.fields[t[key]] # ZeroOf(t[key])}
        base == {"urn", "kind", "name", "resolved"}
                    \cup {key \in {"language"} : n.language # ""}
                    \cup {key \in {"serviceURN"} : n.serviceURN # ""}
    IN  Over([key \in shown |-> FieldValue(n, t[key])], Restrict(BaseMembers(n), base))

----------------------------------------------------------------------------
(* One node: loaded, perhaps linked, then read. *)

Malformed(nin) == nin.urn = "" \/ nin.kind = ""

\* flattenNode: what is in properties comes last and wins.
FlattenNode(nin) ==
    LET isService == nin.kind = "Service"
        member == [urn |-> Text(nin.urn), kind |-> Text(nin.kind),
                   name |-> Text(nin.name), resolved |-> Flag(nin.resolved),
                   lastExtractedAt |-> Text(nin.extractedAt),
                   sourceRev |-> Text(nin.sourceRev), metadata |-> Text(nin.metadata)]
        written == {"urn", "kind"}
            \cup {key \in {"name"} : nin.name # ""}
            \cup {key \in {"resolved"} : nin.resolved # Absent}
            \cup {key \in {"lastExtractedAt"} : isService /\ nin.extractedAt # ""}
            \cup {key \in {"sourceRev"} : isService /\ nin.sourceRev # ""}
            \cup {key \in {"metadata"} : nin.metadata # ""}
    IN  Over(nin.properties, Restrict(member, written))

LoadOutcome(nin) ==
    LET props == FlattenNode(nin)
    IN  CASE Malformed(nin) -> "rejected"
          [] ~Malformed(nin) /\ (nin.kind \notin Kind \/ ~Decodable(props)) -> "skipped"
          [] OTHER -> EncodeOutcome(Decode(nin.kind, props))

CodecInit ==
    /\ given = Absent
    /\ outcome = "waiting"
    /\ stored = <<>>
    /\ target = Absent

\* LoadInto on one node, and the SET n = $props of UpsertNode.
LoadNode ==
    /\ outcome = "waiting"
    /\ \E nin \in NodeIn :
        /\ given' = nin
        /\ outcome' = LoadOutcome(nin)
        /\ stored' = IF outcome' = "stored"
                     THEN Encode(Decode(nin.kind, FlattenNode(nin))) ELSE <<>>
    /\ UNCHANGED target

\* SET call.targetURN = $targetURN, call.resolved = true.
LinkNode(t) ==
    /\ outcome = "stored"
    /\ stored["kind"] = Text("CallHTTP")
    /\ target' = t
    /\ stored' = Over([targetURN |-> Text(t), resolved |-> Flag(TRUE)], stored)
    /\ UNCHANGED <<given, outcome>>

CodecNext == LoadNode \/ (\E t \in Target : LinkNode(t))

CodecSpec == CodecInit /\ [][CodecNext]_codecVars

----------------------------------------------------------------------------
(* Properties. *)

\* The struct the loader made, as far as the encoders keep it: the time of
\* the extraction in whole seconds, resolved of the kinds that may be stubs.
AsKept(n) ==
    Over([resolved |-> n.resolved \/ n.struct \notin Stubs,
          fields |-> [f \in DOMAIN n.fields |->
                        IF FieldType(f) = "time" /\ n.fields[f] # ""
                        THEN WholeSeconds[n.fields[f]] ELSE n.fields[f]]], n)

AsLinked(n) ==
    IF target = Absent THEN n
    ELSE Over([resolved |-> TRUE, fields |-> [n.fields EXCEPT !["TargetURN"] = target]], n)

\* "Este arquivo é o inverso de decoders.go" (encoders.go:9): the struct a
\* reader decodes is the one the loader encoded, a link of the linker on top,
\* in every kind and whichever properties were missing, empty or of a wrong
\* type.
ReadsAsLoaded ==
    outcome = "stored" =>
        Decode(stored["kind"][2], stored)
            = AsLinked(AsKept(Decode(given.kind, FlattenNode(given))))

\* A node that says what it is: nothing among its properties takes the place
\* of its kind, or of its urn by what is no text.
Conforming(nin) ==
    /\ ~Malformed(nin)
    /\ nin.kind \in Kind
    /\ "kind" \in DOMAIN nin.properties => nin.properties["kind"] = Text(nin.kind)
    /\ "urn" \in DOMAIN nin.properties => Has(nin.properties, "urn", "string")

\* Each node that says what it is gets stored, whatever else is missing or of
\* a wrong type ("Metadata corrompida não deve derrubar o node",
\* decoders.go:102), and no other is: the node that would go through the
\* encoder of another kind, since properties come last in flattenNode
\* (loader.go:113), stops the load or the process before it is written.
StoredIffConforming ==
    outcome # "waiting" => (outcome = "stored" <=> Conforming(given))

\* What a client is shown of a node is what the payload said of it, through
\* five lists of field names and in every kind: a text that the view shows is
\* the payload's text, or empty when the payload has none, and of a call the
\* linker resolved it is the link.  Whether the node is resolved is the
\* payload's word only for the kinds of which it is stored; the others are
\* shown as resolved, CallDB and PublishEvent among them although
\* encoders.go:19 names "Call*".
ViewTellsPayload ==
    outcome = "stored" =>
        LET seen == View(Decode(stored["kind"][2], stored))
            said == FlattenNode(given)
            Told(key) == /\ key \in DOMAIN seen => seen[key] = said[key]
                         /\ key \notin DOMAIN seen => said[key] = Text("")
            linked == IF target = Absent THEN {} ELSE {"targetURN", "resolved"}
            own == IF given.kind \in DOMAIN Shows
                   THEN DOMAIN Shows[given.kind] \ {"lastExtractedAt", "isAsync"} ELSE {}
            texts == {"urn", "kind", "name", "language", "serviceURN"} \cup own
        IN  /\ \A key \in texts \ linked :
                  IF Has(said, key, "string") THEN Told(key)
                  ELSE key \in DOMAIN seen => seen[key] = Text("")
            /\ linked # {} => /\ seen["targetURN"] = Text(target)
                              /\ seen["resolved"] = Flag(TRUE)
            /\ linked = {} => seen["resolved"] =
                  Flag(given.kind \in Stubs => OptBool(said, "resolved", TRUE))
=============================================================================
