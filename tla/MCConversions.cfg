SPECIFICATION Spec
CONSTANTS
    Literal = {"users", "orders"}
    Placeholder = {":_", ":id", "{id}"}
    MaxSegments = 4
    Numeral = {"1", "9007199254740992", "9007199254740993", "2.5", "1e999"}
    Int64 = {"1", "9007199254740992", "9007199254740993"}
    Float64 = {"1", "9007199254740992", "9007199254740993", "2.5"}
    Nearest <- MCNearest
    Other <- MCOther
    Path <- MCPath
    MaxLeaves = 3
    NodeIn <- MCNodeIn
    Target = {"t1", "t2"}
    TimeText = {"2026-08-01T15:41:07Z", "2026-08-01T15:41:07.452Z"}
    WholeSeconds <- MCWholeSeconds
    MetaText = {"{n:1}", "{n:9007199254740993}", "{n:9007199254740992}", "{n:[1e999]}", "{}"}
    Reread <- MCReread
    Absent = Absent
INVARIANTS
    NormalFormsTellRoutes
    NumbersSurvive
    ReadsAsLoaded
    StoredIffConforming
    ViewTellsPayload
CHECK_DEADLOCK FALSE
