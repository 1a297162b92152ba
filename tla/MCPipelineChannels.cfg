SPECIFICATION PipeSpec
CONSTANTS
    sA = sA
    sB = sB
    c1 = c1
    c2 = c2
    e1 = e1
    e2 = e2
    e3 = e3
    f1 = f1
    db = db
    mq = mq
    r0 = r0
    Absent = Absent
    OtherKind = {"CallFunction"}
    Prop = {}
    Rev = {r0}
    URN <- MCURN
    Service <- MCService
    SlugOf <- MCSlugOf
    Method <- MCMethod
    Path <- MCPath
    Upper <- MCUpper
    Norm <- MCNorm
    InitGraphs = {}
    Loaders = {d1}
    Linkers = {l1}
    Apart = TRUE
    Reload = TRUE
    Overlap = FALSE
    MaxLoads = 3
    MaxPasses = 1
    MaxDeletes = 0
    Payloads <- EventBetween
INVARIANTS
    ChannelsAreKept
CHECK_DEADLOCK FALSE
