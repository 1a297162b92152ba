SPECIFICATION LoadSpec
CONSTANTS
    sA = sA
    sB = sB
    ea = ea
    ca = ca
    eb = eb
    db = db
    rev1 = rev1
    rev2 = rev2
    user = user
    order = order
    Absent = Absent
    OtherKind = {"Function"}
    Prop = {1, 2}
    Rev = {rev1, rev2}
    URN <- MCURN
    Service <- MCService
    SlugOf <- MCSlugOf
    Method = {"GET"}
    Path = {user, order}
    Loaders = {l1, l2}
    MaxLoads = 3
    Payloads <- ReExtractions
INVARIANTS
    LoaderTypeOK
    NoDanglingEdges
    CompleteIsNeverRejected
    NodesAreWhole
    LoadLeavesPayload
    RerunsDoNotDuplicate
    LoaderInv
CHECK_DEADLOCK FALSE
