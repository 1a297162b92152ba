SPECIFICATION FairSpec
CONSTANTS
    sA = sA
    sB = sB
    a1 = a1
    a2 = a2
    b1 = b1
    ea = ea
    eb = eb
    eb2 = eb2
    f1 = f1
    r0 = r0
    Absent = Absent
    OtherKind = {"CallFunction"}
    Prop = {}
    Rev = {r0}
    URN <- MCURN
    Service <- MCService
    SlugOf <- MCSlugOf
    Method <- MCMethod
    Path <- MCPath
    Upper <- MCUpper
    Norm <- MCNorm
    Linkers = {l1, l2}
    Overlap = TRUE
    MaxPasses = 2
    InitGraphs <- FewInitGraphs
INVARIANTS
    DependsCovers
    TargetsAreUnique
    DonePassLinksAll
PROPERTIES
    PassEnds
CHECK_DEADLOCK FALSE
