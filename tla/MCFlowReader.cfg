SPECIFICATION ApiSpec
CONSTANTS
    e = e
    if = if
    call = call
    b1 = b1
    b2 = b2
    k1 = k1
    k2 = k2
    f = f
    g = g
    missing = missing
    Absent = Absent
    Step <- MCStep
    Label = {"then", "else"}
    Graphs <- MCGraphs
    Others = {services}
INVARIANTS
    StepsOnceInOrder
    BranchesComplete
    SlotsFollowEdges
    OneDrawing
    AnsweredBeforeExit
PROPERTIES
    SignalEnds
CHECK_DEADLOCK FALSE
