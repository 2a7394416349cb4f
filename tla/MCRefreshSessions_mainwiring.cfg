CONSTANTS
    u1 = u1
    u2 = u2
    v1 = v1
    v2 = v2
    i1 = i1
    i2 = i2
    i3 = i3
    i4 = i4
    s1 = s1
    s2 = s2
    NoVisitor = NoVisitor
    None = None
    Users = {u1}
    Visitors = {v1}
    ReqVisitors = {NoVisitor}
    Ids = {i1, i2, i3}
    Slots = {s1, s2}
    Roles = {"BASIC", "ANONYMOUS"}
    MayFail = FALSE
SPECIFICATION FairSpec
INVARIANTS Provenance EndedStaysEnded
PROPERTIES SupersededCleared RequestsAnswered
CHECK_DEADLOCK FALSE
