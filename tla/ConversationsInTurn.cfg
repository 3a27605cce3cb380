SPECIFICATION Spec
INVARIANTS
    TypeOK
    OneConversation
    FileKept
    ReadByOther
PROPERTIES
    CountCovers
    MarkedNotCounted
CONSTANTS
    u = u
    v = v
    w = w
    o1 = o1
    o2 = o2
    o3 = o3
    s1 = s1
    s2 = s2
    f1 = f1
    f2 = f2
    m1 = m1
    n1 = n1
    Requests = {o1, o2, o3, s1, s2, f1, f2, m1, n1}
    Kind <- MCKind
    By <- MCBy
    With <- MCWith
    Via <- MCVia
    Id <- MCId
    Name <- MCName
    Size <- MCSize
    Blocks = 2
    Null = Null
    Overlap = FALSE
    MaxMade = 7
    MaxFaults = 1
CHECK_DEADLOCK FALSE
