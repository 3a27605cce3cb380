SPECIFICATION Spec
INVARIANTS
    TypeOK
    AnsweredAsDone
    MediaServed
PROPERTIES
    ImplementsBook
    GoneForGood
CONSTANTS
    c1 = c1
    ec = ec
    lc = lc
    dc = dc
    p1 = p1
    ep = ep
    ip = ip
    vp = vp
    dp = dp
    Requests = {c1, ec, lc, dc, p1, ep, ip, vp, dp}
    Kind <- MCKind
    Subject <- MCSubject
    Parent <- MCParent
    Body <- MCBody
    Count <- MCCount
    NoRow = NoRow
    Null = Null
    Overlap = FALSE
    MaxMade = 7
    MaxFaults = 1
CHECK_DEADLOCK FALSE
