SPECIFICATION Spec
PROPERTY
    RemovedStaysRemoved
CONSTANTS
    c1 = c1
    ec = ec
    lc = lc
    dc = dc
    p1 = p1
    ep = ep
    ip = ip
    vp = vp
    dp = dp
    Requests = {c1, p1, ep, dp}
    Kind <- MCKind
    Subject <- MCSubject
    Parent <- MCParent
    Body <- MCBody
    Count <- MCCount
    NoRow = NoRow
    Null = Null
    Overlap = TRUE
    MaxMade = 4
    MaxFaults = 1
CHECK_DEADLOCK FALSE
