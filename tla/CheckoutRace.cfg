SPECIFICATION FairSpecPayments
INVARIANTS
    TypeOK
    LockedOncePerRef
    TokensProtect
    StatusNotOvertaken
PROPERTY
    PropertyFreed
    ImplementsBook
CONSTANTS
    r1 = r1
    r2 = r2
    r3 = r3
    p1 = p1
    p2 = p2
    t1 = t1
    m1 = m1
    u1 = u1
    u2 = u2
    u3 = u3
    pending = pending
    paid = paid
    Requests = {r1, r2, r3}
    Properties = {p1, p2}
    Refs = {t1}
    PropertyOf <- MCPropertyOf
    RefOf <- MCRefOf
    NoRequest = NoRequest
    MaxLost = 1
    Manuals = {m1}
    Updates = {u1, u2, u3}
    Target <- MCTarget
    Wants <- MCWants
    Pending = pending
    MaxCalls = 3
CHECK_DEADLOCK FALSE
