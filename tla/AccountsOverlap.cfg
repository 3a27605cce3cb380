SPECIFICATION Spec
PROPERTY
    UpdateSetsItsBody
CONSTANTS
    a1 = a1
    a2 = a2
    u1 = u1
    f1 = f1
    f2 = f2
    s1 = s1
    v1 = v1
    c1 = c1
    ph1 = ph1
    e1 = e1
    e2 = e2
    n1 = n1
    n2 = n2
    Requests = {a1, u1, f1, s1}
    RoleOf <- MCRoleOf
    Complete = {}
    Kind <- MCKind
    Subject <- MCSubject
    Body <- MCBody
    Values <- MCValues
    TokenOf <- MCTokenOf
    NoRow = NoRow
    Null = Null
    Undefined = Undefined
    Overlap = TRUE
    MaxMade = 4
    MaxFaults = 1
CHECK_DEADLOCK FALSE
