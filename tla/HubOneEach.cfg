SPECIFICATION FairSpec
CONSTANTS
    u1 = u1
    u2 = u2
    c1 = c1
    c2 = c2
    NoClient = NoClient
    Users = {u1, u2}
    Clients = {c1, c2}
    UserOf <- MCOneEach
    SendCap = 1
    Kinds = {"chat_message"}
    MaxFrames = 2
INVARIANTS NoPanic StoredBeforeBroadcast
PROPERTIES KeptWhileServing WritersEnd HubServes Heard
CHECK_DEADLOCK FALSE
