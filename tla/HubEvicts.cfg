SPECIFICATION Spec
CONSTANTS
    u1 = u1
    u2 = u2
    c1 = c1
    c2 = c2
    NoClient = NoClient
    Users = {u1}
    Clients = {c1, c2}
    UserOf <- MCTwice
    SendCap = 1
    Kinds = {"chat_message", "typing"}
    MaxFrames = 2
PROPERTY KeptWhileServing
CHECK_DEADLOCK FALSE
