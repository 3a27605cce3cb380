SPECIFICATION Spec
INVARIANTS
    TypeOK
    ListHoldsRows
    SentIsListed
    LastNotOvertaken
    HistoryInOrder
    PagingComplete
CONSTANTS
    m1 = m1
    m2 = m2
    m3 = m3
    Messages = {m1, m2, m3}
    OverWS = {m1}
    NoMessage = NoMessage
    Limits = {0, 2}
    MaxLosses = 1
SYMMETRY MCSymmetry
CHECK_DEADLOCK FALSE
