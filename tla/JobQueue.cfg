SPECIFICATION JobSpec
CONSTANTS
    e1 = e1
    e2 = e2
    e3 = e3
    w1 = w1
    w2 = w2
    Idle = Idle
    Event = {e1, e2, e3}
    ConversationOf <- TwoConversations
    Worker = {w1, w2}
    MaxAttempts = 2
    MaxStamp = 3
    Ordered = TRUE
SYMMETRY Symmetry
INVARIANTS
    TurnsInOrder
    OutcomeOfLatestAttempt
    OneWriter
PROPERTIES
    RoutingEndsOnce
CHECK_DEADLOCK FALSE
