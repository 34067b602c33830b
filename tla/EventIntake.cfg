SPECIFICATION FairSpec
CONSTANTS
    e1 = e1
    e2 = e2
    w1 = w1
    w2 = w2
    s1 = s1
    s2 = s2
    p1 = p1
    p2 = p2
    Idle = Idle
    NoPayload = NoPayload
    Event = {e1, e2}
    ConversationOf <- OneConversation
    Worker = {w1}
    Session = {s1, s2}
    Payload = {p1, p2}
    MaxAttempts = 2
    MaxStamp = 3
    Ordered = TRUE
INVARIANTS
    ReceiptIsDurable
PROPERTIES
    JobSpec
    AcknowledgedIsRouted
CHECK_DEADLOCK FALSE
