SPECIFICATION Spec
CONSTANTS
    e1 = e1
    e2 = e2
    w1 = w1
    w2 = w2
    ann = ann
    bob = bob
    op = op
    Idle = Idle
    Event = {e1, e2}
    ConversationOf <- OneConversation
    ScopeOf <- OneScope
    RequesterOf <- AskedByAnn
    User = {ann, bob}
    Approver = {bob}
    Operator = {}
    Worker = {w1}
    MaxAttempts = 1
    MaxStamp = 2
    Ordered = FALSE
    RetryLimit = 0
    Backends = {"jira"}
    ZombieLimit = 1
PROPERTIES
    NewProposalsWaitForDelivery
CHECK_DEADLOCK FALSE
