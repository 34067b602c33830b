SPECIFICATION ConsultedSpec
CONSTANTS
    e1 = e1
    e2 = e2
    w1 = w1
    w2 = w2
    ann = ann
    bob = bob
    op = op
    Idle = Idle
    Event = {e1}
    ConversationOf <- OneConversation
    ScopeOf <- OneScope
    RequesterOf <- AskedByAnn
    User = {ann, bob}
    Approver = {bob}
    Operator = {}
    Worker = {w1}
    MaxAttempts = 1
    MaxStamp = 1
    Ordered = FALSE
    RetryLimit = 0
    Backends = {"synthetic"}
    ZombieLimit = 1
PROPERTIES
    StaleProposalIsFinalised
CHECK_DEADLOCK FALSE
