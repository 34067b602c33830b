SPECIFICATION Spec
CONSTANTS
    e1 = e1
    e2 = e2
    w1 = w1
    w2 = w2
    ann = ann
    bob = bob
    op = op
    Idle = Idle
    Event = {e1, e2}
    ConversationOf <- OneConversation
    ScopeOf <- OneScope
    RequesterOf <- AskedByAnn
    User = {ann, bob}
    Approver = {ann, bob}
    Operator = {op}
    Worker = {w1, w2}
    MaxAttempts = 2
    MaxStamp = 2
    Ordered = FALSE
    RetryLimit = 0
    Backends = {"jira", "synthetic"}
    ZombieLimit = 1
SYMMETRY Symmetry
INVARIANTS
    TicketNeedsSecondPerson
    JobTellsTicket
    OneUndecidedProposal
PROPERTIES
    KeepsContract
    KeepsQueue
CHECK_DEADLOCK FALSE
