SPECIFICATION FairDeliverySpec
CONSTANTS
    p1 = p1
    p2 = p2
    w1 = w1
    w2 = w2
    o1 = o1
    o2 = o2
    NoPost = NoPost
    Proposal = {p1, p2}
    Sender = {w1, w2}
    Operator = {o1, o2}
    RetryLimit = 2
INVARIANTS
    AtMostOneIssue
    RetryIsSafe
    VerdictIsTrue
PROPERTIES
    VerdictIsFinal
    ApprovedIsAnswered
CHECK_DEADLOCK FALSE
