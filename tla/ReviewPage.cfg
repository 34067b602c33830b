SPECIFICATION FairSpec
CONSTANTS
    p1 = p1
    p2 = p2
    None = None
    Proposal = {p1, p2}
    Linked = None
    MaxLogins = 2
    MaxCalls = 2
INVARIANTS
    DialogIsAboutSelection
    DataIsOfTheSession
PROPERTIES
    OneDecisionAtATime
    OfferIsWithdrawn
