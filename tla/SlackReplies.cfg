SPECIFICATION FairSpec
CONSTANTS
    e1 = e1
    e2 = e2
    w1 = w1
    w2 = w2
    None = None
    Event = {e1}
    Sender = {w1, w2}
    RetryLimit = 1
    Capacity = 1
    Period = 2
    Second = 1
    MaxClock = 2
INVARIANTS
    AcknowledgedIsStored
    OneMessagePerEvent
    RecordedIsShown
    CompleteIsCurrent
    AdmissionsAreBounded
    RefusalIsTemporary
PROPERTIES
    EndedRepliesStay
    OutcomeIsReported
CHECK_DEADLOCK FALSE
