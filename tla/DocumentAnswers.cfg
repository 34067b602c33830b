SPECIFICATION Spec
CONSTANTS
    r1 = r1
    r2 = r2
    q1 = q1
    q2 = q2
    doc = doc
    secret = secret
    question = question
    None = None
    Invented = Invented
    Run = {r1, r2}
    Request = {q1, q2}
    Process <- Processes
    Text = {doc, secret, question}
    TextsOf <- Corpora
    Attempts <- Limits
    MaxRequested = 2
    MayRead <- Readable
    EvidenceLimit = 1
    QueueCapacity = 2
INVARIANTS
    BillsAreBounded
    FlushIsComplete
    CitationsAreReadable
    WorkNeverWaits
PROPERTIES
    ReadersSeeWholeIndex
CHECK_DEADLOCK FALSE
