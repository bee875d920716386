SPECIFICATION FairSpec
CONSTANTS
    h1 = h1
    h2 = h2
    h3 = h3
    s1 = s1
    None = None
    Handlers = {h1, h2, h3}
    Seeds = {s1}
    Jobs <- EventJobs
    Subscribed <- WithUrl
    MaxAttempts = 2
    MaxCrashes = 1
INVARIANTS
    CopiesAgree
    VerdictIsLast
    OutcomeIsTrue
    NoPhantomChange
PROPERTIES
    EveryEventEnds
