SPECIFICATION FairSpec
CONSTANTS
    s1 = s1  p1 = p1  p2 = p2  t1 = t1
    None = None
    Sends = {s1}
    People = {p1, p2}
    Templates = {t1}
    Inputs <- Calls
    Attempts = 3
    MaxStalls = 1
    MaxCrashes = 2
INVARIANTS
    TypeOK
    SentMeansMailed
    DuplicateExplained
    CompletedMeansSent
    NothingForgotten
PROPERTIES
    LedgerSpec
    QueueDrains
CHECK_DEADLOCK FALSE
