SPECIFICATION Spec
CONSTANTS
    r1 = r1  r2 = r2  r3 = r3
    a1 = a1  a2 = a2  a3 = a3
    b0 = b0  b1 = b1  b2 = b2  b3 = b3  b4 = b4
    t1 = t1  t2 = t2  p1 = p1  p2 = p2
    None = None
    Requests = {r1, r2, r3}
    Attrs = {a1, a2, a3}
    Blocks = {b0, b1, b2, b3, b4}
    Tickets = {t1, t2}
    People = {p1, p2}
    Strangers = {p2}
    Inputs <- MCInputs
    Choices <- MCChoices
    Start <- MCStart
INVARIANTS
    TypeOK
    OneRoot
    ShapeUnlessRaced
    TreeUnlessLooped
    TicketUnlessRaced
    CheckInConsistent
    AdmittedOnce
CHECK_DEADLOCK FALSE
