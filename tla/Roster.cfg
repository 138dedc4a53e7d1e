SPECIFICATION Spec
CONSTANTS
    r1 = r1  r2 = r2  r3 = r3
    p1 = p1  p2 = p2  p3 = p3  p4 = p4
    ann = ann  ANN = ANN  bob = bob  eve = eve  junk = junk
    k1 = k1  k2 = k2  k3 = k3  k4 = k4
    x = x  y = y
    None = None
    Requests = {r1, r2, r3}
    Participants = {p1, p2, p3, p4}
    Emails = {ann, ANN, bob, eve, junk}
    Invalid = {junk}
    Keys = {k1, k2, k3, k4}
    Texts = {x, y}
    Lower <- MCLower
    Inputs <- MCInputs
    Start <- MCStart
INVARIANTS
    TypeOK
    ImportAccounts
    ToldTruly
    FilesExplained
CHECK_DEADLOCK FALSE
