SPECIFICATION FairSpec
CONSTANTS
    r1 = r1  r2 = r2  r3 = r3
    a1 = a1  a2 = a2  a3 = a3
    f1 = f1  f2 = f2  f3 = f3
    m1 = m1  m2 = m2  m3 = m3  m4 = m4
    e1 = e1  e2 = e2
    k0 = k0  k1 = k1  k2 = k2  k3 = k3
    None = None  Absent = Absent
    Requests = {r1, r2, r3}
    Attrs = {a1, a2, a3}
    Forms = {f1, f2, f3}
    Templates = {m1, m2, m3, m4}
    Events = {e1, e2}
    Keys = {k0, k1, k2, k3}
    Dates = {1, 2}
    MaxRows = 3
    Inputs <- MCInputs
    Start <- MCStart
INVARIANTS
    TypeOK
    FormsUnlessRaced
    ConfigFitsTrigger
    PhotosExplained
    ChangesReported
    ReorderWhole
PROPERTY ReorderEnds
CHECK_DEADLOCK FALSE
