SPECIFICATION Spec
CONSTANTS
    r1 = r1  r2 = r2  r3 = r3  g1 = g1  e1 = e1  e2 = e2
    b1 = b1  b2 = b2  t1 = t1  t2 = t2  inf = inf
    None = None
    Unlimited = inf
    Requests = {r1, r2, r3}
    Guests = {g1}
    Emails = {e1, e2}
    Blocks = {b1, b2}
    Tokens = {}
    Inputs <- SeatInputs
    GuestSeats <- SeatGuests
    Capacities <- CapsOneTwo
    Limit = 2
    Required = {}
    PoolSize = 4
SYMMETRY RequestSymmetry
INVARIANTS
    SeatReserved
PROPERTIES
    SeatsPromise
CHECK_DEADLOCK FALSE
