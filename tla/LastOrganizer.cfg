SPECIFICATION Spec
CONSTANTS
    r1 = r1  r2 = r2  r3 = r3
    own = own  m1 = m1  m2 = m2  boss = boss  rookie = rookie
    k1 = k1  k2 = k2  k3 = k3  k4 = k4  z1 = z1  z2 = z2
    pw1 = pw1  pw2 = pw2
    None = None
    Requests = {r1, r2, r3}
    Admins = {own, m1, m2, boss, rookie}
    Hired = {own, m1, m2, boss}
    Supers = {boss}
    Owner = own
    Passwords = {pw1, pw2}
    Password = pw1
    Tokens = {k1, k2, k3, k4}
    ResetTokens = {z1, z2}
    Granted <- MCGranted
    Inputs <- RemovalInputs
PROPERTIES
    NeverTakesTheLast
CHECK_DEADLOCK FALSE
