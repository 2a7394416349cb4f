CONSTANTS
    x1 = x1
    x2 = x2
    p1 = p1
    p2 = p2
    c1 = c1
    c2 = c2
    s1 = s1
    s2 = s2
    None = None
    People = {x1, x2}
    Providers = {p1, p2}
    Clients = {c1, c2}
    MaxAttempts = 2
    MaxLogins = 1
    Slots = {s1, s2}
SPECIFICATION Spec
SYMMETRY Symmetry
INVARIANTS TypeOK SignInAuthorised
PROPERTIES RefusedForAReason
