CONSTANTS
    u1 = u1
    u2 = u2
    s1 = s1
    s2 = s2
    None = None
    Users = {u1, u2}
    Slots = {s1, s2}
    Ttl = 3
    MaxVersion = 3
SPECIFICATION Spec
SYMMETRY Symmetry
INVARIANT OwnProfile
