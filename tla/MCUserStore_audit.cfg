CONSTANTS
    a1 = a1
    a2 = a2
    e1 = e1
    e2 = e2
    n1 = n1
    n2 = n2
    p1 = p1
    p2 = p2
    s1 = s1
    s2 = s2
    s3 = s3
    Undefined = Undefined
    None = None
    Accounts = {a1}
    Emails = {e1, e2}
    Passwords = {p1, p2}
    Roles = {"BASIC"}
    Statuses = {"ACTIVE"}
    Names = {n1}
    AdminBodies <- RenameOrSet
    MeColumns = {"email", "fullName"}
    Slots = {s1}
    AuditUp = TRUE
SPECIFICATION Spec
SYMMETRY Symmetry
INVARIANT UpdatesAuditedWithValues
CHECK_DEADLOCK FALSE
