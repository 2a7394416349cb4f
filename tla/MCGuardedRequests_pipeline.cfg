CONSTANTS
    f1 = f1
    f2 = f2
    v1 = v1
    s1 = s1
    s2 = s2
    None = None
    Sessions = {f1, f2}
    RoleOf <- MCRoleOf
    Visitors = {v1}
    Slots = {s1, s2}
    Deployments <- MCDeployments
    Lifetime = 1
    MaxTime = 1
    MaxTokens = 2
SPECIFICATION FairSpec
INVARIANTS TypeOK ServedAsSelf ServedALifetimeAtMost RefusedRightly
PROPERTY RequestsAnswered
CHECK_DEADLOCK FALSE
