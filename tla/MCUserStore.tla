---------------------------- MODULE MCUserStore ----------------------------
EXTENDS UserStore, TLC

CONSTANTS a1, a2, e1, e2, n1, n2, p1, p2, s1, s2, s3

\* An administrator renames an account, or sets its role and status.
RenameOrSet ==
    [fullName : Names, role : {Undefined}, status : {Undefined}]
        \cup [fullName : {Undefined}, role : Roles, status : Statuses]

Symmetry == Permutations(Accounts) \cup Permutations(Emails) \cup Permutations(Names)
                \cup Permutations(Passwords) \cup Permutations(Slots)
============================================================================
