------------------------- MODULE MCGuardedRequests -------------------------
EXTENDS GuardedRequests

CONSTANTS f1, f2, v1, s1, s2

MCRoleOf == [f \in {f1, f2} |-> IF f = f1 THEN "SUPER_ADMIN" ELSE "BASIC"]

\* both wirings, and what a process may lack: the operation of a login where the
\* handlers run, or that of the guard where the account service listens
Full == [clients |-> {"account"}, handlers |-> {"account.find-user-by-identifier"},
         account |-> {"account.verify-access-token"}]
MCDeployments ==
    {[bootstrap |-> TRUE, registry |-> Full],
     [bootstrap |-> FALSE, registry |-> [Full EXCEPT !.handlers = {}]],
     [bootstrap |-> FALSE, registry |-> [Full EXCEPT !.account = {}]]}
============================================================================
