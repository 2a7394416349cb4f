--------------------------- MODULE AccountRecords ---------------------------
(***************************************************************************)
(* What the table of accounts goes through, whatever the requests do in    *)
(* between: accounts are created once, changed in the columns of one form  *)
(* at a time and deleted for good.  The exception is an account that is    *)
(* written while somebody has it read and not yet compared: it is exposed  *)
(* to one overwrite with what was read, which may bring it back.           *)
(***************************************************************************)
EXTENDS Functions

CONSTANTS
    Accounts,
    Rows,           \* the values a row may have, each with its email
    Forms           \* the sets of columns that one request may change

VARIABLES
    rows,           \* a row for each account there is
    ever,           \* accounts ever created
    exposed         \* accounts that one read before their last write may overwrite

Written(u, row) == rows' = [w \in DOMAIN rows \cup {u} |-> IF w = u THEN row ELSE rows[w]]

UniqueEmails == \A u, w \in DOMAIN rows : rows[u].email = rows[w].email => u = w

\* A write exposes at most the account that it is about.
Exposes(u) == exposed' \subseteq exposed \cup {u}

----------------------------------------------------------------------------
Create(u, row) ==
    /\ u \in Accounts \ ever
    /\ Written(u, row)
    /\ ever' = ever \cup {u}
    /\ UNCHANGED exposed

Change(u, row) ==
    /\ u \in DOMAIN rows
    /\ \E form \in Forms : \A c \in DOMAIN row \ form : row[c] = rows[u][c]
    /\ Written(u, row)
    /\ Exposes(u)
    /\ UNCHANGED ever

Delete(u) ==
    /\ u \in ever
    /\ rows' = Restrict(rows, DOMAIN rows \ {u})
    /\ Exposes(u)
    /\ UNCHANGED ever

Overwrite(u, row) ==
    /\ u \in exposed
    /\ Written(u, row)
    /\ Exposes(u)
    /\ UNCHANGED ever

Release == exposed' \subseteq exposed /\ UNCHANGED <<rows, ever>>

----------------------------------------------------------------------------
Init ==
    /\ rows = [u \in {} |-> {}]
    /\ ever = {}
    /\ exposed = {}

Next ==
    /\ \/ \E u \in Accounts, row \in Rows : Create(u, row) \/ Change(u, row) \/ Overwrite(u, row)
       \/ \E u \in Accounts : Delete(u)
       \/ Release
    /\ UniqueEmails'

Spec == Init /\ [][Next]_<<rows, ever, exposed>>
============================================================================
