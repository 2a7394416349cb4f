-------------------------- MODULE SessionLifecycle --------------------------
(***************************************************************************)
(* What the session service promises, without tables or requests.  A login *)
(* opens a session; a logout or a later login ends sessions, and nothing   *)
(* else does: no refresh, failure or expiry closes one.  An ended session  *)
(* stays closed unless a renewal was under way when it was ended (strays). *)
(***************************************************************************)
CONSTANT Sessions

VARIABLES
    open,    \* sessions that have a token stored, whether or not it has expired
    over,    \* sessions that were ended
    strays   \* ended sessions that a renewal under way may reopen

lifecycle == <<open, over, strays>>

Init == open = {} /\ over = {} /\ strays = {}

Open(f) ==
    /\ f \in Sessions \ (open \cup over)
    /\ open' = open \cup {f}
    /\ UNCHANGED <<over, strays>>

End(S, caught) ==
    /\ open'   = open \ S
    /\ over'   = over \cup S
    /\ strays' = strays \cup caught

Reopen(f) ==
    /\ f \in strays
    /\ open' = open \cup {f}
    /\ UNCHANGED <<over, strays>>

Next ==
    \/ \E f \in Sessions : Open(f) \/ Reopen(f)
    \/ \E S \in SUBSET open : \E caught \in SUBSET S : End(S, caught)

Spec == Init /\ [][Next]_lifecycle
============================================================================
