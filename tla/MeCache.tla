------------------------------ MODULE MeCache ------------------------------
(***************************************************************************)
(* GET api/account/me behind CacheInterceptor.  The interceptor keys an    *)
(* entry by the URL, so all users share one; no write of an account        *)
(* removes it; it goes after Ttl.  A GET that finds no entry reads the     *)
(* row, and stores what it read once the database has answered: in         *)
(* between, other requests run.                                            *)
(*                                                                         *)
(* A profile is abstracted to the version of its row, counted by writes.   *)
(* answer, seen, birth and quiet are history variables.                    *)
(***************************************************************************)
EXTENDS Integers

CONSTANTS
    Users,       \* ids of the accounts
    Slots,       \* GET requests the server handles at the same time
    Ttl,         \* lifetime of an entry, in ticks of the clock
    MaxVersion,  \* bound: writes to a row
    None

Profile == [user : Users, version : 0..MaxVersion]

ASSUME ConstantsAssumption ==
    /\ Ttl \in Nat \ {0}
    /\ MaxVersion \in Nat
    /\ None \notin Profile \cup 0..MaxVersion

VARIABLES
    users,   \* version of the row of each account, None once it is deleted
    cached,  \* the entry under the URL of the route: a profile, or None
    age,     \* ticks since the entry was stored
    pc,      \* the await each request is at
    caller,  \* whose access token the request carries
    got,     \* the profile the database answered with, None if there is none
    answer,  \* <<caller, profile>> of the last successful response, or None
    seen,    \* the latest version of each profile in a response
    birth,   \* whether the entry was current when it was stored
    quiet    \* ticks since the last write, or since a profile was stored too late

vars == <<users, cached, age, pc, caller, got, answer, seen, birth, quiet>>

Larger(m, n) == IF m > n THEN m ELSE n

Answer(s, profile) ==
    /\ answer' = <<caller[s], profile>>
    /\ seen'   = [seen EXCEPT ![profile.user] = Larger(@, profile.version)]

Done(s) == pc' = [pc EXCEPT ![s] = "idle"] /\ got' = [got EXCEPT ![s] = None]

----------------------------------------------------------------------------
\* JwtAuthGuard ran before the interceptor: the caller is known.
Get(s) ==
    /\ pc[s] = "idle"
    /\ \E u \in Users : caller' = [caller EXCEPT ![s] = u]
    /\ pc' = [pc EXCEPT ![s] = "cache"]
    /\ UNCHANGED <<users, cached, age, got, answer, seen, birth, quiet>>

\* cacheManager.get(key) has a value: the handler does not run
Hit(s) ==
    /\ pc[s] = "cache"
    /\ cached # None
    /\ Answer(s, cached)
    /\ Done(s)
    /\ UNCHANGED <<users, cached, age, caller, birth, quiet>>

Miss(s) ==
    /\ pc[s] = "cache"
    /\ cached = None
    /\ pc' = [pc EXCEPT ![s] = "find"]
    /\ UNCHANGED <<users, cached, age, caller, got, answer, seen, birth, quiet>>

\* Mutated: findById does not check that there is a row.
Find_Unchecked(s) ==
    /\ pc[s] = "find"
    /\ pc'  = [pc EXCEPT ![s] = "respond"]
    /\ got' = [got EXCEPT ![s] = [user |-> caller[s], version |-> users[caller[s]]]]
    /\ UNCHANGED <<users, cached, age, caller, answer, seen, birth, quiet>>

\* findById(user.sub): the database reads the row of the caller
Find(s) ==
    /\ pc[s] = "find"
    /\ pc'  = [pc EXCEPT ![s] = "respond"]
    /\ got' = [got EXCEPT ![s] = IF users[caller[s]] = None THEN None
                                 ELSE [user |-> caller[s], version |-> users[caller[s]]]]
    /\ UNCHANGED <<users, cached, age, caller, answer, seen, birth, quiet>>

\* Mutated: an entry that another request stored meanwhile is kept.
Respond_KeepsFirst(s) ==
    /\ pc[s] = "respond"
    /\ got[s] # None
    /\ Answer(s, got[s])
    /\ IF cached = None
       THEN /\ cached' = got[s] /\ age' = 0
            /\ birth'  = (got[s].version = users[got[s].user])
            /\ quiet'  = IF birth' THEN quiet ELSE 0
       ELSE UNCHANGED <<cached, age, birth, quiet>>
    /\ Done(s)
    /\ UNCHANGED <<users, caller>>

\* The response passes the interceptor, which stores it under the URL.
Respond(s) ==
    /\ pc[s] = "respond"
    /\ got[s] # None
    /\ Answer(s, got[s])
    /\ cached' = got[s] /\ age' = 0
    /\ birth'  = (got[s].version = users[got[s].user])
    /\ quiet'  = IF birth' THEN quiet ELSE 0
    /\ Done(s)
    /\ UNCHANGED <<users, caller>>

\* NotFoundException: an error is not stored
NotFound(s) ==
    /\ pc[s] = "respond"
    /\ got[s] = None
    /\ Done(s)
    /\ UNCHANGED <<users, cached, age, caller, answer, seen, birth, quiet>>

----------------------------------------------------------------------------
\* PUT me, a password change, an administrator's update: one write of the row
Write(u) ==
    /\ users[u] # None
    /\ users[u] < MaxVersion
    /\ users' = [users EXCEPT ![u] = @ + 1]
    /\ quiet' = 0
    /\ UNCHANGED <<cached, age, pc, caller, got, answer, seen, birth>>

Remove(u) ==
    /\ users[u] # None
    /\ users' = [users EXCEPT ![u] = None]
    /\ quiet' = 0
    /\ UNCHANGED <<cached, age, pc, caller, got, answer, seen, birth>>

\* Mutated: the module is registered with a ttl of 0, which is none.
Tick_NoTtl ==
    /\ quiet' = IF quiet = Ttl THEN Ttl ELSE quiet + 1
    /\ UNCHANGED <<users, cached, age, pc, caller, got, answer, seen, birth>>

\* CacheModule.register(): memory store, default ttl
Tick ==
    /\ IF cached # None /\ age + 1 = Ttl
       THEN cached' = None /\ age' = 0
       ELSE cached' = cached /\ age' = IF cached = None THEN 0 ELSE age + 1
    /\ quiet' = IF quiet = Ttl THEN Ttl ELSE quiet + 1
    /\ UNCHANGED <<users, pc, caller, got, answer, seen, birth>>

Init ==
    /\ users  = [u \in Users |-> 0]
    /\ cached = None
    /\ age    = 0
    /\ pc     = [s \in Slots |-> "idle"]
    /\ caller \in [Slots -> Users]
    /\ got    = [s \in Slots |-> None]
    /\ answer = None
    /\ seen   = [u \in Users |-> 0]
    /\ birth  = TRUE
    /\ quiet  = 0

Handle(s) == Get(s) \/ Hit(s) \/ Miss(s) \/ Find(s) \/ Respond(s) \/ NotFound(s)

Next ==
    \/ \E s \in Slots : Handle(s)
    \/ \E u \in Users : Write(u) \/ Remove(u)
    \/ Tick

Spec == Init /\ [][Next]_vars

----------------------------------------------------------------------------
\* Type invariant.
TypeOK ==
    /\ users \in [Users -> 0..MaxVersion \cup {None}]
    /\ cached \in Profile \cup {None}
    /\ age \in 0..(Ttl - 1)
    /\ pc \in [Slots -> {"idle", "cache", "find", "respond"}]
    /\ caller \in [Slots -> Users]
    /\ got \in [Slots -> Profile \cup {None}]
    /\ answer = None \/ answer \in Users \X Profile
    /\ seen \in [Users -> 0..MaxVersion]
    /\ birth \in BOOLEAN
    /\ quiet \in 0..Ttl

\* Once the accounts have not been written for a lifetime of an entry, nor a
\* profile stored that was outdated by then, the entry is the row as it is:
\* hits do not prolong the life of an entry.
FreshWhenQuiet ==
    (quiet = Ttl /\ cached # None) => users[cached.user] = cached.version

\* A GET answers with an older profile than some GET before it only if the
\* entry was outdated when it was stored: its request had read the row, and the
\* row was written before its response passed the interceptor.
BackwardsOnlyIfLate ==
    (cached # None /\ birth) => cached.version >= seen[cached.user]

\* The route's summary: "Get current user profile".
OwnProfile == answer # None => answer[2].user = answer[1]
============================================================================
