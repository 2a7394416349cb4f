-------------------------- MODULE RefreshSessions --------------------------
(***************************************************************************)
(* AccountAuthenticateService: login, refresh and logout over the table    *)
(* refresh_tokens.  A request is a process; each of its awaits on the      *)
(* database is one atomic step, other requests run between two steps, and  *)
(* nothing is a transaction: an await that rejects ends the request and    *)
(* leaves what it wrote.  A restart of the server is that failure, for     *)
(* every request in flight.                                                *)
(*                                                                         *)
(* Names: a row of the table is an element of DOMAIN tokens.  A family is  *)
(* the set of rows descending from one login through refreshes, named by   *)
(* the id that login drew.  family, origin, held, loggedOut, replaced,     *)
(* escaped and raced are history variables: the program has none of them,  *)
(* and no guard reads them.                                                *)
(***************************************************************************)
EXTENDS FiniteSets, Integers, Functions

CONSTANTS
    Users,        \* ids of the accounts
    Visitors,     \* values of the visitor-id header
    NoVisitor,    \* the CLS holds no visitor id (a NULL column in the table)
    ReqVisitors,  \* what requests carry: Visitors under setupBootstrap, {NoVisitor} under main.ts
    Ids,          \* the values uuidv4 may return
    Slots,        \* requests the server handles at the same time
    Roles,        \* the user roles that accounts take in a run
    MayFail,      \* whether an await on the database may reject
    None

UserRoles  == {"SUPER_ADMIN", "ADMIN", "BASIC", "ANONYMOUS", "SYSTEM"}
TokenRoles == {"SUPER_ADMIN", "ADMIN", "BASIC", "GUEST"}
Sources    == Visitors \cup {NoVisitor}

Row        == [user : Users, visitor : Sources, role : TokenRoles, live : BOOLEAN]
Origin     == [user : Users, visitor : Sources, role : TokenRoles]
LoginReq   == [op : {"login"},   user : Users, visitor : ReqVisitors]
RefreshReq == [op : {"refresh"}, token : Ids,  visitor : ReqVisitors]
LogoutReq  == [op : {"logout"},  user : Users, visitor : ReqVisitors]

ASSUME ConstantsAssumption ==
    /\ ReqVisitors \subseteq Sources
    /\ NoVisitor \notin Visitors
    /\ Roles \subseteq UserRoles
    /\ MayFail \in BOOLEAN
    /\ None \notin Ids \cup Roles \cup Row \cup LoginReq \cup RefreshReq \cup LogoutReq

VARIABLES
    account,   \* role of each account, None once the account is deleted
    tokens,    \* the table refresh_tokens, by primary key
    audited,   \* logins with a USER.LOGIN row in the audit log
    known,     \* refresh tokens that reached a client in a response
    pc,        \* the await each request is at
    req,       \* the request: method, body and CLS visitor id
    ent,       \* the entity it holds in memory
    new,       \* the refresh id it has saved
    family,    \* for every id ever saved, the login it descends from
    origin,    \* for every login that saved a row, what that row held
    held,      \* token roles each account has been entitled to
    loggedOut, \* families some logout deleted
    replaced,  \* families the cleanup of a later login deleted
    escaped,   \* families deleted while a refresh held one of their rows
    raced      \* <<user, visitor>> pairs whose requests overlapped or failed midway

table   == <<account, tokens, audited, known>>
local   == <<pc, req, ent, new>>
history == <<family, origin, held, loggedOut, replaced, escaped, raced>>
vars    == <<table, local, history>>

Put(f, i, x) == [j \in DOMAIN f \cup {i} |-> IF j = i THEN x ELSE f[j]]
Without(S)   == Restrict(tokens, DOMAIN tokens \ S)
Fresh(id)    == id \in Ids \ DOMAIN family
Ended        == loggedOut \cup replaced

----------------------------------------------------------------------------
(* The decisions of the service.                                           *)

\* Mutated: the user role is stored as it is.
TokenRoleOf_Unmapped(role) == role

TokenRoleOf(role) ==
    CASE role \in {"SUPER_ADMIN", "SYSTEM"} -> "SUPER_ADMIN"
      [] role \in {"ADMIN", "BASIC"}        -> role
      [] OTHER                              -> "GUEST"

\* Mutated: the visitor is not compared.
Found_AnyVisitor(id, v) == id \in DOMAIN tokens

\* where: {id, visitorId}; an undefined visitorId is no condition
Found(id, v) ==
    /\ id \in DOMAIN tokens
    /\ v = NoVisitor \/ tokens[id].visitor = v

Redeemable(id, v) == Found(id, v) /\ tokens[id].live

\* Mutated: login cleans nothing up.
CleanupVictims_None(u, v) == {}

\* delete({userId, visitorId}), skipped without a visitor id
CleanupVictims(u, v) ==
    IF v = NoVisitor THEN {}
    ELSE {i \in DOMAIN tokens : tokens[i].user = u /\ tokens[i].visitor = v}

\* Mutated: logout leaves the expired rows.
LogoutVictims_Live(u, v) ==
    {i \in DOMAIN tokens : /\ tokens[i].user = u /\ tokens[i].live
                           /\ v = NoVisitor \/ tokens[i].visitor = v}

LogoutVictims(u, v) ==
    {i \in DOMAIN tokens : tokens[i].user = u /\ (v = NoVisitor \/ tokens[i].visitor = v)}

\* Mutated: every row of the user goes.
PurgeVictims_AllOfUser(u, id) == {i \in DOMAIN tokens : tokens[i].user = u}

\* delete({userId, id: the token presented})
PurgeVictims(u, id) == {i \in DOMAIN tokens : i = id /\ tokens[i].user = u}

\* Mutated: the new row forgets the visitor.
Renewed_Unbound(row) == [row EXCEPT !.live = TRUE, !.visitor = NoVisitor]

\* record.id and record.expiresAt are replaced, save() inserts: no row has the new id
Renewed(row) == [row EXCEPT !.live = TRUE]

----------------------------------------------------------------------------
(* History.                                                                *)

PairOf(r) ==
    IF r.op = "refresh"
    THEN <<origin[family[r.token]].user, origin[family[r.token]].visitor>>
    ELSE <<r.user, r.visitor>>

\* no pair without a visitor id
Paired(r) == {PairOf(r)} \ (Users \X {NoVisitor})

Contends(t, pair) == pc[t] # "idle" /\ req[t].op # "logout" /\ PairOf(req[t]) = pair

Overlap(s, r) ==
    {p \in Paired(r) : r.op # "logout" /\ \E t \in Slots \ {s} : Contends(t, p)}

Families(S) == {family[i] : i \in S}

\* families of S of which a refresh has read a row and not yet saved its successor
Escaping(S) ==
    {f \in Families(S) : \E t \in Slots : pc[t] = "renew" /\ family[req[t].token] = f}

----------------------------------------------------------------------------
(* Requests.                                                               *)

\* Bound: a request arrives only while Ids lasts for every request in flight.
Drawing == {t \in Slots : pc[t] \in {"validate", "cleanup", "save", "find", "renew"}}
Bounded == Cardinality(Drawing) < Cardinality(Ids \ DOMAIN family)

Arrive(s, r, first) ==
    /\ pc[s] = "idle"
    /\ pc'  = [pc EXCEPT ![s] = first]
    /\ req' = [req EXCEPT ![s] = r]
    /\ raced' = raced \cup Overlap(s, r)
    /\ UNCHANGED <<table, ent, new, family, origin, held, loggedOut, replaced, escaped>>

Finish(s) ==
    /\ pc'  = [pc EXCEPT ![s] = "idle"]
    /\ req' = [req EXCEPT ![s] = None]
    /\ ent' = [ent EXCEPT ![s] = None]
    /\ new' = [new EXCEPT ![s] = None]

Goto(s, next) ==
    /\ pc' = [pc EXCEPT ![s] = next]
    /\ UNCHANGED req

LoginArrive(s) ==
    /\ Bounded
    /\ \E u \in Users, v \in ReqVisitors :
          Arrive(s, [op |-> "login", user |-> u, visitor |-> v], "validate")

\* A client presents a token it was given, again if it likes, from any visitor.
RefreshArrive(s) ==
    /\ Bounded
    /\ \E id \in known, v \in ReqVisitors :
          Arrive(s, [op |-> "refresh", token |-> id, visitor |-> v], "find")

\* JwtAuthGuard: only the bearer of an access token, issued with some refresh token.
LogoutArrive(s) ==
    \E id \in known, v \in ReqVisitors :
        Arrive(s, [op |-> "logout", user |-> origin[family[id]].user, visitor |-> v], "delete")

\* strategy.validate reads the account; the role is mapped from what it read
LoginValidate(s) ==
    /\ pc[s] = "validate"
    /\ account[req[s].user] # None
    /\ ent' = [ent EXCEPT ![s] = [user    |-> req[s].user,
                                  visitor |-> req[s].visitor,
                                  role    |-> TokenRoleOf(account[req[s].user]),
                                  live    |-> TRUE]]
    /\ Goto(s, "cleanup")
    /\ UNCHANGED <<table, new, history>>

LoginReject(s) ==
    /\ pc[s] = "validate"
    /\ Finish(s)                \* no such account, or a wrong password
    /\ UNCHANGED <<table, history>>

LoginCleanup(s) ==
    /\ pc[s] = "cleanup"
    /\ LET victims == CleanupVictims(req[s].user, req[s].visitor) IN
          /\ tokens'   = Without(victims)
          /\ replaced' = replaced \cup Families(victims)
          /\ escaped'  = escaped \cup Escaping(victims)
    /\ Goto(s, "save")
    /\ UNCHANGED <<account, audited, known, ent, new, family, origin, held, loggedOut, raced>>

LoginSave(s) ==
    /\ pc[s] = "save"
    /\ \E id \in Ids :
          /\ Fresh(id)
          /\ tokens' = Put(tokens, id, ent[s])
          /\ new'    = [new EXCEPT ![s] = id]
          /\ family' = Put(family, id, id)
          /\ origin' = Put(origin, id, [user    |-> ent[s].user,
                                        visitor |-> ent[s].visitor,
                                        role    |-> ent[s].role])
    /\ Goto(s, "audit")
    /\ UNCHANGED <<account, audited, known, ent, held, loggedOut, replaced, escaped, raced>>

\* An audit that fails is swallowed: the login goes on either way.
LoginAudit(s) ==
    /\ pc[s] = "audit"
    /\ audited' \in {audited, audited \cup {new[s]}}
    /\ Goto(s, "reply")
    /\ UNCHANGED <<account, tokens, known, ent, new, history>>

\* Mutated: the token is deleted as it is read, before its successor is saved.
RefreshFind_Consumes(s) ==
    /\ pc[s] = "find"
    /\ Redeemable(req[s].token, req[s].visitor)
    /\ ent' = [ent EXCEPT ![s] = tokens[req[s].token]]
    /\ tokens' = Without({req[s].token})
    /\ Goto(s, "renew")
    /\ UNCHANGED <<account, audited, known, new, history>>

RefreshFind(s) ==
    /\ pc[s] = "find"
    /\ Redeemable(req[s].token, req[s].visitor)
    /\ ent' = [ent EXCEPT ![s] = tokens[req[s].token]]
    /\ Goto(s, "renew")
    /\ UNCHANGED <<table, new, history>>

\* Mutated: an expired token is neither renewed nor refused.
RefreshReject_Missing(s) ==
    /\ pc[s] = "find"
    /\ ~ Found(req[s].token, req[s].visitor)
    /\ Finish(s)
    /\ UNCHANGED <<table, history>>

RefreshReject(s) ==
    /\ pc[s] = "find"
    /\ ~ Redeemable(req[s].token, req[s].visitor)
    /\ Finish(s)
    /\ UNCHANGED <<table, history>>

\* Mutated: record.id keeps the token presented.
RefreshSave_SameId(s) ==
    /\ pc[s] = "renew"
    /\ tokens' = Put(tokens, req[s].token, Renewed(ent[s]))
    /\ new'    = [new EXCEPT ![s] = req[s].token]
    /\ Goto(s, "reply")
    /\ UNCHANGED <<account, audited, known, ent, history>>

\* Mutated: the new row takes the role the account has now.
RefreshSave_CurrentRole(s) ==
    /\ pc[s] = "renew"
    /\ \E id \in Ids :
          /\ Fresh(id)
          /\ tokens' = Put(tokens, id, [Renewed(ent[s]) EXCEPT !.role = TokenRoleOf(account[ent[s].user])])
          /\ new'    = [new EXCEPT ![s] = id]
          /\ family' = Put(family, id, family[req[s].token])
    /\ Goto(s, "purge")
    /\ UNCHANGED <<account, audited, known, ent, origin, held, loggedOut, replaced, escaped, raced>>

RefreshSave(s) ==
    /\ pc[s] = "renew"
    /\ \E id \in Ids :
          /\ Fresh(id)
          /\ tokens' = Put(tokens, id, Renewed(ent[s]))
          /\ new'    = [new EXCEPT ![s] = id]
          /\ family' = Put(family, id, family[req[s].token])
    /\ Goto(s, "purge")
    /\ UNCHANGED <<account, audited, known, ent, origin, held, loggedOut, replaced, escaped, raced>>

\* Mutated: record.id already is the new id when the delete reads it.
RefreshPurge_NewId(s) ==
    /\ pc[s] = "purge"
    /\ tokens' = Without(PurgeVictims(ent[s].user, new[s]))
    /\ Goto(s, "reply")
    /\ UNCHANGED <<account, audited, known, ent, new, history>>

RefreshPurge(s) ==
    /\ pc[s] = "purge"
    /\ tokens' = Without(PurgeVictims(ent[s].user, req[s].token))
    /\ Goto(s, "reply")
    /\ UNCHANGED <<account, audited, known, ent, new, history>>

LogoutDelete(s) ==
    /\ pc[s] = "delete"
    /\ LET victims == LogoutVictims(req[s].user, req[s].visitor) IN
          /\ tokens'    = Without(victims)
          /\ loggedOut' = loggedOut \cup Families(victims)
          /\ escaped'   = escaped \cup Escaping(victims)
    /\ Goto(s, "reply")
    /\ UNCHANGED <<account, audited, known, ent, new, family, origin, held, replaced, raced>>

Reply(s) ==
    /\ pc[s] = "reply"
    /\ known' = known \cup ({new[s]} \ {None})
    /\ Finish(s)
    /\ UNCHANGED <<account, tokens, audited, history>>

\* An await rejects or the server goes down: what is written stays written.
Fail(s) ==
    /\ MayFail
    /\ pc[s] # "idle"
    /\ raced' = IF new[s] = None THEN raced ELSE raced \cup Paired(req[s])
    /\ Finish(s)
    /\ UNCHANGED <<table, family, origin, held, loggedOut, replaced, escaped>>

----------------------------------------------------------------------------
(* What happens around the requests.                                       *)

Expire(id) ==
    /\ id \in DOMAIN tokens
    /\ tokens[id].live
    /\ tokens' = [tokens EXCEPT ![id] = [@ EXCEPT !.live = FALSE]]
    /\ UNCHANGED <<account, audited, known, local, history>>

\* the write of AccountUserService.update and of delete: neither touches refresh_tokens
SetRole(u, role) ==
    /\ account[u] \notin {None, role}
    /\ account' = [account EXCEPT ![u] = role]
    /\ held'    = [held EXCEPT ![u] = @ \cup {TokenRoleOf(role)}]
    /\ UNCHANGED <<tokens, audited, known, local, family, origin, loggedOut, replaced, escaped, raced>>

RemoveAccount(u) ==
    /\ account[u] # None
    /\ account' = [account EXCEPT ![u] = None]
    /\ UNCHANGED <<tokens, audited, known, local, history>>

----------------------------------------------------------------------------
Init ==
    /\ account \in [Users -> Roles]
    /\ tokens  = [i \in {} |-> None]
    /\ audited = {}
    /\ known   = {}
    /\ pc  = [s \in Slots |-> "idle"]
    /\ req = [s \in Slots |-> None]
    /\ ent = [s \in Slots |-> None]
    /\ new = [s \in Slots |-> None]
    /\ family = [i \in {} |-> None]
    /\ origin = [i \in {} |-> None]
    /\ held   = [u \in Users |-> {TokenRoleOf(account[u])}]
    /\ loggedOut = {} /\ replaced = {} /\ escaped = {} /\ raced = {}

Handle(s) ==
    \/ LoginValidate(s) \/ LoginReject(s) \/ LoginCleanup(s) \/ LoginSave(s) \/ LoginAudit(s)
    \/ RefreshFind(s) \/ RefreshReject(s) \/ RefreshSave(s) \/ RefreshPurge(s)
    \/ LogoutDelete(s) \/ Reply(s)

Next ==
    \/ \E s \in Slots : LoginArrive(s) \/ RefreshArrive(s) \/ LogoutArrive(s)
    \/ \E s \in Slots : Handle(s)
    \/ \E s \in Slots : Fail(s)
    \/ \E id \in Ids : Expire(id)
    \/ \E u \in Users, role \in Roles : SetRole(u, role)
    \/ \E u \in Users : RemoveAccount(u)

Spec == Init /\ [][Next]_vars

\* The event loop and the database driver serve every request that is waiting.
FairSpec == Spec /\ \A s \in Slots : WF_vars(Handle(s))

----------------------------------------------------------------------------
\* Type invariant.
TypeOK ==
    /\ account \in [Users -> Roles \cup {None}]
    /\ DOMAIN tokens \subseteq Ids /\ \A i \in DOMAIN tokens : tokens[i] \in Row
    /\ audited \subseteq Ids
    /\ known \subseteq Ids
    /\ pc \in [Slots -> {"idle", "validate", "cleanup", "save", "audit",
                         "find", "renew", "purge", "delete", "reply"}]
    /\ req \in [Slots -> LoginReq \cup RefreshReq \cup LogoutReq \cup {None}]
    /\ ent \in [Slots -> Row \cup {None}]
    /\ new \in [Slots -> Ids \cup {None}]
    /\ DOMAIN family \subseteq Ids /\ \A i \in DOMAIN family : family[i] \in Ids
    /\ DOMAIN origin \subseteq Ids /\ \A i \in DOMAIN origin : origin[i] \in Origin
    /\ held \in [Users -> SUBSET TokenRoles]
    /\ loggedOut \subseteq Ids /\ replaced \subseteq Ids /\ escaped \subseteq Ids
    /\ raced \subseteq Users \X Sources

\* A row, however many refreshes made it, belongs to the user and the visitor
\* of the login it descends from, and carries the role of that login, which
\* the account held at some time; no login is in the audit log without a row.
Provenance ==
    /\ \A i \in DOMAIN tokens :
          LET o == origin[family[i]] IN
             /\ tokens[i].user = o.user
             /\ tokens[i].visitor = o.visitor
             /\ tokens[i].role = o.role
             /\ tokens[i].role \in held[tokens[i].user]
    /\ audited \subseteq DOMAIN origin

\* refresh() saves the successor before it deletes the token presented, so
\* failures and concurrent refreshes of one token never leave a session
\* without a row: only a logout or a later login takes the last one.
SessionContinuity ==
    \A f \in DOMAIN origin \ Ended : \E i \in DOMAIN tokens : family[i] = f

\* A session that a logout or a later login deleted has no row again, unless a
\* refresh had read one of its rows and not yet saved when they were deleted.
EndedStaysEnded ==
    \A i \in DOMAIN tokens : family[i] \in Ended => family[i] \in escaped

\* While the requests of a user and visitor do not overlap and do not fail
\* midway, the pair has at most one row, and its client knows that token.
SerialSession ==
    \A pair \in (Users \X Visitors) \ raced :
        LET rows == {i \in DOMAIN tokens : tokens[i].user = pair[1] /\ tokens[i].visitor = pair[2]}
        IN  (\A s \in Slots : ~ Contends(s, pair)) => /\ rows \subseteq known
                                                      /\ \A i, j \in rows : i = j

\* A token that left the table never comes back: each insert has an id that no
\* row ever had, so a token spent, replaced or logged out stays unusable.
SpentForGood ==
    [][\A i \in DOMAIN tokens' \ DOMAIN tokens : i \notin DOMAIN family]_vars

\* The service implements SessionLifecycle: a session is open while its family
\* has a row.
Lifecycle == INSTANCE SessionLifecycle WITH
    Sessions <- Ids,
    open     <- Families(DOMAIN tokens),
    over     <- Ended,
    strays   <- escaped
ImplementsLifecycle == Lifecycle!Spec

\* If nothing fails, a refresh that has saved the successor of the token it was
\* presented answers when that token is not in the table.
SupersededCleared ==
    \A s \in Slots :
        pc[s] = "purge" ~>
            (pc[s] = "reply" /\ req[s].op = "refresh" /\ req[s].token \notin DOMAIN tokens)

\* Every request is answered if nothing fails.
RequestsAnswered == \A s \in Slots : pc[s] # "idle" ~> pc[s] = "idle"

\* The logout route: "Invalidate refresh token and logout user".
LogoutInvalidates == \A i \in DOMAIN tokens : family[i] \notin loggedOut

----------------------------------------------------------------------------
(* The inductive strengthening of the invariants above.                    *)

LoginAt   == {"validate", "cleanup", "save", "audit"}
RefreshAt == {"find", "renew", "purge"}

\* What a request holds at each await.
RequestShape ==
    \A s \in Slots :
        /\ pc[s] = "idle" => req[s] = None /\ ent[s] = None
        /\ pc[s] \in LoginAt => req[s] \in LoginReq
        /\ pc[s] \in RefreshAt => req[s] \in RefreshReq
        /\ pc[s] = "delete" => req[s] \in LogoutReq
        /\ pc[s] = "reply" => req[s] # None
        /\ pc[s] \in {"cleanup", "save", "audit", "renew", "purge"} => ent[s] \in Row
        /\ pc[s] \in {"audit", "purge"} => new[s] # None
        /\ pc[s] \notin {"audit", "purge", "reply"} => new[s] = None

\* Ids are drawn once, and no client knows one before its response.
IdsDrawn ==
    /\ DOMAIN tokens \subseteq DOMAIN family
    /\ known \subseteq DOMAIN family
    /\ DOMAIN origin \subseteq DOMAIN family
    /\ Ended \subseteq DOMAIN origin
    /\ \A i \in DOMAIN family : family[i] \in DOMAIN origin
    /\ \A f \in DOMAIN origin : family[f] = f
    /\ \A s \in Slots :
          /\ req[s] \in RefreshReq => req[s].token \in known
          /\ new[s] # None => new[s] \in DOMAIN family \ known
          /\ pc[s] = "audit" => new[s] \in DOMAIN origin
          /\ \A t \in Slots : s # t /\ new[s] # None => new[t] # new[s]

\* The entity in memory is what the row to be saved must hold.
EntityProvenance ==
    /\ \A u \in Users : account[u] # None => TokenRoleOf(account[u]) \in held[u]
    /\ \A s \in Slots :
          /\ pc[s] \in {"cleanup", "save"} =>
                /\ ent[s].user = req[s].user
                /\ ent[s].visitor = req[s].visitor
                /\ ent[s].role \in held[ent[s].user]
          /\ pc[s] \in {"renew", "purge"} =>
                LET o == origin[family[req[s].token]] IN
                   /\ ent[s].user = o.user
                   /\ ent[s].visitor = o.visitor
                   /\ ent[s].role = o.role
                   /\ ent[s].role \in held[ent[s].user]
                   /\ req[s].visitor \in {NoVisitor, o.visitor}

\* Until a refresh has deleted the token presented, its successor is in the
\* table, or the family was ended and neither is.
SuccessorStored ==
    \A s \in Slots : pc[s] = "purge" =>
        /\ family[new[s]] = family[req[s].token]
        /\ \/ new[s] \in DOMAIN tokens
           \/ req[s].token \notin DOMAIN tokens /\ family[new[s]] \in Ended

\* A refresh that holds an entity of an ended family is one that escaped.
HoldersEscaped ==
    \A s \in Slots :
        (pc[s] = "renew" /\ family[req[s].token] \in Ended) => family[req[s].token] \in escaped

\* The invariant that implies Provenance, SessionContinuity and EndedStaysEnded.
IInv ==
    /\ TypeOK
    /\ RequestShape
    /\ IdsDrawn
    /\ Provenance
    /\ EntityProvenance
    /\ SessionContinuity
    /\ SuccessorStored
    /\ EndedStaysEnded
    /\ HoldersEscaped
============================================================================
