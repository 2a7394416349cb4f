----------------------------- MODULE UserStore -----------------------------
(***************************************************************************)
(* AccountUserService over the table users: create, update (by the user,   *)
(* by changePassword and by an administrator) and delete, on top of        *)
(* BaseCRUDService and of TypeORM's save.  Each await on the database is   *)
(* one step, and other requests run between two steps.                     *)
(*                                                                         *)
(* An object is a function from its own properties to values; a property   *)
(* that is present and undefined maps to Undefined.  stale, intended and   *)
(* overlapped are history variables that no guard reads.                   *)
(***************************************************************************)
EXTENDS FiniteSets, Functions

CONSTANTS
    Accounts,   \* the ids a generated primary key may take
    Emails, Names, Passwords, Roles, Statuses,
    MeColumns,  \* the columns that the body of a profile update may name
    AdminBodies, \* the bodies that administrators send
    Slots,      \* requests the server handles at the same time
    AuditUp,    \* whether audit rows can be written at all
    Undefined,
    None

Columns == {"email", "fullName", "password", "role", "status"}
Row     == [email : Emails, fullName : Names, password : Passwords \cup {None},
            role : Roles, status : Statuses]
Entity  == [id : Accounts \cup {Undefined},
            email : Emails \cup {Undefined},
            fullName : Names \cup {Undefined},
            password : Passwords \cup {None, Undefined},
            role : Roles \cup {Undefined},
            status : Statuses \cup {Undefined}]

ASSUME DistinctValues ==
    /\ Undefined \notin Accounts \cup Emails \cup Names \cup Passwords \cup Roles \cup Statuses \cup {None}
    /\ None \notin Accounts \cup Emails \cup Passwords \cup Row \cup Entity
    /\ MeColumns \subseteq Columns
    /\ AdminBodies \subseteq [fullName : Names \cup {Undefined}, role : Roles \cup {Undefined},
                              status : Statuses \cup {Undefined}]
    /\ AuditUp \in BOOLEAN

VARIABLES
    users,      \* the table: a row for each id it holds
    trail,      \* the rows of the audit log about accounts
    pc,         \* the await each request is at
    req,        \* method, path and body of the request
    before,     \* what update and delete read for the audit log, if that is up
    ent,        \* the entity update will save
    stored,     \* the row save() read to compare the entity with
    created,    \* ids ever given out
    stale,      \* requests whose account was written between their read and their save
    overlapped, \* accounts two requests were changing at the same time
    intended    \* of the others, the rows that their requests, one after the other, make

local   == <<pc, req, before, ent, stored>>
history == <<created, stale, intended, overlapped>>
vars    == <<users, trail, local, history>>

Put(f, i, x) == [j \in DOMAIN f \cup {i} |-> IF j = i THEN x ELSE f[j]]
Drop(f, i)   == Restrict(f, DOMAIN f \ {i})
Lookup(u)    == IF u \in DOMAIN users THEN users[u] ELSE None

----------------------------------------------------------------------------
(* What the bodies become.  A profile update is a JSON object, and names    *)
(* some columns and not others.  The fields of a class are own properties  *)
(* of each instance, undefined until set (target ES2023): a body that      *)
(* plainToInstance turns into a UserEntity has them all.                   *)

Sent == [email |-> Emails, fullName |-> Names, password |-> Passwords,
         role |-> Roles, status |-> Statuses]

\* UpdateMeDto has fullName and email, each optional; no pipe holds a body to it.
UpdateMeData ==
    UNION {{d \in [cs -> UNION {Sent[c] : c \in cs}] : \A c \in cs : d[c] \in Sent[c]}
              : cs \in SUBSET MeColumns}

ChangePasswordData(pass) == [password |-> pass]          \* an object literal

\* UpdateUserDto has fullName, role and status, each optional.
AdminData(dto) ==
    [id |-> Undefined, email |-> Undefined, fullName |-> dto.fullName, password |-> Undefined,
     role |-> dto.role, status |-> dto.status]

\* Mutated: the entity read from the table wins.
Assigned_EntityWins(entity, data) == entity

\* Object.assign(entity, data)
Assigned(entity, data) ==
    [p \in DOMAIN entity |-> IF p \in DOMAIN data THEN data[p] ELSE entity[p]]

Loaded(u, row) == [id |-> u, email |-> row.email, fullName |-> row.fullName,
                   password |-> row.password, role |-> row.role, status |-> row.status]
Columnar(e)    == [email |-> e.email, fullName |-> e.fullName,
                   password |-> e.password, role |-> e.role, status |-> e.status]

\* Mutated: every column that is set is written.
Dirty_All(entity, row) == {c \in Columns : entity[c] # Undefined}

\* save() writes the columns that are set and differ from the row it read
Dirty(entity, row) == {c \in Columns : entity[c] # Undefined /\ entity[c] # row[c]}

\* Mutated: the column is not unique.
EmailFree_NotUnique(email, u) == TRUE

EmailFree(email, u) == \A w \in DOMAIN users \ {u} : users[w].email # email

----------------------------------------------------------------------------
(* Requests.                                                               *)

Requests(u) ==
    [op : {"updateMe"}, account : {u}, data : UpdateMeData]
    \cup [op : {"changePassword"}, account : {u}, current : Passwords,
          data : {ChangePasswordData(p) : p \in Passwords}]
    \cup [op : {"adminUpdate"}, account : {u}, data : {AdminData(dto) : dto \in AdminBodies}]
    \cup [op : {"delete"}, account : {u}]

CreateRequests == [op : {"create"}, row : Row]

FirstAwait(op) ==
    CASE op = "create"         -> "insert"
      [] op = "changePassword" -> "verify"
      [] OTHER                 -> "before"

Arrive(s, r) ==
    /\ pc[s] = "idle"
    /\ pc'  = [pc EXCEPT ![s] = FirstAwait(r.op)]
    /\ req' = [req EXCEPT ![s] = r]
    /\ UNCHANGED <<users, trail, before, ent, stored, created, stale>>

\* Bound: an account is created only while Accounts lasts for every request in flight.
CreateArrive(s) ==
    /\ Cardinality({t \in Slots : pc[t] = "insert"}) < Cardinality(Accounts \ created)
    /\ \E r \in CreateRequests : Arrive(s, r) /\ UNCHANGED <<intended, overlapped>>

\* Access tokens outlive their account: u need only have existed.
ChangeArrive(s) ==
    \E u \in created : \E r \in Requests(u) :
        /\ Arrive(s, r)
        /\ overlapped' = overlapped \cup
              {w \in {u} : \E t \in Slots : pc[t] \notin {"idle", "insert"} /\ req[t].op # "create"
                                            /\ req[t].account = u}
        /\ intended' = Restrict(intended, DOMAIN intended \ overlapped')

Goto(s, next) == pc' = [pc EXCEPT ![s] = next] /\ UNCHANGED req

Finish(s) ==
    /\ pc'     = [pc EXCEPT ![s] = "idle"]
    /\ req'    = [req EXCEPT ![s] = None]
    /\ before' = [before EXCEPT ![s] = None]
    /\ ent'    = [ent EXCEPT ![s] = None]
    /\ stored' = [stored EXCEPT ![s] = None]
    /\ stale'  = stale \ {s}

\* The handler throws: the client gets 400, 404 or 500.
Reject(s) == Finish(s) /\ UNCHANGED <<users, trail, created, intended, overlapped>>

\* Requests that have read the row of u and will save what they read.
Readers(u) == {t \in Slots : pc[t] = "load" /\ req[t].account = u}

Insert(s) ==
    /\ pc[s] = "insert"
    /\ EmailFree(req[s].row.email, None)
    /\ \E u \in Accounts \ created :
          /\ users'    = Put(users, u, req[s].row)
          /\ created'  = created \cup {u}
          /\ intended' = Put(intended, u, req[s].row)
          /\ ent'      = [ent EXCEPT ![s] = Loaded(u, req[s].row)]
    /\ Goto(s, "audit")
    /\ UNCHANGED <<trail, before, stored, stale, overlapped>>

InsertReject(s) ==
    /\ pc[s] = "insert"
    /\ ~ EmailFree(req[s].row.email, None)
    /\ Reject(s)

\* changePassword: findOne, then compare with the password read
Verify(s) ==
    /\ pc[s] = "verify"
    /\ req[s].account \in DOMAIN users
    /\ users[req[s].account].password = req[s].current
    /\ Goto(s, "before")
    /\ UNCHANGED <<users, trail, before, ent, stored, history>>

VerifyReject(s) ==
    /\ pc[s] = "verify"
    /\ req[s].account \in DOMAIN users => users[req[s].account].password # req[s].current
    /\ Reject(s)

ReadBefore(s) ==
    /\ pc[s] = "before"
    /\ before' = [before EXCEPT ![s] = IF AuditUp THEN Lookup(req[s].account) ELSE None]
    /\ Goto(s, IF req[s].op = "delete" THEN "remove" ELSE "read")
    /\ UNCHANGED <<users, trail, ent, stored, history>>

\* BaseCRUDService.update: findOne, 404 or Object.assign
Read(s) ==
    /\ pc[s] = "read"
    /\ req[s].account \in DOMAIN users
    /\ ent' = [ent EXCEPT ![s] = Assigned(Loaded(req[s].account, users[req[s].account]), req[s].data)]
    /\ Goto(s, "load")
    /\ UNCHANGED <<users, trail, before, stored, history>>

\* Mutated: an account that is not found is made up from the body.
ReadReject_Upsert(s) ==
    /\ pc[s] = "read"
    /\ req[s].account \notin DOMAIN users
    /\ \E n \in Names, role \in Roles, status \in Statuses :
          ent' = [ent EXCEPT ![s] = Assigned([id |-> req[s].account, email |-> Undefined,
                                              fullName |-> n, password |-> None,
                                              role |-> role, status |-> status], req[s].data)]
    /\ Goto(s, "load")
    /\ UNCHANGED <<users, trail, before, stored, history>>

ReadReject(s) ==
    /\ pc[s] = "read"
    /\ req[s].account \notin DOMAIN users
    /\ Reject(s)

\* save(): the row with the id of the entity, if it has one
Load(s) ==
    /\ pc[s] = "load"
    /\ stored' = [stored EXCEPT ![s] = IF ent[s].id = Undefined THEN None ELSE Lookup(ent[s].id)]
    /\ Goto(s, "write")
    /\ UNCHANGED <<users, trail, before, ent, history>>

\* save() returns: what it compared with is gone.
Saved(s) ==
    /\ Goto(s, "audit")
    /\ stored' = [stored EXCEPT ![s] = None]
    /\ UNCHANGED <<trail, before, ent, created, overlapped>>

Intend(s) ==
    LET u == req[s].account
        d == req[s].data
    IN  intended' = [w \in DOMAIN intended |->
            IF w # u THEN intended[w]
            ELSE [c \in Columns |-> IF c \in DOMAIN d /\ d[c] # Undefined THEN d[c] ELSE intended[u][c]]]

\* UPDATE ... SET the dirty columns WHERE id; no row is no error
WriteUpdate(s) ==
    /\ pc[s] = "write"
    /\ stored[s] # None
    /\ LET u == ent[s].id
           dirty == Dirty(ent[s], stored[s])
       IN  /\ u \in DOMAIN users /\ "email" \in dirty => EmailFree(ent[s].email, u)
           /\ IF u \in DOMAIN users
              THEN /\ users' = [users EXCEPT ![u] =
                                   [c \in Columns |-> IF c \in dirty THEN ent[s][c] ELSE users[u][c]]]
                   /\ stale' = stale \cup {t \in Readers(u) : dirty # {}}
                   /\ Intend(s)
              ELSE UNCHANGED <<users, stale, intended>>
    /\ Saved(s)

\* save() found no row: INSERT, which the NOT NULL columns refuse if undefined
WriteInsert(s) ==
    /\ pc[s] = "write"
    /\ stored[s] = None
    /\ ent[s].id \in Accounts \ DOMAIN users
    /\ ent[s].email # Undefined
    /\ EmailFree(ent[s].email, ent[s].id)
    /\ users' = Put(users, ent[s].id, Columnar(ent[s]))
    /\ intended' = IF ent[s].id \in overlapped THEN intended
                   ELSE Put(intended, ent[s].id, Columnar(ent[s]))
    /\ stale' = stale \cup Readers(ent[s].id)
    /\ Saved(s)

WriteReject(s) ==
    /\ pc[s] = "write"
    /\ \/ /\ stored[s] # None /\ ent[s].id \in DOMAIN users
          /\ "email" \in Dirty(ent[s], stored[s]) /\ ~ EmailFree(ent[s].email, ent[s].id)
       \/ stored[s] = None /\ \/ ent[s].id \notin Accounts \ DOMAIN users
                              \/ ent[s].email = Undefined
                              \/ ~ EmailFree(ent[s].email, ent[s].id)
    /\ Reject(s)

Remove(s) ==
    /\ pc[s] = "remove"
    /\ users'    = Drop(users, req[s].account)
    /\ intended' = Drop(intended, req[s].account)
    /\ stale'    = stale \cup Readers(req[s].account)
    /\ Goto(s, "audit")
    /\ UNCHANGED <<trail, before, ent, stored, created, overlapped>>

----------------------------------------------------------------------------
(* The audit log.                                                          *)

Payload(action, old, new) == [action |-> action, oldData |-> old, newData |-> new]

\* CreateAuditHandler copies command.oldValue and command.newValue
Property(object, p) == IF p \in DOMAIN object THEN object[p] ELSE Undefined
Recorded(payload) ==
    [action   |-> payload.action,
     oldValue |-> Property(payload, "oldValue"),
     newValue |-> Property(payload, "newValue")]

\* logAudit swallows every error
LogAudit(payload) ==
    trail' \in {trail} \cup IF AuditUp THEN {trail \cup {Recorded(payload)}} ELSE {}

ActionOf(op) ==
    CASE op = "create" -> "USER.CREATE" [] op = "delete" -> "USER.DELETE" [] OTHER -> "USER.UPDATE"

Audit(s) ==
    /\ pc[s] = "audit"
    /\ LogAudit(Payload(ActionOf(req[s].op), before[s], ent[s]))
    /\ IF req[s].op = "changePassword"
       THEN Goto(s, "auditChange") /\ UNCHANGED <<before, ent, stored, stale>>
       ELSE Finish(s)
    /\ UNCHANGED <<users, created, intended, overlapped>>

AuditChange(s) ==
    /\ pc[s] = "auditChange"
    /\ LogAudit(Payload("USER.CHANGE_PASSWORD", before[s], ent[s]))
    /\ Finish(s)
    /\ UNCHANGED <<users, created, intended, overlapped>>

\* An await rejects, whether or not the database did what it was asked, or the
\* server stops.
Fail(s) == pc[s] # "idle" /\ Reject(s)

----------------------------------------------------------------------------
Init ==
    /\ users = [u \in {} |-> None]
    /\ trail = {}
    /\ pc     = [s \in Slots |-> "idle"]
    /\ req    = [s \in Slots |-> None]
    /\ before = [s \in Slots |-> None]
    /\ ent    = [s \in Slots |-> None]
    /\ stored = [s \in Slots |-> None]
    /\ created = {} /\ stale = {} /\ overlapped = {}
    /\ intended = [u \in {} |-> None]

Handle(s) ==
    \/ Insert(s) \/ InsertReject(s)
    \/ Verify(s) \/ VerifyReject(s)
    \/ ReadBefore(s) \/ Read(s) \/ ReadReject(s)
    \/ Load(s) \/ WriteUpdate(s) \/ WriteInsert(s) \/ WriteReject(s)
    \/ Remove(s)
    \/ Audit(s) \/ AuditChange(s)
    \/ Fail(s)

Next == \E s \in Slots : CreateArrive(s) \/ ChangeArrive(s) \/ Handle(s)

Spec == Init /\ [][Next]_vars

----------------------------------------------------------------------------
\* Type invariant; the unique index on email keeps the rows apart.
TypeOK ==
    /\ DOMAIN users \subseteq created /\ created \subseteq Accounts
    /\ \A u \in DOMAIN users : users[u] \in Row
    /\ \A u, w \in DOMAIN users : users[u].email = users[w].email => u = w
    /\ pc \in [Slots -> {"idle", "insert", "verify", "before", "read", "load", "write",
                         "remove", "audit", "auditChange"}]
    /\ before \in [Slots -> Row \cup {None}]
    /\ ent \in [Slots -> Entity \cup {None}]
    /\ stored \in [Slots -> Row \cup {None}]
    /\ stale \subseteq Slots
    /\ overlapped \subseteq created
    /\ DOMAIN intended = DOMAIN users \ overlapped

\* As long as the requests on an account do not overlap, its row is what they
\* say, one after the other: no column is lost, kept or made up on the way
\* through findOne, Object.assign and save.
SerialRows ==
    \A u \in DOMAIN intended : users[u] = intended[u]

\* update() saves a whole entity, but changes a column the request does not
\* set only if the row was written between its findOne and the read that
\* save() makes: a write that lands later is kept.
OnlyOwnColumns ==
    [][\A s \in Slots \ stale :
          LET u == req[s].account IN
             (pc[s] = "write" /\ pc'[s] = "audit" /\ u \in DOMAIN users) =>
                 \A c \in Columns : users'[u][c] # users[u][c] => c \in DOMAIN req[s].data]_vars

\* Whatever overlaps or fails, the table goes through creations, changes of the
\* columns of one form and deletions for good, as AccountRecords says: a profile
\* update leaves the password, and a password change the profile, although each
\* saves a whole entity.  An update writes back, or brings back, what it read
\* only if the account was written, or deleted, between its findOne and the read
\* that save() makes.
Forms == {MeColumns, {"password"}}

Exposed == {req[s].account : s \in {t \in stale : pc[t] \in {"load", "write"}}}

Records == INSTANCE AccountRecords WITH
    Rows <- Row, Forms <- Forms, rows <- users, ever <- created, exposed <- Exposed

ImplementsAccounts == Records!Spec

\* POST change-password answers "Password changed successfully"; nothing but
\* that route would change a password.
OnlyChangePasswordChangesPasswords ==
    [][\A u \in DOMAIN users \cap DOMAIN users' :
          users'[u].password # users[u].password =>
              \E s \in Slots : /\ pc[s] = "write" /\ req[s].op = "changePassword"
                               /\ req[s].account = u]_vars

\* AuditLogDto: oldValue is the "Previous value of the resource" and newValue
\* the "New value of the resource"; an update has both.
UpdatesAuditedWithValues ==
    \A row \in trail : row.action = "USER.UPDATE" =>
        row.oldValue # Undefined /\ row.newValue # Undefined
============================================================================
