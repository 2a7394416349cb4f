-------------------------- MODULE UserStoreProofs --------------------------
(***************************************************************************)
(* Theorems about AccountUserService over the table users, for any number  *)
(* of accounts and requests, any values of the columns, and whatever       *)
(* columns a profile update may name: it implements AccountRecords, keeps  *)
(* the columns that a body does not name, and is serial for accounts whose *)
(* requests do not overlap.                                                *)
(*                                                                         *)
(* IInv says what a request holds between its findOne and its UPDATE: as   *)
(* long as the account has not been written, the entity differs from the   *)
(* row in columns of the body only.  SerialInv adds what it holds if it is *)
(* the only request on the account.                                        *)
(***************************************************************************)
EXTENDS UserStore, TLAPS

Changes == UNION {Requests(u) : u \in created}

\* A request is what its route takes, and only an update saves an entity.
RequestShape ==
    /\ DOMAIN req = Slots
    /\ \A s \in Slots :
        /\ pc[s] = "insert" => req[s] \in CreateRequests
        /\ pc[s] \in {"verify", "before", "read", "load", "write", "remove"} => req[s] \in Changes
        /\ pc[s] \in {"read", "load", "write"} => req[s].op # "delete"

\* The entity of an administrator's update has no id; any other is whole.
Whole(s) ==
    /\ req[s].op \in {"updateMe", "changePassword"}
    /\ ent[s].id = req[s].account
    /\ Columnar(ent[s]) \in Row

EntityShape ==
    \A s \in Slots : pc[s] \in {"load", "write"} =>
        /\ ent[s] \in Entity
        /\ ent[s].id = Undefined \/ Whole(s)

\* The entity and the row agree but for columns that the body names.
But(entity, row, data) == \A c \in Columns \ DOMAIN data : entity[c] = row[c]

\* What a request read is what is there, until somebody writes the account.
EntityFresh ==
    \A s \in Slots \ stale :
        /\ (pc[s] = "load" /\ ent[s].id # Undefined) =>
              /\ req[s].account \in DOMAIN users
              /\ But(ent[s], users[req[s].account], req[s].data)
        /\ (pc[s] = "write" /\ ent[s].id # Undefined) =>
              stored[s] # None /\ But(ent[s], stored[s], req[s].data)

\* save() looks for no row where the entity has no id.
NoIdNoRow ==
    \A s \in Slots : (pc[s] = "write" /\ ent[s].id = Undefined) => stored[s] = None

\* A request is stale from its read on.
StaleAfterRead ==
    \A s \in stale : pc[s] \in {"load", "write", "audit", "auditChange"}

IInv ==
    /\ TypeOK
    /\ RequestShape
    /\ EntityShape
    /\ EntityFresh
    /\ NoIdNoRow
    /\ StaleAfterRead

----------------------------------------------------------------------------
(* What Object.assign makes of the row that was read.                      *)

\* A profile update names columns that it may name, with values they may have.
LEMMA BodyOfMe ==
    ASSUME NEW d \in UpdateMeData
    PROVE  DOMAIN d \subseteq MeColumns /\ \A c \in DOMAIN d : d[c] \in Sent[c]
BY DEF UpdateMeData

\* The entity that update() will save has the values of its row but for the
\* columns of the body, and no id if the body is an administrator's.
LEMMA AssignedEntity ==
    ASSUME NEW u \in Accounts, NEW row \in Row, NEW r \in Requests(u), r.op # "delete"
    PROVE  LET e == Assigned(Loaded(u, row), r.data) IN
           /\ e \in Entity
           /\ \/ e.id = Undefined
              \/ e.id = u /\ Columnar(e) \in Row /\ r.op \in {"updateMe", "changePassword"}
           /\ e.id # Undefined => But(e, row, r.data)
<1> DEFINE e == Assigned(Loaded(u, row), r.data)
<1>1. CASE r.op = "updateMe"
  <2>1. /\ DOMAIN r.data \subseteq Columns
        /\ \A c \in DOMAIN r.data : r.data[c] \in Sent[c]
    <3>1. r.data \in UpdateMeData
      BY <1>1 DEF Requests
    <3> QED BY <3>1, BodyOfMe, DistinctValues
  <2> DEFINE Of(c) == IF c \in DOMAIN r.data THEN r.data[c] ELSE row[c]
  <2>2. /\ Of("email") \in Emails /\ Of("fullName") \in Names
        /\ Of("password") \in Passwords \cup {None}
        /\ Of("role") \in Roles /\ Of("status") \in Statuses
    BY <2>1 DEF Sent, Row
  <2>3. "id" \notin DOMAIN r.data
    BY <2>1 DEF Columns
  <2>4. e = [id |-> u, email |-> Of("email"), fullName |-> Of("fullName"),
             password |-> Of("password"), role |-> Of("role"), status |-> Of("status")]
    BY <2>3 DEF Assigned, Loaded
  <2>5. \A c \in Columns \ DOMAIN r.data : e[c] = row[c]
    BY <2>4 DEF Columns
  <2> HIDE DEF Of
  <2>6. e \in Entity /\ e.id = u /\ Columnar(e) \in Row
    BY <2>2, <2>4 DEF Entity, Columnar, Row
  <2> QED BY <1>1, <2>5, <2>6 DEF But
<1>2. CASE r.op = "changePassword"
  <2>1. r.data \in [password : Passwords]
    BY <1>2 DEF Requests, ChangePasswordData
  <2>2. e = [id |-> u, email |-> row.email, fullName |-> row.fullName,
             password |-> r.data.password, role |-> row.role, status |-> row.status]
    BY <2>1 DEF Assigned, Loaded
  <2>3. \A c \in Columns \ DOMAIN r.data : e[c] = row[c]
    BY <2>1, <2>2 DEF Columns
  <2>4. e \in Entity /\ e.id = u /\ Columnar(e) \in Row
    BY <2>1, <2>2 DEF Entity, Columnar, Row
  <2> QED BY <1>2, <2>3, <2>4 DEF But
<1>3. CASE r.op = "adminUpdate"
  <2>1. PICK dto \in AdminBodies : r.data = AdminData(dto)
    BY <1>3 DEF Requests
  <2>2. e = r.data
    BY <2>1 DEF Assigned, Loaded, AdminData
  <2> QED BY <2>1, <2>2, DistinctValues DEF Entity, AdminData
<1> QED BY <1>1, <1>2, <1>3 DEF Requests

\* What a profile update or a password change names is of one form.
LEMMA OneForm ==
    ASSUME NEW u, NEW r \in Requests(u), r.op \in {"updateMe", "changePassword"}
    PROVE  \E form \in Forms : DOMAIN r.data \subseteq form
<1>1. CASE r.op = "updateMe"
  <2>1. r.data \in UpdateMeData
    BY <1>1 DEF Requests
  <2> QED BY <2>1, BodyOfMe DEF Forms
<1>2. CASE r.op = "changePassword"
  BY <1>2 DEF Requests, ChangePasswordData, Forms
<1> QED BY <1>1, <1>2

\* No row, account or entity is None, and no id is Undefined.
LEMMA Distinguished ==
    /\ \A row \in Row : row # None
    /\ \A u \in Accounts : u # None /\ u # Undefined
    /\ \A e \in Entity : e # None
BY DistinctValues

----------------------------------------------------------------------------
(* Steps that write no row.                                                *)

\* A request that ends, answered or refused, leaves the others as they were.
LEMMA FinishStep ==
    ASSUME IInv, NEW s \in Slots, Finish(s), UNCHANGED <<users, created, intended, overlapped>>
    PROVE  IInv' /\ Exposed' \subseteq Exposed
<1>1. /\ pc' = [pc EXCEPT ![s] = "idle"] /\ req' = [req EXCEPT ![s] = None]
      /\ before' = [before EXCEPT ![s] = None] /\ ent' = [ent EXCEPT ![s] = None]
      /\ stored' = [stored EXCEPT ![s] = None] /\ stale' = stale \ {s}
  BY DEF Finish
<1>2. pc'[s] = "idle" /\ \A t \in Slots \ {s} : /\ pc'[t] = pc[t] /\ req'[t] = req[t]
                                              /\ ent'[t] = ent[t] /\ stored'[t] = stored[t]
  BY <1>1 DEF IInv, TypeOK, RequestShape
<1>3. TypeOK'
  BY <1>1 DEF IInv, TypeOK
<1>4. RequestShape'
  BY <1>1, <1>2 DEF IInv, RequestShape, Changes
<1>5. EntityShape'
  BY <1>2 DEF IInv, EntityShape, Whole
<1>6. EntityFresh'
  BY <1>1, <1>2 DEF IInv, EntityFresh
<1>7. NoIdNoRow' /\ StaleAfterRead'
  BY <1>1, <1>2 DEF IInv, TypeOK, NoIdNoRow, StaleAfterRead
<1>8. Exposed' \subseteq Exposed
  BY <1>1, <1>2 DEF IInv, TypeOK, Exposed
<1> QED BY <1>3, <1>4, <1>5, <1>6, <1>7, <1>8 DEF IInv

\* A request that comes in has read nothing.
LEMMA ArriveStep ==
    ASSUME IInv, NEW s \in Slots, CreateArrive(s) \/ ChangeArrive(s)
    PROVE  IInv' /\ Exposed' \subseteq Exposed
<1>1. /\ pc[s] = "idle" /\ s \notin stale
      /\ UNCHANGED <<users, trail, before, ent, stored, created, stale>>
  BY DEF CreateArrive, ChangeArrive, Arrive, IInv, StaleAfterRead
<1>2. PICK r : /\ pc' = [pc EXCEPT ![s] = FirstAwait(r.op)]
               /\ req' = [req EXCEPT ![s] = r]
               /\ r \in CreateRequests \/ r \in Changes
               /\ overlapped' \subseteq overlapped \cup created
               /\ DOMAIN intended' = DOMAIN users \ overlapped'
  BY DEF CreateArrive, ChangeArrive, Arrive, Changes, Restrict, IInv, TypeOK
<1>3. \/ r \in CreateRequests /\ pc'[s] = "insert"
      \/ r \in Changes /\ pc'[s] \in {"verify", "before"}
  <2>1. CASE r \in CreateRequests
    BY <1>2, <2>1 DEF CreateRequests, FirstAwait, IInv, TypeOK
  <2>2. CASE r \in Changes
    <3>1. r.op \in {"updateMe", "changePassword", "adminUpdate", "delete"}
      BY <2>2 DEF Changes, Requests
    <3> QED BY <1>2, <2>2, <3>1 DEF FirstAwait, IInv, TypeOK
  <2> QED BY <1>2, <2>1, <2>2
<1>4. req'[s] = r /\ \A t \in Slots \ {s} : pc'[t] = pc[t] /\ req'[t] = req[t]
  BY <1>2 DEF IInv, TypeOK, RequestShape
<1>5. TypeOK'
  BY <1>1, <1>2, <1>3 DEF IInv, TypeOK
<1>6. RequestShape'
  BY <1>1, <1>2, <1>3, <1>4 DEF IInv, RequestShape, Changes
<1>7. EntityShape' /\ EntityFresh' /\ NoIdNoRow' /\ StaleAfterRead'
  BY <1>1, <1>3, <1>4 DEF IInv, TypeOK, EntityShape, Whole, EntityFresh, NoIdNoRow, StaleAfterRead
<1>8. Exposed' \subseteq Exposed
  BY <1>1, <1>4 DEF IInv, TypeOK, Exposed
<1> QED BY <1>5, <1>6, <1>7, <1>8 DEF IInv

\* A request that goes from one await to the next, and reads nothing it will
\* save, or has it saved already.
LEMMA GotoStep ==
    ASSUME IInv, NEW s \in Slots, NEW next,
           \/ pc[s] = "audit" /\ next = "auditChange"
           \/ pc[s] \in {"verify", "before"} /\ next \in {"before", "remove"}
           \/ pc[s] = "before" /\ next = "read" /\ req[s].op # "delete",
           Goto(s, next),
           before' \in [Slots -> Row \cup {None}],
           UNCHANGED <<users, ent, stored, history>>
    PROVE  IInv' /\ Exposed' \subseteq Exposed
<1>1. pc'[s] = next /\ \A t \in Slots \ {s} : pc'[t] = pc[t]
  BY DEF Goto, IInv, TypeOK
<1>2. TypeOK'
  BY DEF Goto, history, IInv, TypeOK
<1>3. RequestShape'
  BY <1>1 DEF Goto, history, IInv, RequestShape, Changes
<1>4. EntityShape' /\ EntityFresh' /\ NoIdNoRow' /\ StaleAfterRead'
  BY <1>1 DEF Goto, history, IInv, TypeOK, EntityShape, Whole, EntityFresh, NoIdNoRow, StaleAfterRead
<1>5. Exposed' \subseteq Exposed
  BY <1>1 DEF Goto, history, IInv, TypeOK, Exposed
<1> QED BY <1>2, <1>3, <1>4, <1>5 DEF IInv

\* update() finds the account: what it will save is the row but for the columns
\* of the body.
LEMMA ReadStep ==
    ASSUME IInv, NEW s \in Slots, Read(s)
    PROVE  IInv' /\ Exposed' \subseteq Exposed
<1> DEFINE u == req[s].account
           e == Assigned(Loaded(u, users[u]), req[s].data)
<1>1. /\ pc[s] = "read" /\ u \in DOMAIN users /\ s \notin stale
      /\ ent' = [ent EXCEPT ![s] = e] /\ pc' = [pc EXCEPT ![s] = "load"]
      /\ UNCHANGED <<users, req, before, stored, created, stale, intended, overlapped>>
  BY DEF Read, Goto, history, IInv, StaleAfterRead
<1>2. req[s] \in Requests(u) /\ req[s].op # "delete" /\ u \in Accounts /\ users[u] \in Row
  BY <1>1 DEF IInv, TypeOK, RequestShape, Changes, Requests
<1>3. /\ e \in Entity
      /\ \/ e.id = Undefined
         \/ e.id = u /\ Columnar(e) \in Row /\ req[s].op \in {"updateMe", "changePassword"}
      /\ e.id # Undefined => But(e, users[u], req[s].data)
  BY <1>2, AssignedEntity
<1> HIDE DEF e
<1>4. /\ pc'[s] = "load" /\ ent'[s] = e
      /\ \A t \in Slots \ {s} : pc'[t] = pc[t] /\ ent'[t] = ent[t]
  BY <1>1 DEF IInv, TypeOK
<1>5. TypeOK'
  BY <1>1, <1>3 DEF IInv, TypeOK
<1>6. RequestShape'
  BY <1>1, <1>4 DEF IInv, RequestShape, Changes
<1>7. EntityShape'
  BY <1>1, <1>3, <1>4 DEF IInv, EntityShape, Whole
<1>8. EntityFresh'
  BY <1>1, <1>3, <1>4 DEF IInv, EntityFresh
<1>9. NoIdNoRow' /\ StaleAfterRead' /\ Exposed' \subseteq Exposed
  BY <1>1, <1>4 DEF IInv, TypeOK, NoIdNoRow, StaleAfterRead, Exposed
<1> QED BY <1>5, <1>6, <1>7, <1>8, <1>9 DEF IInv

\* save() reads the row again: it is the one update() read, unless somebody
\* wrote the account in between.
LEMMA LoadStep ==
    ASSUME IInv, NEW s \in Slots, Load(s)
    PROVE  IInv' /\ Exposed' \subseteq Exposed
<1> DEFINE row == IF ent[s].id = Undefined THEN None ELSE Lookup(ent[s].id)
<1>1. /\ pc[s] = "load" /\ pc' = [pc EXCEPT ![s] = "write"]
      /\ stored' = [stored EXCEPT ![s] = row]
      /\ UNCHANGED <<users, req, before, ent, created, stale, intended, overlapped>>
  BY DEF Load, Goto, history
<1>2. row \in Row \cup {None}
  BY DEF Lookup, IInv, TypeOK
<1>3. /\ pc'[s] = "write" /\ stored'[s] = row
      /\ \A t \in Slots \ {s} : pc'[t] = pc[t] /\ stored'[t] = stored[t]
  BY <1>1 DEF IInv, TypeOK
<1>4. ent[s].id = Undefined => row = None
  OBVIOUS
<1>5. (s \notin stale /\ ent[s].id # Undefined) => row # None /\ But(ent[s], row, req[s].data)
  <2> SUFFICES ASSUME s \notin stale, ent[s].id # Undefined
               PROVE  row # None /\ But(ent[s], row, req[s].data)
    OBVIOUS
  <2>1. /\ ent[s].id = req[s].account /\ req[s].account \in DOMAIN users
        /\ But(ent[s], users[req[s].account], req[s].data)
    BY <1>1 DEF IInv, EntityShape, Whole, EntityFresh
  <2>2. row = users[req[s].account] /\ row \in Row
    BY <2>1 DEF Lookup, IInv, TypeOK
  <2> QED BY <2>1, <2>2, Distinguished
<1> HIDE DEF row
<1>6. TypeOK'
  BY <1>1, <1>2 DEF IInv, TypeOK
<1>7. RequestShape'
  BY <1>1, <1>3 DEF IInv, RequestShape, Changes
<1>8. EntityShape'
  BY <1>1, <1>3 DEF IInv, EntityShape, Whole
<1>9. EntityFresh'
  BY <1>1, <1>3, <1>5 DEF IInv, EntityFresh
<1>10. NoIdNoRow' /\ StaleAfterRead' /\ Exposed' \subseteq Exposed
  BY <1>1, <1>3, <1>4 DEF IInv, TypeOK, NoIdNoRow, StaleAfterRead, Exposed
<1> QED BY <1>6, <1>7, <1>8, <1>9, <1>10 DEF IInv

----------------------------------------------------------------------------
(* Steps that write a row.                                                 *)

\* What a write leaves of the others: it makes those stale that have read the
\* account and not compared it yet, and exposes no other account.
LEMMA Overtaken ==
    ASSUME IInv, NEW s \in Slots, NEW u, NEW fresh, fresh \subseteq Readers(u),
           pc[s] # "load",
           Goto(s, "audit"), stale' = stale \cup fresh
    PROVE  /\ StaleAfterRead'
           /\ Exposed' \subseteq Exposed \cup {u}
<1>1. /\ pc'[s] = "audit" /\ \A t \in Slots \ {s} : pc'[t] = pc[t]
      /\ fresh \subseteq Slots \ {s} /\ \A t \in fresh : pc[t] = "load" /\ req[t].account = u
      /\ req' = req
  BY DEF Goto, Readers, IInv, TypeOK
<1>2. StaleAfterRead'
  BY <1>1 DEF IInv, TypeOK, StaleAfterRead
<1>3. Exposed' \subseteq Exposed \cup {u}
  BY <1>1 DEF IInv, TypeOK, Exposed
<1> QED BY <1>2, <1>3

\* create() inserts a row under a new id: accounts are created once.
LEMMA InsertStep ==
    ASSUME IInv, NEW s \in Slots, Insert(s)
    PROVE  IInv' /\ Records!Next
<1> DEFINE row == req[s].row
<1>1. PICK u \in Accounts \ created :
         /\ users' = Put(users, u, row) /\ created' = created \cup {u}
         /\ intended' = Put(intended, u, row)
         /\ ent' = [ent EXCEPT ![s] = Loaded(u, row)]
  BY DEF Insert
<1>2. /\ pc[s] = "insert" /\ pc' = [pc EXCEPT ![s] = "audit"] /\ EmailFree(row.email, None)
      /\ s \notin stale /\ UNCHANGED <<req, before, stored, stale, overlapped>>
  BY DEF Insert, Goto, IInv, StaleAfterRead
<1>3. row \in Row
  BY <1>2 DEF IInv, RequestShape, CreateRequests
<1>4. \A w \in DOMAIN users : users[w].email # row.email
  BY <1>2, Distinguished DEF EmailFree, IInv, TypeOK
<1>5. /\ DOMAIN users' = DOMAIN users \cup {u} /\ users'[u] = row
      /\ \A w \in DOMAIN users : users'[w] = users[w]
      /\ DOMAIN intended' = DOMAIN intended \cup {u} /\ u \notin overlapped
  BY <1>1 DEF Put, IInv, TypeOK
<1>6. pc'[s] = "audit" /\ \A t \in Slots \ {s} : pc'[t] = pc[t] /\ ent'[t] = ent[t]
  BY <1>1, <1>2 DEF IInv, TypeOK
<1>7. Loaded(u, row) \in Entity
  BY <1>3 DEF Loaded, Row, Entity
<1>8. TypeOK'
  BY <1>1, <1>2, <1>3, <1>4, <1>5, <1>7 DEF IInv, TypeOK
<1>9. RequestShape'
  BY <1>1, <1>2, <1>6 DEF IInv, RequestShape, Changes
<1>10. EntityShape' /\ NoIdNoRow' /\ StaleAfterRead'
  BY <1>2, <1>6 DEF IInv, TypeOK, EntityShape, Whole, NoIdNoRow, StaleAfterRead
<1>11. EntityFresh'
  BY <1>2, <1>5, <1>6 DEF IInv, EntityFresh
<1>12. Exposed' = Exposed
  BY <1>2, <1>6 DEF IInv, TypeOK, Exposed
<1>13. Records!Create(u, row)
  BY <1>1, <1>12 DEF Records!Create, Records!Written, Put
<1>14. Records!UniqueEmails'
  BY <1>8 DEF TypeOK, Records!UniqueEmails
<1> QED BY <1>1, <1>3, <1>8, <1>9, <1>10, <1>11, <1>13, <1>14 DEF IInv, Records!Next

\* delete() takes the row away, whether or not it is there.
LEMMA RemoveStep ==
    ASSUME IInv, NEW s \in Slots, Remove(s)
    PROVE  IInv' /\ Records!Next
<1> DEFINE u == req[s].account
<1>1. /\ pc[s] = "remove" /\ Goto(s, "audit") /\ stale' = stale \cup Readers(u)
      /\ users' = Drop(users, u) /\ intended' = Drop(intended, u)
      /\ UNCHANGED <<before, ent, stored, created, overlapped>>
  BY DEF Remove
<1>2. u \in created /\ u \in Accounts
  BY <1>1 DEF IInv, TypeOK, RequestShape, Changes, Requests
<1>3. /\ DOMAIN users' = DOMAIN users \ {u} /\ \A w \in DOMAIN users \ {u} : users'[w] = users[w]
      /\ DOMAIN intended' = DOMAIN intended \ {u}
  BY <1>1 DEF Drop, Restrict, IInv, TypeOK
<1>4. pc'[s] = "audit" /\ req' = req /\ \A t \in Slots \ {s} : pc'[t] = pc[t]
  BY <1>1 DEF Goto, IInv, TypeOK
<1>5. TypeOK'
  BY <1>1, <1>3 DEF Goto, Readers, IInv, TypeOK
<1>6. RequestShape'
  BY <1>1, <1>4 DEF IInv, RequestShape, Changes
<1>7. EntityShape' /\ NoIdNoRow'
  BY <1>1, <1>4 DEF IInv, EntityShape, Whole, NoIdNoRow
<1>8. EntityFresh'
  BY <1>1, <1>3, <1>4 DEF Readers, IInv, EntityFresh
<1>9. StaleAfterRead' /\ Exposed' \subseteq Exposed \cup {u}
  <2> HIDE DEF u
  <2>1. pc[s] # "load" /\ Readers(u) \subseteq Readers(u)
    BY <1>1
  <2> QED BY <1>1, <2>1, Overtaken
<1>10. Records!Delete(u)
  BY <1>1, <1>2, <1>9 DEF Records!Delete, Records!Exposes, Records!Restrict, Restrict, Drop
<1>11. Records!UniqueEmails'
  BY <1>5 DEF TypeOK, Records!UniqueEmails
<1> QED BY <1>2, <1>5, <1>6, <1>7, <1>8, <1>9, <1>10, <1>11 DEF IInv, Records!Next

\* save() inserts a row that it did not find: only for an account that was
\* deleted after update() had read it.
LEMMA WriteInsertStep ==
    ASSUME IInv, NEW s \in Slots, WriteInsert(s)
    PROVE  IInv' /\ Records!Next
<1> DEFINE u == req[s].account
           row == Columnar(ent[s])
<1>1. /\ pc[s] = "write" /\ stored[s] = None /\ ent[s].id \in Accounts \ DOMAIN users
      /\ ent[s].email # Undefined /\ EmailFree(ent[s].email, ent[s].id)
      /\ Goto(s, "audit") /\ stale' = stale \cup Readers(ent[s].id)
      /\ users' = Put(users, ent[s].id, row)
      /\ intended' = IF ent[s].id \in overlapped THEN intended ELSE Put(intended, ent[s].id, row)
      /\ stored' = [stored EXCEPT ![s] = None]
      /\ UNCHANGED <<before, ent, created, overlapped>>
  BY DEF WriteInsert, Saved
<1>2. ent[s].id = u /\ ent[s] \in Entity /\ Whole(s) /\ ent[s].id # Undefined
  BY <1>1, Distinguished DEF IInv, EntityShape, Whole
<1>3. row \in Row
  BY <1>2 DEF Whole
<1>4. u \in created /\ u \in Accounts
  BY <1>1 DEF IInv, TypeOK, RequestShape, Changes, Requests
<1>5. u \in Exposed
  BY <1>1, <1>2 DEF IInv, EntityFresh, Exposed
<1>6. \A w \in DOMAIN users : users[w].email # row.email
  BY <1>1, <1>2 DEF EmailFree, Columnar
<1> HIDE DEF row
<1>7. /\ DOMAIN users' = DOMAIN users \cup {u} /\ users'[u] = row
      /\ \A w \in DOMAIN users : users'[w] = users[w]
      /\ DOMAIN intended' = DOMAIN users' \ overlapped
  BY <1>1, <1>2 DEF Put, IInv, TypeOK
<1>8. /\ pc'[s] = "audit" /\ req' = req
      /\ \A t \in Slots \ {s} : pc'[t] = pc[t] /\ stored'[t] = stored[t]
  BY <1>1 DEF Goto, IInv, TypeOK
<1>9. TypeOK'
  BY <1>1, <1>3, <1>4, <1>6, <1>7 DEF Goto, Readers, IInv, TypeOK
<1>10. RequestShape'
  BY <1>1, <1>8 DEF IInv, RequestShape, Changes
<1>11. EntityShape' /\ NoIdNoRow'
  BY <1>1, <1>8 DEF IInv, EntityShape, Whole, NoIdNoRow
<1>12. EntityFresh'
  BY <1>1, <1>7, <1>8 DEF IInv, EntityFresh
<1>13. StaleAfterRead' /\ Exposed' \subseteq Exposed \cup {u}
  <2> HIDE DEF u
  <2>1. pc[s] # "load" /\ stale' = stale \cup Readers(u) /\ Readers(u) \subseteq Readers(u)
    BY <1>1, <1>2
  <2> QED BY <1>1, <2>1, Overtaken
<1>14. Records!Overwrite(u, row)
  BY <1>1, <1>2, <1>5, <1>13 DEF Records!Overwrite, Records!Written, Records!Exposes, Put
<1>15. Records!UniqueEmails'
  BY <1>9 DEF TypeOK, Records!UniqueEmails
<1> QED BY <1>3, <1>4, <1>9, <1>10, <1>11, <1>12, <1>13, <1>14, <1>15 DEF IInv, Records!Next

\* save() writes what differs from the row it compared with: columns of the body,
\* unless the account was written after update() had read it.
LEMMA WriteUpdateStep ==
    ASSUME IInv, NEW s \in Slots, WriteUpdate(s)
    PROVE  IInv' /\ Records!Next
<1> DEFINE u == req[s].account
           dirty == Dirty(ent[s], stored[s])
           fresh == {t \in Readers(u) : dirty # {}}
           row == [c \in Columns |-> IF c \in dirty THEN ent[s][c] ELSE users[u][c]]
<1>1. /\ pc[s] = "write" /\ stored[s] # None /\ Goto(s, "audit")
      /\ stored' = [stored EXCEPT ![s] = None]
      /\ UNCHANGED <<before, ent, created, overlapped>>
  BY DEF WriteUpdate, Saved
<1>2. ent[s].id = u /\ ent[s] \in Entity /\ Whole(s) /\ ent[s].id # Undefined
  BY <1>1 DEF IInv, EntityShape, Whole, NoIdNoRow
<1>3. u \in created /\ u \in Accounts
  BY <1>1 DEF IInv, TypeOK, RequestShape, Changes, Requests
<1>4. /\ pc'[s] = "audit" /\ req' = req
      /\ \A t \in Slots \ {s} : pc'[t] = pc[t] /\ stored'[t] = stored[t]
  BY <1>1 DEF Goto, IInv, TypeOK
<1>5. RequestShape'
  BY <1>1, <1>4 DEF IInv, RequestShape, Changes
<1>6. EntityShape' /\ NoIdNoRow'
  BY <1>1, <1>4 DEF IInv, EntityShape, Whole, NoIdNoRow
<1>7. CASE u \notin DOMAIN users
  <2>1. UNCHANGED <<users, stale, intended>>
    BY <1>2, <1>7 DEF WriteUpdate
  <2>2. TypeOK'
    BY <1>1, <2>1 DEF Goto, IInv, TypeOK
  <2>3. EntityFresh' /\ StaleAfterRead' /\ Exposed' \subseteq Exposed
    BY <1>1, <1>4, <2>1 DEF IInv, TypeOK, EntityFresh, StaleAfterRead, Exposed
  <2>4. Records!UniqueEmails'
    BY <2>2 DEF TypeOK, Records!UniqueEmails
  <2> QED BY <1>1, <1>5, <1>6, <2>1, <2>2, <2>3, <2>4 DEF IInv, Records!Next, Records!Release
<1>8. CASE u \in DOMAIN users
  <2>1. /\ users' = [users EXCEPT ![u] = row] /\ stale' = stale \cup fresh
        /\ Intend(s)
        /\ "email" \in dirty => EmailFree(ent[s].email, u)
    BY <1>2, <1>8 DEF WriteUpdate
  <2>2. users[u] \in Row /\ dirty \subseteq Columns /\ \A c \in dirty : ent[s][c] # Undefined
    BY <1>8 DEF Dirty, IInv, TypeOK
  <2>3. row \in Row
    BY <1>2, <2>2 DEF Whole, Columnar, Columns, Row
  <2>4. row.email = IF "email" \in dirty THEN ent[s].email ELSE users[u].email
    BY DEF Columns
  <2>5. dirty = {} => \A c \in Columns : row[c] = users[u][c]
    OBVIOUS
  <2>6. s \notin stale => \A c \in Columns \ DOMAIN req[s].data : row[c] = users[u][c]
    BY <1>1, <1>2 DEF IInv, EntityFresh, But, Dirty
  <2> HIDE DEF row, dirty
  <2>7. /\ DOMAIN users' = DOMAIN users /\ users'[u] = row
        /\ \A w \in DOMAIN users \ {u} : users'[w] = users[w]
        /\ DOMAIN intended' = DOMAIN intended
    BY <1>8, <2>1 DEF Intend
  <2>8. \A w \in DOMAIN users \ {u} : users[w].email # row.email
    BY <1>8, <2>1, <2>4 DEF EmailFree, IInv, TypeOK
  <2>9. TypeOK'
    BY <1>1, <2>1, <2>3, <2>7, <2>8 DEF Goto, Readers, IInv, TypeOK
  <2>10. EntityFresh'
    <3>1. \A t \in Slots \ stale' : (pc[t] = "load" /\ req[t].account = u) => dirty = {}
      BY <2>1 DEF Readers
    <3>2. ASSUME NEW t \in Slots \ stale', pc'[t] = "load", ent'[t].id # Undefined
          PROVE  /\ req'[t].account \in DOMAIN users'
                 /\ But(ent'[t], users'[req'[t].account], req'[t].data)
      <4>1. t # s /\ pc[t] = "load" /\ t \notin stale /\ ent'[t] = ent[t]
        BY <1>1, <1>4, <2>1, <3>2
      <4>2. req[t].account \in DOMAIN users /\ But(ent[t], users[req[t].account], req[t].data)
        BY <1>1, <3>2, <4>1 DEF IInv, EntityFresh
      <4>3. \A c \in Columns : users'[req[t].account][c] = users[req[t].account][c]
        BY <2>5, <2>7, <3>1, <4>1, <4>2
      <4> QED BY <1>4, <2>7, <4>1, <4>2, <4>3 DEF But
    <3>3. ASSUME NEW t \in Slots \ stale', pc'[t] = "write", ent'[t].id # Undefined
          PROVE  stored'[t] # None /\ But(ent'[t], stored'[t], req'[t].data)
      BY <1>1, <1>4, <2>1, <3>3 DEF IInv, EntityFresh
    <3> QED BY <3>2, <3>3 DEF EntityFresh
  <2>11. StaleAfterRead' /\ Exposed' \subseteq Exposed \cup {u}
    <3>1. pc[s] # "load" /\ fresh \subseteq Readers(u)
      BY <1>1
    <3> HIDE DEF u, fresh
    <3> QED BY <1>1, <2>1, <3>1, Overtaken
  <2>12. users' = [w \in DOMAIN users \cup {u} |-> IF w = u THEN row ELSE users[w]]
    BY <1>8, <2>1
  <2>13. ASSUME s \notin stale PROVE Records!Change(u, row)
    <3>1. req[s] \in Requests(u)
      BY <1>1 DEF IInv, RequestShape, Changes, Requests
    <3>2. \E form \in Forms : \A c \in DOMAIN row \ form : row[c] = users[u][c]
      <4>1. PICK form \in Forms : DOMAIN req[s].data \subseteq form
        BY <1>2, <3>1, OneForm DEF Whole
      <4>2. DOMAIN row \subseteq Columns
        BY <2>3 DEF Row, Columns
      <4> QED BY <2>6, <2>13, <4>1, <4>2
    <3> QED BY <1>1, <1>8, <2>11, <2>12, <3>2
            DEF Records!Change, Records!Written, Records!Exposes
  <2>14. ASSUME s \in stale PROVE Records!Overwrite(u, row)
    <3>1. u \in Exposed
      BY <1>1, <2>14 DEF Exposed
    <3> QED BY <1>1, <2>11, <2>12, <3>1
            DEF Records!Overwrite, Records!Written, Records!Exposes
  <2>15. Records!Change(u, row) \/ Records!Overwrite(u, row)
    BY <2>13, <2>14
  <2>16. Records!UniqueEmails'
    BY <2>9 DEF TypeOK, Records!UniqueEmails
  <2> QED BY <1>3, <1>5, <1>6, <2>3, <2>9, <2>10, <2>11, <2>15, <2>16 DEF IInv, Records!Next
<1> QED BY <1>7, <1>8

----------------------------------------------------------------------------
(* All steps together.                                                     *)

\* A step that writes no row and exposes nobody is a Release or a stutter of
\* AccountRecords.
LEMMA QuietStep ==
    ASSUME IInv', Exposed' \subseteq Exposed, UNCHANGED <<users, created>>
    PROVE  Records!Next
<1>1. Records!UniqueEmails'
  BY DEF IInv, TypeOK, Records!UniqueEmails
<1> QED BY <1>1 DEF Records!Next, Records!Release

\* The handler of a request that was let in and has nothing read to save.
LEMMA ReadingStep ==
    ASSUME IInv, NEW s \in Slots, Verify(s) \/ ReadBefore(s) \/ Read(s) \/ Load(s)
    PROVE  IInv' /\ Exposed' \subseteq Exposed /\ UNCHANGED <<users, created>>
<1>1. CASE Verify(s)
  <2>1. /\ pc[s] = "verify" /\ Goto(s, "before") /\ UNCHANGED <<users, ent, stored, history>>
        /\ before' \in [Slots -> Row \cup {None}]
    BY <1>1 DEF Verify, IInv, TypeOK
  <2> QED BY <2>1, GotoStep DEF history
<1>2. CASE ReadBefore(s)
  <2> DEFINE next == IF req[s].op = "delete" THEN "remove" ELSE "read"
  <2>1. /\ pc[s] = "before" /\ Goto(s, next) /\ UNCHANGED <<users, ent, stored, history>>
        /\ before' = [before EXCEPT ![s] = IF AuditUp THEN Lookup(req[s].account) ELSE None]
    BY <1>2 DEF ReadBefore
  <2>2. before' \in [Slots -> Row \cup {None}]
    BY <2>1 DEF Lookup, IInv, TypeOK
  <2>3. next = "remove" \/ (next = "read" /\ req[s].op # "delete")
    OBVIOUS
  <2> HIDE DEF next
  <2> QED BY <2>1, <2>2, <2>3, GotoStep DEF history
<1>3. CASE Read(s)
  BY <1>3, ReadStep DEF Read, history
<1>4. CASE Load(s)
  BY <1>4, LoadStep DEF Load, history
<1> QED BY <1>1, <1>2, <1>3, <1>4

\* The handler of a request that is refused, or that writes its audit row.
LEMMA AnsweringStep ==
    ASSUME IInv, NEW s \in Slots,
           \/ InsertReject(s) \/ VerifyReject(s) \/ ReadReject(s) \/ WriteReject(s)
           \/ Audit(s) \/ AuditChange(s) \/ Fail(s)
    PROVE  IInv' /\ Exposed' \subseteq Exposed /\ UNCHANGED <<users, created>>
<1>1. CASE Finish(s) /\ UNCHANGED <<users, created, intended, overlapped>>
  BY <1>1, FinishStep
<1>2. CASE Audit(s) /\ req[s].op = "changePassword"
  <2>1. /\ pc[s] = "audit" /\ Goto(s, "auditChange") /\ UNCHANGED <<users, ent, stored, history>>
        /\ before' \in [Slots -> Row \cup {None}]
    BY <1>2 DEF Audit, history, IInv, TypeOK
  <2> QED BY <2>1, GotoStep DEF history
<1>3. CASE Audit(s) /\ req[s].op # "changePassword"
  BY <1>3, FinishStep DEF Audit
<1> QED BY <1>1, <1>2, <1>3
        DEF InsertReject, VerifyReject, ReadReject, WriteReject, Fail, Reject, AuditChange

\* The server starts with no accounts and no requests.
LEMMA InitIInv == Init => IInv
BY DistinctValues
   DEF Init, IInv, TypeOK, RequestShape, EntityShape, EntityFresh, NoIdNoRow, StaleAfterRead

\* Every step keeps IInv, and is a step of AccountRecords.
LEMMA Step ==
    ASSUME IInv, Next
    PROVE  IInv' /\ Records!Next
<1>1. PICK s \in Slots : CreateArrive(s) \/ ChangeArrive(s) \/ Handle(s)
  BY DEF Next
<1>2. CASE CreateArrive(s) \/ ChangeArrive(s)
  <2>1. UNCHANGED <<users, created>>
    BY <1>2 DEF CreateArrive, ChangeArrive, Arrive
  <2> QED BY <1>2, <2>1, ArriveStep, QuietStep
<1>3. CASE Verify(s) \/ ReadBefore(s) \/ Read(s) \/ Load(s)
  BY <1>3, ReadingStep, QuietStep
<1>4. CASE \/ InsertReject(s) \/ VerifyReject(s) \/ ReadReject(s) \/ WriteReject(s)
           \/ Audit(s) \/ AuditChange(s) \/ Fail(s)
  BY <1>4, AnsweringStep, QuietStep
<1>5. CASE Insert(s)
  BY <1>5, InsertStep
<1>6. CASE WriteUpdate(s)
  BY <1>6, WriteUpdateStep
<1>7. CASE WriteInsert(s)
  BY <1>7, WriteInsertStep
<1>8. CASE Remove(s)
  BY <1>8, RemoveStep
<1> QED BY <1>1, <1>2, <1>3, <1>4, <1>5, <1>6, <1>7, <1>8 DEF Handle

\* A step of something else.
LEMMA Stutter ==
    ASSUME IInv, UNCHANGED vars
    PROVE  IInv' /\ UNCHANGED <<users, created, Exposed>>
<1>1. /\ UNCHANGED <<users, pc, req, before, ent, stored, created, stale, intended, overlapped>>
  BY DEF vars, local, history
<1>2. TypeOK' /\ RequestShape' /\ StaleAfterRead' /\ NoIdNoRow'
  BY <1>1 DEF IInv, TypeOK, RequestShape, Changes, StaleAfterRead, NoIdNoRow
<1>3. EntityShape' /\ EntityFresh'
  BY <1>1 DEF IInv, EntityShape, Whole, EntityFresh
<1>4. Exposed' = Exposed
  BY <1>1 DEF Exposed
<1> QED BY <1>1, <1>2, <1>3, <1>4 DEF IInv

----------------------------------------------------------------------------
(* Requests on one account that do not overlap.                            *)

\* A step of one request moves no other.
LEMMA OneMoves ==
    ASSUME IInv, NEW s \in Slots, Handle(s)
    PROVE  /\ \A t \in Slots \ {s} : /\ pc'[t] = pc[t] /\ req'[t] = req[t]
                                     /\ ent'[t] = ent[t] /\ stored'[t] = stored[t]
           /\ pc'[s] # "idle" => req'[s] = req[s]
           /\ UNCHANGED overlapped
<1>1. DOMAIN pc = Slots /\ DOMAIN req = Slots /\ DOMAIN ent = Slots /\ DOMAIN stored = Slots
  BY DEF IInv, TypeOK, RequestShape
<1>2. CASE Finish(s) /\ UNCHANGED overlapped
  BY <1>1, <1>2 DEF Finish
<1>3. CASE (Verify(s) \/ ReadBefore(s) \/ Read(s) \/ Load(s))
  BY <1>1, <1>3 DEF Verify, ReadBefore, Read, Load, Goto, history
<1>4. CASE (Insert(s) \/ WriteUpdate(s) \/ WriteInsert(s) \/ Remove(s))
  BY <1>1, <1>4 DEF Insert, WriteUpdate, WriteInsert, Saved, Remove, Goto
<1>5. CASE Audit(s) /\ req[s].op = "changePassword"
  BY <1>1, <1>5 DEF Audit, Goto
<1>6. CASE Audit(s) /\ req[s].op # "changePassword"
  BY <1>2, <1>6 DEF Audit
<1> QED BY <1>2, <1>3, <1>4, <1>5, <1>6
        DEF Handle, InsertReject, VerifyReject, ReadReject, WriteReject, Fail, Reject, AuditChange

\* update() and save() leave alone what the body does not name, if nobody has
\* written the account in between.
LEMMA OwnColumnsStep ==
    ASSUME IInv, Next, NEW s \in Slots \ stale, pc[s] = "write", pc'[s] = "audit",
           req[s].account \in DOMAIN users, NEW c \in Columns,
           users'[req[s].account][c] # users[req[s].account][c]
    PROVE  c \in DOMAIN req[s].data
<1> DEFINE u == req[s].account
<1>1. PICK t \in Slots : CreateArrive(t) \/ ChangeArrive(t) \/ Handle(t)
  BY DEF Next
<1>2. Handle(t)
  BY <1>1 DEF CreateArrive, ChangeArrive, Arrive
<1>3. t = s
  BY <1>2, OneMoves
<1>4. WriteUpdate(s) \/ WriteInsert(s)
  <2>1. pc'[s] # "idle"
    OBVIOUS
  <2>2. ~ Finish(s)
    BY <2>1 DEF Finish, IInv, TypeOK
  <2> QED BY <1>2, <1>3, <2>2
          DEF Handle, Insert, InsertReject, Verify, VerifyReject, ReadBefore, Read, ReadReject,
              Load, WriteReject, Fail, Reject, Remove, Audit, AuditChange
<1>5. ~ WriteInsert(s)
  BY Distinguished DEF WriteInsert, IInv, EntityShape, Whole
<1>6. /\ WriteUpdate(s) /\ stored[s] # None /\ ent[s].id = u
      /\ But(ent[s], stored[s], req[s].data)
  BY <1>4, <1>5 DEF WriteUpdate, IInv, EntityShape, Whole, NoIdNoRow, EntityFresh
<1>7. users' = [users EXCEPT ![u] =
                  [d \in Columns |-> IF d \in Dirty(ent[s], stored[s]) THEN ent[s][d]
                                     ELSE users[u][d]]]
  BY <1>6 DEF WriteUpdate
<1>8. c \in Dirty(ent[s], stored[s])
  BY <1>7
<1> QED BY <1>6, <1>8 DEF Dirty, But

\* Requests that change an account.
InFlight(s) == pc[s] \notin {"idle", "insert"} /\ req[s].op # "create"

\* Two requests on one account make it overlapped.
Alone ==
    \A s, t \in Slots : (s # t /\ InFlight(s) /\ InFlight(t) /\ req[s].account = req[t].account) =>
        req[s].account \in overlapped

\* A request that is alone will save what is there, with its own values.
Merged(s) ==
    LET u == req[s].account
        d == req[s].data
    IN  /\ u \in DOMAIN users
        /\ \A c \in Columns : ent[s][c] = IF c \in DOMAIN d THEN d[c] ELSE users[u][c]
        /\ pc[s] = "write" => stored[s] = users[u]

ReadInForce(s) ==
    (pc[s] \in {"load", "write"} /\ ent[s].id # Undefined /\ req[s].account \notin overlapped) =>
        Merged(s)

SerialInv ==
    /\ Alone
    /\ \A s \in Slots : ReadInForce(s)
    /\ SerialRows

\* The rows of other requests that are alone stay as they are.
Kept(s) ==
    \A t \in Slots \ {s} : (pc[t] \in {"load", "write"} /\ req[t].account \in DOMAIN users \ overlapped) =>
        /\ req[t].account \in DOMAIN users'
        /\ users'[req[t].account] = users[req[t].account]

\* A step of one request keeps the others as they were, if it keeps their rows.
LEMMA OthersKeep ==
    ASSUME IInv, SerialInv, NEW s \in Slots, Handle(s), Kept(s),
           InFlight(s)' => InFlight(s)
    PROVE  Alone' /\ \A t \in Slots \ {s} : ReadInForce(t)'
<1>1. /\ \A t \in Slots \ {s} : /\ pc'[t] = pc[t] /\ req'[t] = req[t]
                                /\ ent'[t] = ent[t] /\ stored'[t] = stored[t]
      /\ pc'[s] # "idle" => req'[s] = req[s]
      /\ overlapped' = overlapped
  BY OneMoves
<1>2. Alone'
  BY <1>1 DEF SerialInv, Alone, InFlight
<1>3. ASSUME NEW t \in Slots \ {s} PROVE ReadInForce(t)'
  <2> SUFFICES ASSUME pc'[t] \in {"load", "write"}, ent'[t].id # Undefined,
                      req'[t].account \notin overlapped'
               PROVE  Merged(t)'
    BY DEF ReadInForce
  <2>1. Merged(t)
    BY <1>1 DEF SerialInv, ReadInForce
  <2> QED BY <1>1, <2>1 DEF Merged, Kept
<1> QED BY <1>2, <1>3

\* A request that comes in joins those on its account, or is alone.
LEMMA SerialArrive ==
    ASSUME IInv, SerialInv, NEW s \in Slots, CreateArrive(s) \/ ChangeArrive(s)
    PROVE  SerialInv'
<1>1. PICK r : /\ pc[s] = "idle"
               /\ pc' = [pc EXCEPT ![s] = FirstAwait(r.op)]
               /\ req' = [req EXCEPT ![s] = r]
               /\ UNCHANGED <<users, ent, stored>>
               /\ \/ r.op = "create" /\ UNCHANGED <<intended, overlapped>>
                  \/ /\ r.op \in {"updateMe", "changePassword", "adminUpdate", "delete"}
                     /\ overlapped' = overlapped \cup
                           {w \in {r.account} : \E t \in Slots : InFlight(t) /\ req[t].account = r.account}
                     /\ intended' = Restrict(intended, DOMAIN intended \ overlapped')
  <2>1. CASE CreateArrive(s)
    BY <2>1 DEF CreateArrive, CreateRequests, Arrive
  <2>2. CASE ChangeArrive(s)
    <3>1. PICK u \in created : \E r \in Requests(u) :
             /\ Arrive(s, r)
             /\ overlapped' = overlapped \cup
                   {w \in {u} : \E t \in Slots : InFlight(t) /\ req[t].account = u}
             /\ intended' = Restrict(intended, DOMAIN intended \ overlapped')
      BY <2>2 DEF ChangeArrive, InFlight
    <3>2. PICK r \in Requests(u) :
             /\ Arrive(s, r)
             /\ overlapped' = overlapped \cup
                   {w \in {u} : \E t \in Slots : InFlight(t) /\ req[t].account = u}
             /\ intended' = Restrict(intended, DOMAIN intended \ overlapped')
      BY <3>1
    <3>3. r.account = u /\ r.op \in {"updateMe", "changePassword", "adminUpdate", "delete"}
      BY DEF Requests
    <3> QED BY <3>2, <3>3 DEF Arrive
  <2> QED BY <2>1, <2>2
<1>2. /\ pc'[s] \notin {"load", "write"} /\ req'[s] = r
      /\ r.op = "create" => pc'[s] = "insert"
      /\ \A t \in Slots \ {s} : pc'[t] = pc[t] /\ req'[t] = req[t]
      /\ overlapped \subseteq overlapped'
  BY <1>1 DEF FirstAwait, IInv, TypeOK, RequestShape
<1>3. Alone'
  <2> SUFFICES ASSUME NEW t \in Slots, NEW v \in Slots, t # v, InFlight(t)', InFlight(v)',
                      req'[t].account = req'[v].account
               PROVE  req'[t].account \in overlapped'
    BY DEF Alone
  <2>1. CASE t # s /\ v # s
    BY <1>2, <2>1 DEF SerialInv, Alone, InFlight
  <2>2. CASE t = s \/ v = s
    BY <1>1, <1>2, <2>2 DEF InFlight
  <2> QED BY <2>1, <2>2
<1>4. \A t \in Slots : ReadInForce(t)'
  BY <1>1, <1>2 DEF SerialInv, ReadInForce, Merged
<1>5. SerialRows'
  BY <1>1 DEF SerialInv, SerialRows, Restrict
<1> QED BY <1>3, <1>4, <1>5 DEF SerialInv

\* A step that writes no row and reads nothing it will save.
LEMMA SerialQuiet ==
    ASSUME IInv, SerialInv, NEW s \in Slots, Handle(s), UNCHANGED <<users, intended>>,
           pc'[s] \notin {"load", "write"}, InFlight(s)' => InFlight(s)
    PROVE  SerialInv'
<1>1. Alone' /\ \A t \in Slots \ {s} : ReadInForce(t)'
  BY OthersKeep DEF Kept
<1>2. ReadInForce(s)'
  BY DEF ReadInForce
<1>3. SerialRows'
  BY OneMoves DEF SerialInv, SerialRows
<1> QED BY <1>1, <1>2, <1>3 DEF SerialInv

\* What update() and save() read of an account whose requests do not overlap
\* is what is there.
LEMMA SerialRead ==
    ASSUME IInv, SerialInv, NEW s \in Slots, Read(s) \/ Load(s)
    PROVE  SerialInv'
<1> DEFINE u == req[s].account
<1>1. /\ pc[s] \in {"read", "load"} /\ pc'[s] \in {"load", "write"}
      /\ pc[s] = "load" => pc'[s] = "write"
      /\ UNCHANGED <<users, req, intended, overlapped>>
  BY DEF Read, Load, Goto, history, IInv, TypeOK
<1>2. Alone' /\ \A t \in Slots \ {s} : ReadInForce(t)'
  BY <1>1, OthersKeep DEF Handle, Kept, InFlight
<1>3. ReadInForce(s)'
  <2>1. CASE Read(s)
    <3>1. /\ u \in DOMAIN users /\ pc'[s] = "load"
          /\ ent'[s] = Assigned(Loaded(u, users[u]), req[s].data)
      BY <2>1 DEF Read, Goto, IInv, TypeOK
    <3>2. \A c \in Columns : /\ c \in DOMAIN Loaded(u, users[u])
                             /\ Loaded(u, users[u])[c] = users[u][c]
      BY DEF Loaded, Columns
    <3>3. \A c \in Columns : ent'[s][c] = IF c \in DOMAIN req[s].data THEN req[s].data[c] ELSE users[u][c]
      BY <3>1, <3>2 DEF Assigned
    <3> QED BY <1>1, <3>1, <3>3 DEF ReadInForce, Merged
  <2>2. CASE Load(s)
    <3> SUFFICES ASSUME ent'[s].id # Undefined, u \notin overlapped
                 PROVE  Merged(s)'
      BY <1>1 DEF ReadInForce
    <3>1. pc[s] = "load" /\ ent' = ent /\ ent[s].id # Undefined
          /\ stored'[s] = Lookup(ent[s].id)
      BY <2>2 DEF Load, IInv, TypeOK
    <3>2. ent[s].id = u /\ Merged(s)
      BY <3>1 DEF SerialInv, ReadInForce, IInv, EntityShape, Whole
    <3> QED BY <1>1, <3>1, <3>2 DEF Merged, Lookup
  <2> QED BY <2>1, <2>2
<1>4. SerialRows'
  BY <1>1 DEF SerialInv, SerialRows
<1> QED BY <1>2, <1>3, <1>4 DEF SerialInv

\* A new account is in nobody's request.
LEMMA SerialInsert ==
    ASSUME IInv, SerialInv, NEW s \in Slots, Insert(s)
    PROVE  SerialInv'
<1>1. PICK u \in Accounts \ created : /\ users' = Put(users, u, req[s].row)
                                      /\ intended' = Put(intended, u, req[s].row)
  BY DEF Insert
<1>2. /\ pc[s] = "insert" /\ pc'[s] = "audit" /\ req[s].op = "create"
      /\ UNCHANGED <<req, overlapped>>
  BY DEF Insert, Goto, IInv, TypeOK, RequestShape, CreateRequests
<1>3. /\ DOMAIN users' = DOMAIN users \cup {u} /\ DOMAIN intended' = DOMAIN intended \cup {u}
      /\ users'[u] = intended'[u] /\ DOMAIN intended \subseteq DOMAIN users \ {u}
      /\ \A w \in DOMAIN users : users'[w] = users[w]
      /\ \A w \in DOMAIN intended : intended'[w] = intended[w]
  BY <1>1 DEF Put, IInv, TypeOK
<1>4. Kept(s)
  BY <1>3 DEF Kept
<1>5. Alone' /\ \A t \in Slots \ {s} : ReadInForce(t)'
  BY <1>2, <1>4, OthersKeep DEF Handle, InFlight
<1>6. ReadInForce(s)'
  BY <1>2 DEF ReadInForce
<1>7. SerialRows'
  BY <1>2, <1>3 DEF SerialInv, SerialRows
<1> QED BY <1>5, <1>6, <1>7 DEF SerialInv

\* A write of one account keeps the rows that the others have read, unless
\* they overlap with it.
LEMMA SerialWrite ==
    ASSUME IInv, SerialInv, NEW s \in Slots, Handle(s), pc[s] \in {"write", "remove"},
           pc'[s] = "audit",
           \A w \in DOMAIN users \ {req[s].account} : w \in DOMAIN users' /\ users'[w] = users[w],
           SerialRows'
    PROVE  SerialInv'
<1>1. InFlight(s)
  BY DEF IInv, RequestShape, Changes, Requests, InFlight
<1>2. ASSUME NEW t \in Slots \ {s}, pc[t] \in {"load", "write"}, req[t].account \notin overlapped
      PROVE  req[t].account # req[s].account
  <2>1. InFlight(t)
    BY <1>2 DEF IInv, RequestShape, Changes, Requests, InFlight
  <2> QED BY <1>1, <1>2, <2>1 DEF SerialInv, Alone
<1>3. Kept(s)
  BY <1>2 DEF Kept
<1>4. Alone' /\ \A t \in Slots \ {s} : ReadInForce(t)'
  BY <1>1, <1>3, OthersKeep
<1>5. ReadInForce(s)'
  BY DEF ReadInForce
<1> QED BY <1>4, <1>5 DEF SerialInv

\* An update of an account whose requests do not overlap makes of the row what
\* the body says.
LEMMA SerialUpdate ==
    ASSUME IInv, SerialInv, NEW s \in Slots, WriteUpdate(s)
    PROVE  SerialInv'
<1> DEFINE u == req[s].account
           d == req[s].data
           row == [c \in Columns |-> IF c \in Dirty(ent[s], stored[s]) THEN ent[s][c] ELSE users[u][c]]
           want == [c \in Columns |-> IF c \in DOMAIN d /\ d[c] # Undefined THEN d[c] ELSE intended[u][c]]
<1>1. /\ pc[s] = "write" /\ stored[s] # None /\ pc'[s] = "audit" /\ UNCHANGED overlapped
      /\ ent[s].id = u /\ ent[s].id # Undefined
  BY DEF WriteUpdate, Saved, Goto, IInv, TypeOK, EntityShape, Whole, NoIdNoRow
<1>2. CASE u \notin DOMAIN users
  <2>1. UNCHANGED <<users, intended>>
    BY <1>1, <1>2 DEF WriteUpdate
  <2>2. SerialRows'
    BY <1>1, <2>1 DEF SerialInv, SerialRows
  <2> QED BY <1>1, <2>1, <2>2, SerialWrite DEF Handle
<1>3. CASE u \in DOMAIN users
  <2>1. /\ users' = [users EXCEPT ![u] = row]
        /\ intended' = [w \in DOMAIN intended |-> IF w # u THEN intended[w] ELSE want]
    BY <1>1, <1>3 DEF WriteUpdate, Intend
  <2>2. ASSUME u \notin overlapped PROVE row = want
    <3>1. Merged(s) /\ intended[u] = users[u]
      BY <1>1, <1>3, <2>2 DEF SerialInv, ReadInForce, SerialRows, IInv, TypeOK
    <3>2. stored[s] = users[u] /\ users[u] \in Row
      BY <1>1, <1>3, <3>1 DEF Merged, IInv, TypeOK
    <3>3. \A c \in Columns : users[u][c] # Undefined
      BY <3>2, DistinctValues DEF Columns, Row
    <3>4. ASSUME NEW c \in Columns PROVE row[c] = want[c]
      <4>1. ent[s][c] = IF c \in DOMAIN d THEN d[c] ELSE users[u][c]
        BY <3>1 DEF Merged
      <4> QED BY <3>1, <3>2, <3>3, <4>1 DEF Dirty
    <3> QED BY <3>4
  <2> HIDE DEF row, want
  <2>3. /\ DOMAIN users' = DOMAIN users /\ users'[u] = row
        /\ DOMAIN intended' = DOMAIN intended
        /\ u \in DOMAIN intended => u \notin overlapped /\ intended'[u] = want
        /\ \A w \in DOMAIN users \ {u} : users'[w] = users[w]
        /\ \A w \in DOMAIN intended \ {u} : w \in DOMAIN users /\ intended'[w] = intended[w]
    BY <1>3, <2>1 DEF IInv, TypeOK
  <2>4. SerialRows'
    BY <1>1, <2>2, <2>3 DEF SerialInv, SerialRows
  <2> QED BY <1>1, <2>3, <2>4, SerialWrite DEF Handle
<1> QED BY <1>2, <1>3

\* save() brings a row back only if its requests overlap; delete() takes the
\* row away, as it should.
LEMMA SerialInsertRemove ==
    ASSUME IInv, SerialInv, NEW s \in Slots, WriteInsert(s) \/ Remove(s)
    PROVE  SerialInv'
<1> DEFINE u == req[s].account
<1>1. /\ pc[s] \in {"write", "remove"} /\ pc'[s] = "audit" /\ UNCHANGED overlapped
  BY DEF WriteInsert, Saved, Remove, Goto, IInv, TypeOK
<1>2. CASE WriteInsert(s)
  <2>1. /\ pc[s] = "write" /\ ent[s].id = u /\ ent[s].id # Undefined /\ u \notin DOMAIN users
    BY <1>2, Distinguished DEF WriteInsert, IInv, EntityShape, Whole
  <2>2. u \in overlapped
    BY <2>1 DEF SerialInv, ReadInForce, Merged
  <2>3. /\ DOMAIN users' = DOMAIN users \cup {u} /\ intended' = intended
        /\ DOMAIN intended \subseteq DOMAIN users
        /\ \A w \in DOMAIN users : users'[w] = users[w]
    BY <1>2, <2>1, <2>2 DEF WriteInsert, Put, IInv, TypeOK
  <2>4. SerialRows'
    BY <1>1, <2>2, <2>3 DEF SerialInv, SerialRows
  <2> QED BY <1>1, <1>2, <2>3, <2>4, SerialWrite DEF Handle
<1>3. CASE Remove(s)
  <2>1. /\ DOMAIN users' = DOMAIN users \ {u} /\ DOMAIN intended' = DOMAIN intended \ {u}
        /\ DOMAIN intended \subseteq DOMAIN users
        /\ \A w \in DOMAIN users \ {u} : users'[w] = users[w]
        /\ \A w \in DOMAIN intended \ {u} : intended'[w] = intended[w]
    BY <1>3 DEF Remove, Drop, Restrict, IInv, TypeOK
  <2>2. SerialRows'
    BY <1>1, <2>1 DEF SerialInv, SerialRows
  <2> QED BY <1>1, <1>3, <2>1, <2>2, SerialWrite DEF Handle
<1> QED BY <1>2, <1>3

\* Every step keeps the rows of accounts whose requests do not overlap serial.
LEMMA SerialStep ==
    ASSUME IInv, SerialInv, Next
    PROVE  SerialInv'
<1>1. PICK s \in Slots : CreateArrive(s) \/ ChangeArrive(s) \/ Handle(s)
  BY DEF Next
<1>2. CASE CreateArrive(s) \/ ChangeArrive(s)
  BY <1>2, SerialArrive
<1>3. CASE Verify(s) \/ ReadBefore(s)
  <2>1. /\ UNCHANGED <<users, intended>> /\ pc'[s] \notin {"load", "write"} /\ InFlight(s)
    BY <1>3 DEF Verify, ReadBefore, Goto, history, InFlight, IInv, TypeOK, RequestShape,
                Changes, Requests
  <2> QED BY <1>3, <2>1, SerialQuiet DEF Handle
<1>4. CASE \/ InsertReject(s) \/ VerifyReject(s) \/ ReadReject(s) \/ WriteReject(s)
           \/ Audit(s) \/ AuditChange(s) \/ Fail(s)
  <2>1. UNCHANGED <<users, intended>> /\ pc'[s] \in {"idle", "auditChange"}
    BY <1>4 DEF InsertReject, VerifyReject, ReadReject, WriteReject, Fail, Reject, Audit, AuditChange,
                Goto, Finish, IInv, TypeOK
  <2>2. InFlight(s)' => InFlight(s)
    BY <1>4, <2>1, OneMoves
       DEF InsertReject, VerifyReject, ReadReject, WriteReject, Fail, Reject, Audit, AuditChange,
           Goto, Finish, IInv, TypeOK, InFlight
  <2> QED BY <1>4, <2>1, <2>2, SerialQuiet DEF Handle
<1> QED BY <1>1, <1>2, <1>3, <1>4, SerialRead, SerialInsert, SerialUpdate, SerialInsertRemove
        DEF Handle

----------------------------------------------------------------------------
(* The theorems.                                                           *)

\* In every state of the service a request holds what its route gave it and
\* what the table had, until somebody writes the account.
THEOREM Invariance == Spec => []IInv
<1>1. IInv /\ [Next]_vars => IInv'
  BY Step, Stutter
<1> QED BY <1>1, InitIInv, PTL DEF Spec

\* The rows are rows of the table: of accounts once created, with values in
\* every NOT NULL column and e-mails of their own, whatever the requests do.
THEOREM TypeCorrect == Spec => []TypeOK
<1>1. IInv => TypeOK
  BY DEF IInv
<1> QED BY <1>1, Invariance, PTL

\* The service over its table implements AccountRecords: an account is created
\* once, changed in the columns of one form, deleted for good, and overwritten or
\* brought back only by an update that had read it before its last write.
THEOREM StoreImplementsRecords == Spec => ImplementsAccounts
<1>1. Init => Records!Init
  BY DEF Init, Records!Init, Exposed
<1>2. IInv /\ [Next]_vars => [Records!Next]_<<users, created, Exposed>>
  BY Step, Stutter
<1> QED BY <1>1, <1>2, Invariance, PTL DEF Spec, ImplementsAccounts, Records!Spec

\* An update changes a column that its body does not set only if the account
\* was written between its findOne and the read that save() makes.
THEOREM OwnColumns == Spec => OnlyOwnColumns
<1> DEFINE Own == \A s \in Slots \ stale :
                    LET u == req[s].account IN
                       (pc[s] = "write" /\ pc'[s] = "audit" /\ u \in DOMAIN users) =>
                           \A c \in Columns : users'[u][c] # users[u][c] => c \in DOMAIN req[s].data
<1>1. IInv /\ Next => Own
  BY OwnColumnsStep
<1>2. IInv /\ [Next]_vars => [Own]_vars
  BY <1>1
<1> QED BY <1>2, Invariance, PTL DEF Spec, OnlyOwnColumns

\* As long as the requests on an account do not overlap, its row is what they
\* say, one after the other.
THEOREM RowsSerial == Spec => []SerialRows
<1>1. Init => SerialInv
  BY DEF Init, SerialInv, Alone, InFlight, ReadInForce, SerialRows
<1>2. IInv /\ SerialInv /\ [Next]_vars => SerialInv'
  <2>1. ASSUME SerialInv, UNCHANGED vars PROVE SerialInv'
    <3>1. UNCHANGED <<users, pc, req, ent, stored, intended, overlapped>>
      BY <2>1 DEF vars, local, history
    <3> QED BY <2>1, <3>1 DEF SerialInv, Alone, InFlight, ReadInForce, Merged, SerialRows
  <2> QED BY <2>1, SerialStep
<1>3. SerialInv => SerialRows
  BY DEF SerialInv
<1> QED BY <1>1, <1>2, <1>3, Invariance, PTL DEF Spec
============================================================================
