----------------------- MODULE RefreshSessionsProofs -----------------------
(***************************************************************************)
(* Proofs about RefreshSessions for any sets of users, visitors, requests  *)
(* and token ids.  IInv is the inductive invariant: the checked invariants *)
(* together with what the requests in flight hold (RequestShape,           *)
(* EntityProvenance), which ids are in use (IdsDrawn), and which requests  *)
(* still answer for a session (SuccessorStored, HoldersEscaped).  One      *)
(* lemma per action says that it preserves IInv, with a step per conjunct. *)
(***************************************************************************)
EXTENDS RefreshSessions, TLAPS

\* login() saves the row of a new session under an id no row ever had: the row is
\* its session's first, and carries what the validated account was read to be.
LEMMA LoginSaveStep ==
    ASSUME IInv, NEW s \in Slots, LoginSave(s)
    PROVE  IInv'
<1> DEFINE o == [user |-> ent[s].user, visitor |-> ent[s].visitor, role |-> ent[s].role]
<1>1. PICK id \in Ids : /\ id \notin DOMAIN family
                        /\ tokens' = Put(tokens, id, ent[s])
                        /\ new' = [new EXCEPT ![s] = id]
                        /\ family' = Put(family, id, id)
                        /\ origin' = Put(origin, id, o)
  BY DEF LoginSave, Fresh
<1>2. /\ pc[s] = "save" /\ pc' = [pc EXCEPT ![s] = "audit"]
      /\ UNCHANGED <<req, account, audited, known, ent, held, loggedOut, replaced, escaped, raced>>
  BY DEF LoginSave, Goto
<1>3. ent[s] \in Row /\ req[s] \in LoginReq
  BY <1>2 DEF IInv, RequestShape, LoginAt
<1>4. /\ DOMAIN tokens' = DOMAIN tokens \cup {id}
      /\ tokens'[id] = ent[s]
      /\ \A j \in DOMAIN tokens : tokens'[j] = tokens[j]
      /\ DOMAIN family' = DOMAIN family \cup {id}
      /\ family'[id] = id
      /\ \A j \in DOMAIN family : family'[j] = family[j]
      /\ DOMAIN origin' = DOMAIN origin \cup {id}
      /\ origin'[id] = o
      /\ \A j \in DOMAIN origin : origin'[j] = origin[j]
  BY <1>1 DEF IInv, IdsDrawn, Put
<1> HIDE DEF o
<1>5. TypeOK'
  BY <1>1, <1>2, <1>3, <1>4 DEF IInv, TypeOK, Row, Origin, o
<1>6. RequestShape'
  BY <1>1, <1>2, <1>3, ConstantsAssumption DEF IInv, RequestShape, TypeOK, RefreshAt
<1>7. IdsDrawn'
  BY <1>1, <1>2, <1>4 DEF IInv, IdsDrawn, TypeOK, Ended
<1>8. Provenance'
  BY <1>2, <1>4 DEF IInv, IdsDrawn, Provenance, EntityProvenance, o
<1>9. EntityProvenance'
  BY <1>2, <1>4 DEF IInv, IdsDrawn, EntityProvenance, RequestShape, RefreshAt
<1>10. SessionContinuity'
  BY <1>2, <1>4 DEF IInv, IdsDrawn, SessionContinuity, Ended
<1>11. SuccessorStored'
  BY <1>1, <1>2, <1>4 DEF IInv, IdsDrawn, SuccessorStored, Ended, RequestShape, RefreshAt
<1>12. EndedStaysEnded'
  BY <1>1, <1>2, <1>4 DEF IInv, IdsDrawn, EndedStaysEnded, Ended
<1>13. HoldersEscaped'
  BY <1>2, <1>4 DEF IInv, IdsDrawn, HoldersEscaped, Ended, RequestShape, RefreshAt
<1> QED BY <1>5, <1>6, <1>7, <1>8, <1>9, <1>10, <1>11, <1>12, <1>13 DEF IInv

\* A request that comes in only takes its slot and may begin to overlap with
\* another of its user and visitor; the table is as it was.
LEMMA ArriveStep ==
    ASSUME IInv, NEW s \in Slots, NEW r, NEW first, Arrive(s, r, first),
           \/ r \in LoginReq /\ first = "validate"
           \/ r \in RefreshReq /\ r.token \in known /\ first = "find"
           \/ r \in LogoutReq /\ first = "delete"
    PROVE  IInv'
<1>1. /\ pc[s] = "idle" /\ pc' = [pc EXCEPT ![s] = first] /\ req' = [req EXCEPT ![s] = r]
      /\ raced' = raced \cup Overlap(s, r)
      /\ UNCHANGED <<account, tokens, audited, known, ent, new,
                     family, origin, held, loggedOut, replaced, escaped>>
  BY DEF Arrive, table
<1>2. PairOf(r) \in Users \X Sources \/ r.op = "logout"
  BY ConstantsAssumption DEF IInv, IdsDrawn, TypeOK, PairOf, LoginReq, RefreshReq, LogoutReq, Origin
<1>3. TypeOK'
  BY <1>1, <1>2 DEF IInv, TypeOK, Overlap, Paired
<1>4. RequestShape'
  BY <1>1 DEF IInv, TypeOK, RequestShape, LoginAt, RefreshAt
<1>5. IdsDrawn'
  BY <1>1 DEF IInv, IdsDrawn, Ended, LoginReq, RefreshReq, LogoutReq
<1>6. Provenance'
  BY <1>1 DEF IInv, Provenance
<1>7. EntityProvenance'
  BY <1>1 DEF IInv, EntityProvenance
<1>8. SessionContinuity'
  BY <1>1 DEF IInv, SessionContinuity, Ended
<1>9. SuccessorStored'
  BY <1>1 DEF IInv, SuccessorStored, Ended
<1>10. EndedStaysEnded'
  BY <1>1 DEF IInv, EndedStaysEnded, Ended
<1>11. HoldersEscaped'
  BY <1>1 DEF IInv, HoldersEscaped, Ended
<1> QED BY <1>3, <1>4, <1>5, <1>6, <1>7, <1>8, <1>9, <1>10, <1>11 DEF IInv

\* The strategy's validate() reads the account: the role the login will save is
\* one the account held.
LEMMA LoginValidateStep ==
    ASSUME IInv, NEW s \in Slots, LoginValidate(s)
    PROVE  IInv'
<1>1. /\ pc[s] = "validate" /\ pc' = [pc EXCEPT ![s] = "cleanup"]
      /\ account[req[s].user] # None
      /\ ent' = [ent EXCEPT ![s] = [user |-> req[s].user, visitor |-> req[s].visitor,
                                    role |-> TokenRoleOf(account[req[s].user]), live |-> TRUE]]
      /\ UNCHANGED <<req, account, tokens, audited, known, new, family, origin, held,
                     loggedOut, replaced, escaped, raced>>
  BY DEF LoginValidate, Goto, table, history
<1>2. req[s] \in LoginReq
  BY <1>1 DEF IInv, RequestShape, LoginAt
<1>3. req[s].user \in Users /\ req[s].visitor \in Sources
  BY <1>2, ConstantsAssumption DEF LoginReq
<1>4. /\ TokenRoleOf(account[req[s].user]) \in TokenRoles
      /\ TokenRoleOf(account[req[s].user]) \in held[req[s].user]
  BY <1>1, <1>3 DEF TokenRoleOf, TokenRoles, IInv, EntityProvenance
<1>5. ent'[s] \in Row /\ \A t \in Slots \ {s} : ent'[t] = ent[t]
  BY <1>1, <1>3, <1>4 DEF IInv, TypeOK, Row
<1>6. TypeOK'
  BY <1>1, <1>5 DEF IInv, TypeOK
<1>7. RequestShape'
  BY <1>1, <1>2, <1>5 DEF IInv, RequestShape, RefreshAt
<1>8. IdsDrawn'
  BY <1>1 DEF IInv, IdsDrawn, Ended
<1>9. Provenance'
  BY <1>1 DEF IInv, Provenance
<1>10. EntityProvenance'
  BY <1>1, <1>4 DEF IInv, TypeOK, EntityProvenance
<1>11. SessionContinuity'
  BY <1>1 DEF IInv, SessionContinuity, Ended
<1>12. SuccessorStored'
  BY <1>1 DEF IInv, SuccessorStored, Ended
<1>13. EndedStaysEnded'
  BY <1>1 DEF IInv, EndedStaysEnded, Ended
<1>14. HoldersEscaped'
  BY <1>1 DEF IInv, HoldersEscaped, Ended
<1> QED BY <1>6, <1>7, <1>8, <1>9, <1>10, <1>11, <1>12, <1>13, <1>14 DEF IInv

\* A login whose account is gone is answered with an error and leaves no trace.
LEMMA LoginRejectStep ==
    ASSUME IInv, NEW s \in Slots, LoginReject(s)
    PROVE  IInv'
<1>1. /\ pc[s] = "validate" /\ pc' = [pc EXCEPT ![s] = "idle"] /\ req' = [req EXCEPT ![s] = None]
      /\ ent' = [ent EXCEPT ![s] = None] /\ new' = [new EXCEPT ![s] = None]
      /\ UNCHANGED <<account, tokens, audited, known, family, origin, held, loggedOut,
                     replaced, escaped, raced>>
  BY DEF LoginReject, Finish, table, history
<1>2. TypeOK'
  BY <1>1 DEF IInv, TypeOK
<1>3. RequestShape'
  BY <1>1 DEF IInv, TypeOK, RequestShape, LoginAt, RefreshAt
<1>4. IdsDrawn'
  BY <1>1, ConstantsAssumption DEF IInv, IdsDrawn, Ended
<1>5. Provenance'
  BY <1>1 DEF IInv, Provenance
<1>6. EntityProvenance'
  BY <1>1 DEF IInv, EntityProvenance
<1>7. SessionContinuity'
  BY <1>1 DEF IInv, SessionContinuity, Ended
<1>8. SuccessorStored'
  BY <1>1 DEF IInv, SuccessorStored, Ended
<1>9. EndedStaysEnded'
  BY <1>1 DEF IInv, EndedStaysEnded, Ended
<1>10. HoldersEscaped'
  BY <1>1 DEF IInv, HoldersEscaped, Ended
<1> QED BY <1>2, <1>3, <1>4, <1>5, <1>6, <1>7, <1>8, <1>9, <1>10 DEF IInv

\* A refresh of a token that is missing, of another visitor or expired is answered
\* with an error and leaves no trace.
LEMMA RefreshRejectStep ==
    ASSUME IInv, NEW s \in Slots, RefreshReject(s)
    PROVE  IInv'
<1>1. /\ pc[s] = "find" /\ pc' = [pc EXCEPT ![s] = "idle"] /\ req' = [req EXCEPT ![s] = None]
      /\ ent' = [ent EXCEPT ![s] = None] /\ new' = [new EXCEPT ![s] = None]
      /\ UNCHANGED <<account, tokens, audited, known, family, origin, held, loggedOut,
                     replaced, escaped, raced>>
  BY DEF RefreshReject, Finish, table, history
<1>2. TypeOK'
  BY <1>1 DEF IInv, TypeOK
<1>3. RequestShape'
  BY <1>1 DEF IInv, TypeOK, RequestShape, LoginAt, RefreshAt
<1>4. IdsDrawn'
  BY <1>1, ConstantsAssumption DEF IInv, IdsDrawn, Ended
<1>5. Provenance'
  BY <1>1 DEF IInv, Provenance
<1>6. EntityProvenance'
  BY <1>1 DEF IInv, EntityProvenance
<1>7. SessionContinuity'
  BY <1>1 DEF IInv, SessionContinuity, Ended
<1>8. SuccessorStored'
  BY <1>1 DEF IInv, SuccessorStored, Ended
<1>9. EndedStaysEnded'
  BY <1>1 DEF IInv, EndedStaysEnded, Ended
<1>10. HoldersEscaped'
  BY <1>1 DEF IInv, HoldersEscaped, Ended
<1> QED BY <1>2, <1>3, <1>4, <1>5, <1>6, <1>7, <1>8, <1>9, <1>10 DEF IInv

\* A request that fails between two awaits leaves the rows it has written.
LEMMA FailStep ==
    ASSUME IInv, NEW s \in Slots, Fail(s)
    PROVE  IInv'
<1>1. /\ pc[s] # "idle" /\ pc' = [pc EXCEPT ![s] = "idle"] /\ req' = [req EXCEPT ![s] = None]
      /\ ent' = [ent EXCEPT ![s] = None] /\ new' = [new EXCEPT ![s] = None]
      /\ raced' = IF new[s] = None THEN raced ELSE raced \cup Paired(req[s])
      /\ UNCHANGED <<account, tokens, audited, known, family, origin, held, loggedOut,
                     replaced, escaped>>
  BY DEF Fail, Finish, table
<1>2. PairOf(req[s]) \in Users \X Sources
  <2>1. req[s] # None
    BY <1>1, ConstantsAssumption DEF IInv, TypeOK, RequestShape, LoginAt, RefreshAt
  <2>2. CASE req[s] \in RefreshReq
    BY <2>2 DEF IInv, TypeOK, IdsDrawn, PairOf, RefreshReq, Origin
  <2>3. CASE req[s] \in LoginReq \cup LogoutReq
    BY <2>3, ConstantsAssumption DEF PairOf, LoginReq, LogoutReq
  <2> QED BY <2>1, <2>2, <2>3 DEF IInv, TypeOK
<1>3. TypeOK'
  BY <1>1, <1>2 DEF IInv, TypeOK, Paired
<1>4. RequestShape'
  BY <1>1 DEF IInv, TypeOK, RequestShape, LoginAt, RefreshAt
<1>5. IdsDrawn'
  BY <1>1, ConstantsAssumption DEF IInv, TypeOK, IdsDrawn, Ended
<1>6. Provenance'
  BY <1>1 DEF IInv, Provenance
<1>7. EntityProvenance'
  BY <1>1 DEF IInv, TypeOK, EntityProvenance
<1>8. SessionContinuity'
  BY <1>1 DEF IInv, SessionContinuity, Ended
<1>9. SuccessorStored'
  BY <1>1 DEF IInv, TypeOK, SuccessorStored, Ended
<1>10. EndedStaysEnded'
  BY <1>1 DEF IInv, EndedStaysEnded, Ended
<1>11. HoldersEscaped'
  BY <1>1 DEF IInv, TypeOK, HoldersEscaped, Ended
<1> QED BY <1>3, <1>4, <1>5, <1>6, <1>7, <1>8, <1>9, <1>10, <1>11 DEF IInv

\* The response hands its token to the client, which may present it from then on.
LEMMA ReplyStep ==
    ASSUME IInv, NEW s \in Slots, Reply(s)
    PROVE  IInv'
<1>1. /\ pc[s] = "reply" /\ pc' = [pc EXCEPT ![s] = "idle"] /\ req' = [req EXCEPT ![s] = None]
      /\ ent' = [ent EXCEPT ![s] = None] /\ new' = [new EXCEPT ![s] = None]
      /\ known' = known \cup ({new[s]} \ {None})
      /\ UNCHANGED <<account, tokens, audited, family, origin, held, loggedOut, replaced,
                     escaped, raced>>
  BY DEF Reply, Finish, history
<1>2. TypeOK'
  BY <1>1 DEF IInv, TypeOK
<1>3. RequestShape'
  BY <1>1 DEF IInv, TypeOK, RequestShape, LoginAt, RefreshAt
<1>4. IdsDrawn'
  BY <1>1, ConstantsAssumption DEF IInv, TypeOK, IdsDrawn, Ended
<1>5. Provenance'
  BY <1>1 DEF IInv, Provenance
<1>6. EntityProvenance'
  BY <1>1 DEF IInv, EntityProvenance
<1>7. SessionContinuity'
  BY <1>1 DEF IInv, SessionContinuity, Ended
<1>8. SuccessorStored'
  BY <1>1 DEF IInv, SuccessorStored, Ended
<1>9. EndedStaysEnded'
  BY <1>1 DEF IInv, EndedStaysEnded, Ended
<1>10. HoldersEscaped'
  BY <1>1 DEF IInv, HoldersEscaped, Ended
<1> QED BY <1>2, <1>3, <1>4, <1>5, <1>6, <1>7, <1>8, <1>9, <1>10 DEF IInv

\* login() writes its audit row only after the row of its session.
LEMMA LoginAuditStep ==
    ASSUME IInv, NEW s \in Slots, LoginAudit(s)
    PROVE  IInv'
<1>1. /\ pc[s] = "audit" /\ pc' = [pc EXCEPT ![s] = "reply"]
      /\ audited' \in {audited, audited \cup {new[s]}}
      /\ UNCHANGED <<req, account, tokens, known, ent, new, family, origin, held,
                     loggedOut, replaced, escaped, raced>>
  BY DEF LoginAudit, Goto, history
<1>2. TypeOK'
  BY <1>1 DEF IInv, TypeOK, IdsDrawn
<1>3. RequestShape'
  BY <1>1, ConstantsAssumption DEF IInv, RequestShape, LoginAt, RefreshAt
<1>4. IdsDrawn'
  BY <1>1 DEF IInv, IdsDrawn, Ended
<1>5. Provenance'
  BY <1>1 DEF IInv, IdsDrawn, Provenance
<1>6. EntityProvenance'
  BY <1>1 DEF IInv, EntityProvenance
<1>7. SessionContinuity'
  BY <1>1 DEF IInv, SessionContinuity, Ended
<1>8. SuccessorStored'
  BY <1>1 DEF IInv, SuccessorStored, Ended
<1>9. EndedStaysEnded'
  BY <1>1 DEF IInv, EndedStaysEnded, Ended
<1>10. HoldersEscaped'
  BY <1>1 DEF IInv, HoldersEscaped, Ended
<1> QED BY <1>2, <1>3, <1>4, <1>5, <1>6, <1>7, <1>8, <1>9, <1>10 DEF IInv

\* refresh() finds a redeemable row and keeps the entity across its next awaits:
\* if the session ends meanwhile, the request is what may bring it back.
LEMMA RefreshFindStep ==
    ASSUME IInv, NEW s \in Slots, RefreshFind(s)
    PROVE  IInv'
<1>1. /\ pc[s] = "find" /\ pc' = [pc EXCEPT ![s] = "renew"]
      /\ req[s].token \in DOMAIN tokens
      /\ req[s].visitor = NoVisitor \/ tokens[req[s].token].visitor = req[s].visitor
      /\ ent' = [ent EXCEPT ![s] = tokens[req[s].token]]
      /\ UNCHANGED <<req, account, tokens, audited, known, new, family, origin, held,
                     loggedOut, replaced, escaped, raced>>
  BY DEF RefreshFind, Redeemable, Found, Goto, table, history
<1>2. req[s] \in RefreshReq
  BY <1>1 DEF IInv, RequestShape, RefreshAt
<1>3. TypeOK'
  BY <1>1 DEF IInv, TypeOK
<1>4. RequestShape'
  BY <1>1, <1>2, SMTT(30) DEF IInv, TypeOK, RequestShape, LoginAt
<1>5. IdsDrawn'
  BY <1>1 DEF IInv, IdsDrawn, Ended
<1>6. Provenance'
  BY <1>1 DEF IInv, Provenance
<1>7. EntityProvenance'
  BY <1>1 DEF IInv, TypeOK, EntityProvenance, Provenance
<1>8. SessionContinuity'
  BY <1>1 DEF IInv, SessionContinuity, Ended
<1>9. SuccessorStored'
  BY <1>1 DEF IInv, SuccessorStored, Ended
<1>10. EndedStaysEnded'
  BY <1>1 DEF IInv, EndedStaysEnded, Ended
<1>11. HoldersEscaped'
  BY <1>1 DEF IInv, HoldersEscaped, Ended, EndedStaysEnded
<1> QED BY <1>3, <1>4, <1>5, <1>6, <1>7, <1>8, <1>9, <1>10, <1>11 DEF IInv

\* login() deletes every row of its user and visitor: each session it ends loses
\* all its rows, and those a refresh still holds an entity of are marked.
LEMMA LoginCleanupStep ==
    ASSUME IInv, NEW s \in Slots, LoginCleanup(s)
    PROVE  IInv'
<1> DEFINE victims == CleanupVictims(req[s].user, req[s].visitor)
<1>1. /\ pc[s] = "cleanup" /\ pc' = [pc EXCEPT ![s] = "save"]
      /\ tokens' = Without(victims)
      /\ replaced' = replaced \cup Families(victims)
      /\ escaped' = escaped \cup Escaping(victims)
      /\ UNCHANGED <<req, account, audited, known, ent, new, family, origin, held,
                     loggedOut, raced>>
  BY DEF LoginCleanup, Goto
<1>2. /\ DOMAIN tokens' = DOMAIN tokens \ victims
      /\ \A j \in DOMAIN tokens' : tokens'[j] = tokens[j]
  BY <1>1 DEF Without, Restrict
<1>3. victims \subseteq DOMAIN tokens
  BY DEF CleanupVictims
<1>4. \A i \in DOMAIN tokens, j \in victims : family[i] = family[j] => i \in victims
  BY DEF CleanupVictims, IInv, Provenance
<1>5. Families(victims) \subseteq DOMAIN origin /\ Escaping(victims) \subseteq Families(victims)
  BY <1>3 DEF Families, Escaping, IInv, IdsDrawn
<1> HIDE DEF victims
<1>6. TypeOK'
  BY <1>1, <1>2, <1>5 DEF IInv, TypeOK
<1>7. RequestShape'
  BY <1>1 DEF IInv, RequestShape, LoginAt, RefreshAt
<1>8. IdsDrawn'
  BY <1>1, <1>2, <1>5 DEF IInv, IdsDrawn, Ended
<1>9. Provenance'
  BY <1>1, <1>2 DEF IInv, Provenance
<1>10. EntityProvenance'
  BY <1>1 DEF IInv, EntityProvenance
<1>11. SessionContinuity'
  BY <1>1, <1>2 DEF IInv, SessionContinuity, Ended, Families
<1>12. SuccessorStored'
  BY <1>1, <1>2, <1>4 DEF IInv, SuccessorStored, Ended, Families
<1>13. EndedStaysEnded'
  BY <1>1, <1>2, <1>4 DEF IInv, EndedStaysEnded, Ended, Families
<1>14. HoldersEscaped'
  BY <1>1 DEF IInv, HoldersEscaped, Ended, Escaping
<1> QED BY <1>6, <1>7, <1>8, <1>9, <1>10, <1>11, <1>12, <1>13, <1>14 DEF IInv

\* logout() deletes every row of the user of its access token and its visitor:
\* each session it ends loses all its rows, and those a refresh still holds an
\* entity of are marked.
LEMMA LogoutDeleteStep ==
    ASSUME IInv, NEW s \in Slots, LogoutDelete(s)
    PROVE  IInv'
<1> DEFINE victims == LogoutVictims(req[s].user, req[s].visitor)
<1>1. /\ pc[s] = "delete" /\ pc' = [pc EXCEPT ![s] = "reply"]
      /\ tokens' = Without(victims)
      /\ loggedOut' = loggedOut \cup Families(victims)
      /\ escaped' = escaped \cup Escaping(victims)
      /\ UNCHANGED <<req, account, audited, known, ent, new, family, origin, held, replaced, raced>>
  BY DEF LogoutDelete, Goto
<1>2. /\ DOMAIN tokens' = DOMAIN tokens \ victims
      /\ \A j \in DOMAIN tokens' : tokens'[j] = tokens[j]
  BY <1>1 DEF Without, Restrict
<1>3. victims \subseteq DOMAIN tokens
  BY DEF LogoutVictims
<1>4. \A i \in DOMAIN tokens, j \in victims : family[i] = family[j] => i \in victims
  BY DEF LogoutVictims, IInv, Provenance
<1>5. Families(victims) \subseteq DOMAIN origin /\ Escaping(victims) \subseteq Families(victims)
  BY <1>3 DEF Families, Escaping, IInv, IdsDrawn
<1> HIDE DEF victims
<1>6. TypeOK'
  BY <1>1, <1>2, <1>5 DEF IInv, TypeOK
<1>7. RequestShape'
  BY <1>1, ConstantsAssumption DEF IInv, RequestShape, LoginAt, RefreshAt
<1>8. IdsDrawn'
  BY <1>1, <1>2, <1>5 DEF IInv, IdsDrawn, Ended
<1>9. Provenance'
  BY <1>1, <1>2 DEF IInv, Provenance
<1>10. EntityProvenance'
  BY <1>1 DEF IInv, EntityProvenance
<1>11. SessionContinuity'
  BY <1>1, <1>2 DEF IInv, SessionContinuity, Ended, Families
<1>12. SuccessorStored'
  BY <1>1, <1>2, <1>4 DEF IInv, SuccessorStored, Ended, Families
<1>13. EndedStaysEnded'
  BY <1>1, <1>2, <1>4 DEF IInv, EndedStaysEnded, Ended, Families
<1>14. HoldersEscaped'
  BY <1>1 DEF IInv, HoldersEscaped, Ended, Escaping
<1> QED BY <1>6, <1>7, <1>8, <1>9, <1>10, <1>11, <1>12, <1>13, <1>14 DEF IInv

\* refresh() saves the entity it read under a new id: a row of the same session,
\* user, visitor and role, even when the session was ended after it was read.
LEMMA RefreshSaveStep ==
    ASSUME IInv, NEW s \in Slots, RefreshSave(s)
    PROVE  IInv'
<1>1. PICK id \in Ids : /\ id \notin DOMAIN family
                        /\ tokens' = Put(tokens, id, Renewed(ent[s]))
                        /\ new' = [new EXCEPT ![s] = id]
                        /\ family' = Put(family, id, family[req[s].token])
  BY DEF RefreshSave, Fresh
<1>2. /\ pc[s] = "renew" /\ pc' = [pc EXCEPT ![s] = "purge"]
      /\ UNCHANGED <<req, account, audited, known, ent, origin, held, loggedOut,
                     replaced, escaped, raced>>
  BY DEF RefreshSave, Goto
<1>3. ent[s] \in Row /\ req[s] \in RefreshReq /\ req[s].token \in DOMAIN family
  BY <1>2 DEF IInv, RequestShape, RefreshAt, IdsDrawn
<1>4. /\ DOMAIN tokens' = DOMAIN tokens \cup {id}
      /\ tokens'[id] = Renewed(ent[s])
      /\ \A j \in DOMAIN tokens : tokens'[j] = tokens[j]
      /\ DOMAIN family' = DOMAIN family \cup {id}
      /\ family'[id] = family[req[s].token]
      /\ \A j \in DOMAIN family : family'[j] = family[j]
  BY <1>1 DEF IInv, IdsDrawn, Put
<1>5. /\ Renewed(ent[s]) \in Row
      /\ Renewed(ent[s]).user = ent[s].user
      /\ Renewed(ent[s]).visitor = ent[s].visitor
      /\ Renewed(ent[s]).role = ent[s].role
  BY <1>3 DEF Renewed, Row
<1>6. TypeOK'
  BY <1>1, <1>2, <1>3, <1>4, <1>5 DEF IInv, TypeOK
<1>7. RequestShape'
  BY <1>1, <1>2, <1>3, ConstantsAssumption DEF IInv, TypeOK, RequestShape, LoginAt
<1>8. IdsDrawn'
  BY <1>1, <1>2, <1>3, <1>4 DEF IInv, IdsDrawn, Ended
<1>9. Provenance'
  BY <1>2, <1>4, <1>5 DEF IInv, IdsDrawn, Provenance, EntityProvenance
<1>10. EntityProvenance'
  BY <1>2, <1>4 DEF IInv, RequestShape, IdsDrawn, EntityProvenance, RefreshAt
<1>11. SessionContinuity'
  BY <1>2, <1>4 DEF IInv, IdsDrawn, SessionContinuity, Ended
<1>12. SuccessorStored'
  BY <1>1, <1>2, <1>4 DEF IInv, TypeOK, RequestShape, IdsDrawn, SuccessorStored, RefreshAt, Ended
<1>13. EndedStaysEnded'
  BY <1>2, <1>4 DEF IInv, IdsDrawn, EndedStaysEnded, Ended, HoldersEscaped
<1>14. HoldersEscaped'
  BY <1>2, <1>4 DEF IInv, RequestShape, IdsDrawn, HoldersEscaped, RefreshAt, Ended
<1> QED BY <1>6, <1>7, <1>8, <1>9, <1>10, <1>11, <1>12, <1>13, <1>14 DEF IInv

\* refresh() deletes the token it was presented with, by id and user, after the
\* successor was saved: the session keeps a row.
LEMMA RefreshPurgeStep ==
    ASSUME IInv, NEW s \in Slots, RefreshPurge(s)
    PROVE  IInv'
<1> DEFINE victims == PurgeVictims(ent[s].user, req[s].token)
<1>1. /\ pc[s] = "purge" /\ pc' = [pc EXCEPT ![s] = "reply"]
      /\ tokens' = Without(victims)
      /\ UNCHANGED <<req, account, audited, known, ent, new, family, origin, held,
                     loggedOut, replaced, escaped, raced>>
  BY DEF RefreshPurge, Goto, history
<1>2. /\ DOMAIN tokens' = DOMAIN tokens \ victims
      /\ \A j \in DOMAIN tokens' : tokens'[j] = tokens[j]
  BY <1>1 DEF Without, Restrict
<1>3. req[s] \in RefreshReq /\ new[s] # None /\ victims \subseteq {req[s].token}
  BY <1>1 DEF IInv, RequestShape, RefreshAt, PurgeVictims
<1>4. \A t \in Slots : new[t] # None => new[t] \notin victims
  BY <1>3 DEF IInv, IdsDrawn
<1> HIDE DEF victims
<1>5. TypeOK'
  BY <1>1, <1>2 DEF IInv, TypeOK
<1>6. RequestShape'
  BY <1>1, <1>3, ConstantsAssumption DEF IInv, RequestShape, LoginAt
<1>7. IdsDrawn'
  BY <1>1, <1>2 DEF IInv, IdsDrawn, Ended
<1>8. Provenance'
  BY <1>1, <1>2 DEF IInv, Provenance
<1>9. EntityProvenance'
  BY <1>1 DEF IInv, EntityProvenance
<1>10. SessionContinuity'
  BY <1>1, <1>2, <1>3, <1>4 DEF IInv, SessionContinuity, Ended, SuccessorStored
<1>11. SuccessorStored'
  BY <1>1, <1>2, <1>4 DEF IInv, RequestShape, SuccessorStored, Ended
<1>12. EndedStaysEnded'
  BY <1>1, <1>2 DEF IInv, EndedStaysEnded, Ended
<1>13. HoldersEscaped'
  BY <1>1 DEF IInv, HoldersEscaped, Ended
<1> QED BY <1>5, <1>6, <1>7, <1>8, <1>9, <1>10, <1>11, <1>12, <1>13 DEF IInv

\* Time passing makes a row unredeemable and deletes nothing.
LEMMA ExpireStep ==
    ASSUME IInv, NEW id, Expire(id)
    PROVE  IInv'
<1>1. /\ id \in DOMAIN tokens
      /\ tokens' = [tokens EXCEPT ![id] = [@ EXCEPT !.live = FALSE]]
      /\ UNCHANGED <<account, audited, known, pc, req, ent, new, family, origin, held,
                     loggedOut, replaced, escaped, raced>>
  BY DEF Expire, local, history
<1>2. /\ DOMAIN tokens' = DOMAIN tokens
      /\ \A j \in DOMAIN tokens : /\ tokens'[j] \in Row
                                   /\ tokens'[j].user = tokens[j].user
                                   /\ tokens'[j].visitor = tokens[j].visitor
                                   /\ tokens'[j].role = tokens[j].role
  BY <1>1 DEF IInv, TypeOK, Row
<1>3. TypeOK'
  BY <1>1, <1>2 DEF IInv, TypeOK
<1>4. RequestShape'
  BY <1>1 DEF IInv, RequestShape
<1>5. IdsDrawn'
  BY <1>1 DEF IInv, IdsDrawn, Ended
<1>6. Provenance'
  BY <1>1 DEF IInv, Provenance
<1>7. EntityProvenance'
  BY <1>1 DEF IInv, EntityProvenance
<1>8. SessionContinuity'
  BY <1>1 DEF IInv, SessionContinuity, Ended
<1>9. SuccessorStored'
  BY <1>1 DEF IInv, SuccessorStored, Ended
<1>10. EndedStaysEnded'
  BY <1>1 DEF IInv, EndedStaysEnded, Ended
<1>11. HoldersEscaped'
  BY <1>1 DEF IInv, HoldersEscaped, Ended
<1> QED BY <1>3, <1>4, <1>5, <1>6, <1>7, <1>8, <1>9, <1>10, <1>11 DEF IInv

\* An administrator's update of a role reaches no row that exists: rows keep the
\* role of their login, which is still one the account held.
LEMMA SetRoleStep ==
    ASSUME IInv, NEW u \in Users, NEW role \in Roles, SetRole(u, role)
    PROVE  IInv'
<1>1. /\ account' = [account EXCEPT ![u] = role]
      /\ held' = [held EXCEPT ![u] = @ \cup {TokenRoleOf(role)}]
      /\ UNCHANGED <<tokens, audited, known, pc, req, ent, new,
                     family, origin, loggedOut, replaced, escaped, raced>>
  BY DEF SetRole, local
<1>2. TokenRoleOf(role) \in TokenRoles
  BY DEF TokenRoleOf, TokenRoles
<1>4. TypeOK'
  BY <1>1, <1>2 DEF IInv, TypeOK
<1>5. RequestShape'
  BY <1>1 DEF IInv, RequestShape
<1>6. IdsDrawn'
  BY <1>1 DEF IInv, IdsDrawn, Ended
<1>7. Provenance'
  BY <1>1 DEF IInv, Provenance
<1>8. EntityProvenance'
  BY <1>1 DEF IInv, TypeOK, EntityProvenance
<1>9. SessionContinuity'
  BY <1>1 DEF IInv, SessionContinuity, Ended
<1>10. SuccessorStored'
  BY <1>1 DEF IInv, SuccessorStored, Ended
<1>11. EndedStaysEnded'
  BY <1>1 DEF IInv, EndedStaysEnded, Ended
<1>12. HoldersEscaped'
  BY <1>1 DEF IInv, HoldersEscaped, Ended
<1> QED BY <1>4, <1>5, <1>6, <1>7, <1>8, <1>9, <1>10, <1>11, <1>12 DEF IInv

\* The deletion of an account deletes no row of refresh_tokens.
LEMMA RemoveAccountStep ==
    ASSUME IInv, NEW u \in Users, RemoveAccount(u)
    PROVE  IInv'
<1>1. /\ account' = [account EXCEPT ![u] = None]
      /\ UNCHANGED <<tokens, audited, known, pc, req, ent, new, family, origin, held,
                     loggedOut, replaced, escaped, raced>>
  BY DEF RemoveAccount, local, history
<1>2. TypeOK'
  BY <1>1 DEF IInv, TypeOK
<1>3. RequestShape'
  BY <1>1 DEF IInv, RequestShape
<1>4. IdsDrawn'
  BY <1>1 DEF IInv, IdsDrawn, Ended
<1>5. Provenance'
  BY <1>1 DEF IInv, Provenance
<1>6. EntityProvenance'
  BY <1>1 DEF IInv, EntityProvenance
<1>7. SessionContinuity'
  BY <1>1 DEF IInv, SessionContinuity, Ended
<1>8. SuccessorStored'
  BY <1>1 DEF IInv, SuccessorStored, Ended
<1>9. EndedStaysEnded'
  BY <1>1 DEF IInv, EndedStaysEnded, Ended
<1>10. HoldersEscaped'
  BY <1>1 DEF IInv, HoldersEscaped, Ended
<1> QED BY <1>2, <1>3, <1>4, <1>5, <1>6, <1>7, <1>8, <1>9, <1>10 DEF IInv

\* The three routes bring in a login, a refresh or a logout, each with the inputs
\* ArriveStep assumes.
LEMMA ArrivalStep ==
    ASSUME IInv, NEW s \in Slots, LoginArrive(s) \/ RefreshArrive(s) \/ LogoutArrive(s)
    PROVE  IInv'
<1>1. CASE LoginArrive(s)
  <2>1. PICK u \in Users, v \in ReqVisitors :
            Arrive(s, [op |-> "login", user |-> u, visitor |-> v], "validate")
    BY <1>1 DEF LoginArrive
  <2> QED BY <2>1, ArriveStep DEF LoginReq
<1>2. CASE RefreshArrive(s)
  <2>1. PICK id \in known, v \in ReqVisitors :
            Arrive(s, [op |-> "refresh", token |-> id, visitor |-> v], "find")
    BY <1>2 DEF RefreshArrive
  <2>2. id \in Ids
    BY DEF IInv, TypeOK
  <2> QED BY <2>1, <2>2, ArriveStep DEF RefreshReq
<1>3. CASE LogoutArrive(s)
  <2>1. PICK id \in known, v \in ReqVisitors :
            Arrive(s, [op |-> "logout", user |-> origin[family[id]].user, visitor |-> v], "delete")
    BY <1>3 DEF LogoutArrive
  <2>2. origin[family[id]].user \in Users
    BY DEF IInv, TypeOK, IdsDrawn, Origin
  <2> QED BY <2>1, <2>2, ArriveStep DEF LogoutReq
<1> QED BY <1>1, <1>2, <1>3

\* The invariant holds when the program starts on an empty table.
LEMMA InitIInv == Init => IInv
<1> SUFFICES ASSUME Init PROVE IInv
  OBVIOUS
<1>1. \A u \in Users : account[u] \in Roles /\ TokenRoleOf(account[u]) \in TokenRoles
  BY ConstantsAssumption DEF Init, TokenRoleOf, TokenRoles, UserRoles
<1>2. /\ DOMAIN tokens = {} /\ DOMAIN family = {} /\ DOMAIN origin = {}
      /\ \A s \in Slots : pc[s] = "idle" /\ req[s] = None /\ ent[s] = None /\ new[s] = None
  BY DEF Init
<1>3. TypeOK
  BY <1>1, <1>2 DEF Init, TypeOK
<1>4. RequestShape /\ IdsDrawn
  BY <1>2, ConstantsAssumption DEF Init, RequestShape, IdsDrawn, LoginAt, RefreshAt, Ended
<1>5. EntityProvenance
  BY <1>1, <1>2 DEF Init, EntityProvenance
<1>6. Provenance /\ SessionContinuity /\ SuccessorStored /\ EndedStaysEnded /\ HoldersEscaped
  BY <1>2 DEF Init, Provenance, SessionContinuity, SuccessorStored, EndedStaysEnded, HoldersEscaped
<1> QED BY <1>3, <1>4, <1>5, <1>6 DEF IInv

\* Every step of every request, of the clock and of the administration preserves
\* the invariant.
LEMMA NextIInv == IInv /\ [Next]_vars => IInv'
<1> SUFFICES ASSUME IInv, [Next]_vars PROVE IInv'
  OBVIOUS
<1>1. ASSUME NEW s \in Slots, LoginArrive(s) \/ RefreshArrive(s) \/ LogoutArrive(s)
      PROVE  IInv'
  BY <1>1, ArrivalStep
<1>2. ASSUME NEW s \in Slots, Handle(s) PROVE IInv'
  BY <1>2, LoginValidateStep, LoginRejectStep, LoginCleanupStep, LoginSaveStep, LoginAuditStep,
     RefreshFindStep, RefreshRejectStep, RefreshSaveStep, RefreshPurgeStep,
     LogoutDeleteStep, ReplyStep DEF Handle
<1>3. ASSUME NEW s \in Slots, Fail(s) PROVE IInv'
  BY <1>3, FailStep
<1>4. ASSUME NEW id \in Ids, Expire(id) PROVE IInv'
  BY <1>4, ExpireStep
<1>5. ASSUME NEW u \in Users, NEW role \in Roles, SetRole(u, role) PROVE IInv'
  BY <1>5, SetRoleStep
<1>6. ASSUME NEW u \in Users, RemoveAccount(u) PROVE IInv'
  BY <1>6, RemoveAccountStep
<1>7. CASE UNCHANGED vars
  BY <1>7 DEF vars, table, local, history, IInv, TypeOK, RequestShape, IdsDrawn, Provenance,
     EntityProvenance, SessionContinuity, SuccessorStored, EndedStaysEnded, HoldersEscaped, Ended
<1> QED BY <1>1, <1>2, <1>3, <1>4, <1>5, <1>6, <1>7 DEF Next

\* The service, however its requests interleave and fail, is always in a state
\* that satisfies the inductive invariant.
THEOREM Invariance == Spec => []IInv
BY InitIInv, NextIInv, PTL DEF Spec

\* The table, the history and what requests hold in memory keep their types.
THEOREM TypeCorrect == Spec => []TypeOK
<1>1. IInv => TypeOK
  BY DEF IInv
<1> QED BY <1>1, Invariance, PTL

\* A row of refresh_tokens, after any number of refreshes, concurrent logins and
\* role changes, belongs to the user and visitor of the login it descends from and
\* has the role of that login; the audit log has no login without a session.
THEOREM RowsKeepTheirOrigin == Spec => []Provenance
<1>1. IInv => Provenance
  BY DEF IInv
<1> QED BY <1>1, Invariance, PTL

\* Because refresh() saves the successor before it deletes the token presented, no
\* interleaving of refreshes and no failure leaves a session without a row: only a
\* logout or a later login does.
THEOREM RefreshKeepsTheSession == Spec => []SessionContinuity
<1>1. IInv => SessionContinuity
  BY DEF IInv
<1> QED BY <1>1, Invariance, PTL

\* A session that logout() or the clean-up of a login deleted has a row again only
\* if a refresh had read one of its rows and not saved yet when it was deleted.
THEOREM OnlyHeldSessionsReturn == Spec => []EndedStaysEnded
<1>1. IInv => EndedStaysEnded
  BY DEF IInv
<1> QED BY <1>1, Invariance, PTL

\* Only the awaits that save or delete rows, and expiry, change the table or which
\* sessions have ended.
LEMMA TableStep ==
    ASSUME IInv, [Next]_vars
    PROVE  \/ UNCHANGED <<tokens, family, loggedOut, replaced, escaped>>
           \/ \E s \in Slots : \/ LoginCleanup(s) \/ LogoutDelete(s) \/ RefreshPurge(s)
                               \/ LoginSave(s) \/ RefreshSave(s)
           \/ \E id \in Ids : Expire(id)
<1> USE DEF table, local, history
<1>1. ASSUME NEW s \in Slots, LoginArrive(s) \/ RefreshArrive(s) \/ LogoutArrive(s)
      PROVE  UNCHANGED <<tokens, family, loggedOut, replaced, escaped>>
  BY <1>1 DEF LoginArrive, RefreshArrive, LogoutArrive, Arrive
<1>2. ASSUME NEW s \in Slots,
             \/ LoginValidate(s) \/ LoginReject(s) \/ LoginAudit(s)
             \/ RefreshFind(s) \/ RefreshReject(s) \/ Reply(s) \/ Fail(s)
      PROVE  UNCHANGED <<tokens, family, loggedOut, replaced, escaped>>
  BY <1>2 DEF LoginValidate, LoginReject, LoginAudit, RefreshFind, RefreshReject, Reply, Fail
<1>3. ASSUME NEW u \in Users, RemoveAccount(u) \/ \E role \in Roles : SetRole(u, role)
      PROVE  UNCHANGED <<tokens, family, loggedOut, replaced, escaped>>
  BY <1>3 DEF RemoveAccount, SetRole
<1>4. CASE UNCHANGED vars
  BY <1>4 DEF vars
<1> QED BY <1>1, <1>2, <1>3, <1>4 DEF Next, Handle

\* A refresh token that was deleted (replaced, logged out, cleaned up) is never
\* stored again: login() and refresh() save under ids that were never drawn.
THEOREM NoTokenReturns == Spec => SpentForGood
<1> DEFINE Step == \A i \in DOMAIN tokens' \ DOMAIN tokens : i \notin DOMAIN family
<1>1. IInv /\ [Next]_vars => Step
  <2> SUFFICES ASSUME IInv, [Next]_vars PROVE Step
    OBVIOUS
  <2>1. CASE UNCHANGED tokens
    BY <2>1
  <2>2. CASE \E s \in Slots : LoginCleanup(s) \/ LogoutDelete(s) \/ RefreshPurge(s)
    BY <2>2 DEF LoginCleanup, LogoutDelete, RefreshPurge, Without, Restrict
  <2>3. CASE \E s \in Slots : LoginSave(s) \/ RefreshSave(s)
    <3>1. PICK id \in Ids : Fresh(id) /\ \E row : tokens' = Put(tokens, id, row)
      BY <2>3 DEF LoginSave, RefreshSave
    <3> QED BY <3>1 DEF Fresh, Put
  <2>4. CASE \E id \in Ids : Expire(id)
    BY <2>4 DEF Expire
  <2> QED BY <2>1, <2>2, <2>3, <2>4, TableStep
<1> QED BY <1>1, Invariance, PTL DEF Spec, SpentForGood

\* An empty table is a service without sessions.
LEMMA LifecycleInit == Init => Lifecycle!Init
BY DEF Init, Lifecycle!Init, Families, Ended

\* The clean-up of a login and a logout end whole sessions, since they delete every
\* row of their user and visitor.
LEMMA EndingStep ==
    ASSUME IInv, NEW s \in Slots, LoginCleanup(s) \/ LogoutDelete(s)
    PROVE  Lifecycle!Next
<1>1. PICK victims :
        /\ \/ victims = CleanupVictims(req[s].user, req[s].visitor)
           \/ victims = LogoutVictims(req[s].user, req[s].visitor)
        /\ tokens' = Without(victims)
        /\ Ended' = Ended \cup Families(victims)
        /\ escaped' = escaped \cup Escaping(victims)
        /\ family' = family
  BY DEF LoginCleanup, LogoutDelete, Ended
<1>2. victims \subseteq DOMAIN tokens
  BY <1>1 DEF CleanupVictims, LogoutVictims
<1>3. \A i \in DOMAIN tokens, j \in victims : family[i] = family[j] => i \in victims
  BY <1>1 DEF CleanupVictims, LogoutVictims, IInv, Provenance
<1>4. DOMAIN tokens' = DOMAIN tokens \ victims
  BY <1>1 DEF Without, Restrict
<1>5. Families(DOMAIN tokens)' = Families(DOMAIN tokens) \ Families(victims)
  BY <1>1, <1>2, <1>3, <1>4 DEF Families
<1>6. /\ Families(victims) \subseteq Families(DOMAIN tokens)
      /\ Escaping(victims) \subseteq Families(victims)
  BY <1>2 DEF Families, Escaping
<1>7. Lifecycle!End(Families(victims), Escaping(victims))
  BY <1>1, <1>5 DEF Lifecycle!End
<1> QED BY <1>6, <1>7 DEF Lifecycle!Next

\* The save of a login opens a session that never was.
LEMMA OpeningStep ==
    ASSUME IInv, NEW s \in Slots, LoginSave(s)
    PROVE  Lifecycle!Next
<1>1. PICK id \in Ids : /\ id \notin DOMAIN family
                        /\ tokens' = Put(tokens, id, ent[s])
                        /\ family' = Put(family, id, id)
  BY DEF LoginSave, Fresh
<1>2. UNCHANGED <<Ended, escaped>>
  BY DEF LoginSave, Ended
<1>3. id \notin Ended /\ id \notin Families(DOMAIN tokens)
  BY <1>1 DEF IInv, IdsDrawn, Families
<1>4. Families(DOMAIN tokens)' = Families(DOMAIN tokens) \cup {id}
  <2>1. DOMAIN tokens \subseteq DOMAIN family
    BY DEF IInv, IdsDrawn
  <2>2. DOMAIN tokens' = DOMAIN tokens \cup {id}
    BY <1>1 DEF Put
  <2>3. family'[id] = id /\ \A i \in DOMAIN tokens : family'[i] = family[i]
    BY <1>1, <2>1 DEF Put
  <2> QED BY <2>2, <2>3 DEF Families
<1>5. Lifecycle!Open(id)
  BY <1>2, <1>3, <1>4 DEF Lifecycle!Open
<1> QED BY <1>5 DEF Lifecycle!Next

\* The save of a refresh leaves the sessions as they are, or reopens one that was
\* ended while the request held its row.
LEMMA RenewingStep ==
    ASSUME IInv, NEW s \in Slots, RefreshSave(s)
    PROVE  Lifecycle!Next \/ UNCHANGED Lifecycle!lifecycle
<1> DEFINE f == family[req[s].token]
<1>1. PICK id \in Ids : /\ id \notin DOMAIN family
                        /\ tokens' = Put(tokens, id, Renewed(ent[s]))
                        /\ family' = Put(family, id, f)
  BY DEF RefreshSave, Fresh
<1>2. pc[s] = "renew" /\ UNCHANGED <<Ended, escaped>>
  BY DEF RefreshSave, Ended
<1>3. req[s].token \in DOMAIN family /\ f \in DOMAIN origin /\ f \in Ids
  BY <1>2 DEF IInv, RequestShape, RefreshAt, IdsDrawn, TypeOK
<1>4. Families(DOMAIN tokens)' = Families(DOMAIN tokens) \cup {f}
  <2> HIDE DEF f
  <2>1. DOMAIN tokens \subseteq DOMAIN family
    BY DEF IInv, IdsDrawn
  <2>2. DOMAIN tokens' = DOMAIN tokens \cup {id}
    BY <1>1 DEF Put
  <2>3. family'[id] = f /\ \A i \in DOMAIN tokens : family'[i] = family[i]
    BY <1>1, <2>1 DEF Put
  <2> QED BY <2>2, <2>3 DEF Families
<1>5. CASE f \in Families(DOMAIN tokens)
  BY <1>2, <1>4, <1>5 DEF Lifecycle!lifecycle
<1>6. CASE f \notin Families(DOMAIN tokens)
  <2>1. f \in Ended
    BY <1>3, <1>6 DEF IInv, SessionContinuity, Families
  <2>2. f \in escaped
    BY <1>2, <2>1 DEF IInv, HoldersEscaped
  <2>3. Lifecycle!Reopen(f)
    BY <1>2, <1>4, <2>2 DEF Lifecycle!Reopen
  <2> QED BY <1>3, <2>3 DEF Lifecycle!Next
<1> QED BY <1>5, <1>6

\* The delete that ends a refresh changes no session: the successor it saved is
\* stored, unless the session has no row left at all.
LEMMA PurgingStep ==
    ASSUME IInv, NEW s \in Slots, RefreshPurge(s)
    PROVE  UNCHANGED Lifecycle!lifecycle
<1> DEFINE token == req[s].token
           victims == PurgeVictims(ent[s].user, token)
<1>1. /\ pc[s] = "purge" /\ tokens' = Without(victims)
      /\ UNCHANGED <<family, Ended, escaped>>
  BY DEF RefreshPurge, history, Ended
<1>2. DOMAIN tokens' = DOMAIN tokens \ victims /\ victims \subseteq {token} \cap DOMAIN tokens
  BY <1>1 DEF Without, Restrict, PurgeVictims
<1>3. token \in known /\ new[s] \notin known /\ family[new[s]] = family[token]
  BY <1>1 DEF IInv, RequestShape, RefreshAt, IdsDrawn, SuccessorStored
<1>4. victims # {} => new[s] \in DOMAIN tokens'
  BY <1>1, <1>2, <1>3 DEF IInv, SuccessorStored
<1> HIDE DEF victims
<1>5. Families(DOMAIN tokens)' = Families(DOMAIN tokens)
  BY <1>1, <1>2, <1>3, <1>4 DEF Families
<1> QED BY <1>1, <1>5 DEF Lifecycle!lifecycle

\* login(), refresh() and logout() implement SessionLifecycle: a session is open
\* while some row of its family is stored, whichever awaits the requests are at.
THEOREM ServiceImplementsLifecycle == Spec => ImplementsLifecycle
<1>1. IInv /\ [Next]_vars => [Lifecycle!Next]_(Lifecycle!lifecycle)
  <2> SUFFICES ASSUME IInv, [Next]_vars
               PROVE  Lifecycle!Next \/ UNCHANGED Lifecycle!lifecycle
    OBVIOUS
  <2>1. CASE UNCHANGED <<tokens, family, loggedOut, replaced, escaped>>
    BY <2>1 DEF Lifecycle!lifecycle, Families, Ended
  <2>2. CASE \E s \in Slots : LoginCleanup(s) \/ LogoutDelete(s)
    BY <2>2, EndingStep
  <2>3. CASE \E s \in Slots : LoginSave(s)
    BY <2>3, OpeningStep
  <2>4. CASE \E s \in Slots : RefreshSave(s)
    BY <2>4, RenewingStep
  <2>5. CASE \E s \in Slots : RefreshPurge(s)
    BY <2>5, PurgingStep
  <2>6. CASE \E id \in Ids : Expire(id)
    BY <2>6 DEF Expire, history, Lifecycle!lifecycle, Families, Ended
  <2> QED BY <2>1, <2>2, <2>3, <2>4, <2>5, <2>6, TableStep
<1> QED BY <1>1, LifecycleInit, Invariance, PTL DEF Spec, ImplementsLifecycle, Lifecycle!Spec
----------------------------------------------------------------------------
\* SerialSession: a pair of user and visitor whose requests did not overlap has
\* one token at most, and its client knows it.  SerialInv says what the rows of
\* such a pair are at each await of the one request it has in flight.


Pairs == Users \X Visitors

RowsOf(pair) == {i \in DOMAIN tokens : tokens[i].user = pair[1] /\ tokens[i].visitor = pair[2]}

\* What SerialSession says of a pair that nobody works on.
Settled(pair) ==
    /\ RowsOf(pair) \subseteq known
    /\ \A i, j \in RowsOf(pair) : i = j

\* The rows of a pair at each await of the one request that works on it.
Progress(s, pair) ==
    /\ pc[s] \in {"validate", "cleanup", "find"} => Settled(pair)
    /\ pc[s] = "save" => RowsOf(pair) = {}
    /\ pc[s] = "renew" => RowsOf(pair) \subseteq {req[s].token}
    /\ pc[s] = "purge" => RowsOf(pair) \subseteq {req[s].token, new[s]}
    /\ pc[s] \in {"audit", "reply"} => RowsOf(pair) \subseteq {new[s]}

Alone(s, pair) == \A t \in Slots : Contends(t, pair) => t = s

Serial(pair) ==
    /\ (\A s \in Slots : ~ Contends(s, pair)) => Settled(pair)
    /\ \A s \in Slots : Contends(s, pair) => Alone(s, pair) /\ Progress(s, pair)

SerialInv == \A pair \in Pairs \ raced : Serial(pair)

\* The history is only added to.
Grown ==
    /\ \A i \in DOMAIN family : i \in DOMAIN family' /\ family'[i] = family[i]
    /\ \A f \in DOMAIN origin : f \in DOMAIN origin' /\ origin'[f] = origin[f]
    /\ known \subseteq known' /\ raced \subseteq raced'

----------------------------------------------------------------------------
(* What every step does, or leaves alone.                                  *)

\* Saves add to the history, a reply to what clients know.
LEMMA HistoryGrows == ASSUME IInv, Next PROVE Grown
<1> USE DEF table, local, history
<1>1. ASSUME NEW s \in Slots, LoginSave(s) PROVE Grown
  <2>1. PICK id \in Ids : /\ id \notin DOMAIN family
                          /\ family' = Put(family, id, id)
                          /\ origin' = Put(origin, id, [user    |-> ent[s].user,
                                                        visitor |-> ent[s].visitor,
                                                        role    |-> ent[s].role])
                          /\ UNCHANGED <<known, raced>>
    BY <1>1 DEF LoginSave, Fresh
  <2>2. id \notin DOMAIN origin
    BY <2>1 DEF IInv, IdsDrawn
  <2> QED BY <2>1, <2>2 DEF Grown, Put
<1>2. ASSUME NEW s \in Slots, RefreshSave(s) PROVE Grown
  <2>1. PICK id \in Ids : /\ id \notin DOMAIN family
                          /\ family' = Put(family, id, family[req[s].token])
                          /\ UNCHANGED <<origin, known, raced>>
    BY <1>2 DEF RefreshSave, Fresh
  <2> QED BY <2>1 DEF Grown, Put
<1>3. ASSUME NEW s \in Slots, LoginArrive(s) \/ RefreshArrive(s) \/ LogoutArrive(s)
      PROVE  Grown
  BY <1>3 DEF LoginArrive, RefreshArrive, LogoutArrive, Arrive, Grown
<1>4. ASSUME NEW s \in Slots,
             \/ LoginValidate(s) \/ LoginReject(s) \/ LoginCleanup(s) \/ LoginAudit(s)
             \/ RefreshFind(s) \/ RefreshReject(s) \/ RefreshPurge(s)
             \/ LogoutDelete(s) \/ Reply(s) \/ Fail(s)
      PROVE  Grown
  BY <1>4 DEF LoginValidate, LoginReject, LoginCleanup, LoginAudit, RefreshFind, RefreshReject,
              RefreshPurge, LogoutDelete, Reply, Fail, Grown
<1>5. ASSUME (\E id \in Ids : Expire(id)) \/ (\E u \in Users : RemoveAccount(u))
             \/ (\E u \in Users, role \in Roles : SetRole(u, role))
      PROVE  Grown
  BY <1>5 DEF Expire, RemoveAccount, SetRole, Grown
<1> QED BY <1>1, <1>2, <1>3, <1>4, <1>5 DEF Next, Handle

\* A request in flight is a login, a refresh of a token that was drawn, or a logout.
LEMMA InFlight ==
    ASSUME IInv, NEW s \in Slots, pc[s] # "idle"
    PROVE  /\ req[s] \in LoginReq \cup RefreshReq \cup LogoutReq
           /\ req[s] \in RefreshReq => /\ req[s].token \in known
                                       /\ req[s].token \in DOMAIN family
                                       /\ family[req[s].token] \in DOMAIN origin
<1>1. req[s] # None
  BY ConstantsAssumption DEF IInv, TypeOK, RequestShape, LoginAt, RefreshAt
<1> QED BY <1>1 DEF IInv, TypeOK, IdsDrawn

\* A request works on one pair from its arrival to its end.
LEMMA SamePair ==
    ASSUME IInv, Grown, NEW s \in Slots, NEW pair,
           pc'[s] = "idle" <=> pc[s] = "idle", req'[s] = req[s]
    PROVE  Contends(s, pair)' <=> Contends(s, pair)
<1>1. CASE pc[s] = "idle"
  BY <1>1 DEF Contends
<1>2. CASE pc[s] # "idle" /\ req[s] \in RefreshReq
  BY <1>2, InFlight DEF Contends, PairOf, Grown, RefreshReq
<1>3. CASE pc[s] # "idle" /\ req[s] \in LoginReq \cup LogoutReq
  BY <1>3 DEF Contends, PairOf, LoginReq, LogoutReq
<1> QED BY <1>1, <1>2, <1>3, InFlight

\* A step that leaves alone who works on a pair, and adds no row to it.
LEMMA Aside ==
    ASSUME NEW pair, Serial(pair), Grown,
           RowsOf(pair)' \subseteq RowsOf(pair),
           \A t \in Slots : Contends(t, pair)' <=> Contends(t, pair),
           \A t \in Slots : Contends(t, pair) =>
               pc'[t] = pc[t] /\ req'[t] = req[t] /\ new'[t] = new[t]
    PROVE  Serial(pair)'
<1>1. Settled(pair) => Settled(pair)'
  BY DEF Settled, Grown
<1>2. ASSUME NEW s \in Slots, Contends(s, pair)
      PROVE  Alone(s, pair)' /\ Progress(s, pair)'
  <2>1. Alone(s, pair) /\ Progress(s, pair)
    BY <1>2, SMTT(30) DEF Serial
  <2>2. pc'[s] = pc[s] /\ req'[s] = req[s] /\ new'[s] = new[s]
    BY <1>2
  <2> QED BY <1>1, <2>1, <2>2 DEF Alone, Progress
<1> QED BY <1>1, <1>2, SMTT(30) DEF Serial

\* A request changes its own slot only.
LEMMA OneSlot ==
    ASSUME IInv, NEW s \in Slots,
           \/ LoginArrive(s) \/ RefreshArrive(s) \/ LogoutArrive(s) \/ Handle(s) \/ Fail(s),
           NEW t \in Slots, t # s
    PROVE  pc'[t] = pc[t] /\ req'[t] = req[t] /\ new'[t] = new[t]
<1> USE DEF IInv, TypeOK, table, local, history, Goto, Finish
<1>1. CASE LoginArrive(s) \/ RefreshArrive(s) \/ LogoutArrive(s)
  BY <1>1 DEF LoginArrive, RefreshArrive, LogoutArrive, Arrive
<1>2. CASE LoginValidate(s) \/ LoginReject(s) \/ LoginCleanup(s) \/ LoginSave(s) \/ LoginAudit(s)
  BY <1>2 DEF LoginValidate, LoginReject, LoginCleanup, LoginSave, LoginAudit
<1>3. CASE RefreshFind(s) \/ RefreshReject(s) \/ RefreshSave(s) \/ RefreshPurge(s)
  BY <1>3 DEF RefreshFind, RefreshReject, RefreshSave, RefreshPurge
<1>4. CASE LogoutDelete(s) \/ Reply(s) \/ Fail(s)
  BY <1>4 DEF LogoutDelete, Reply, Fail
<1> QED BY <1>1, <1>2, <1>3, <1>4 DEF Handle

----------------------------------------------------------------------------
(* A step of the request that works on the pair.                           *)

\* What it works on is the pair of its login, or of the token it was presented.
LEMMA OwnPair ==
    ASSUME IInv, NEW pair \in Pairs, NEW s \in Slots, Contends(s, pair)
    PROVE  /\ pc[s] # "idle" /\ pc[s] # "delete"
           /\ pair[1] \in Users /\ pair[2] \in Visitors /\ pair[2] # NoVisitor
           /\ \/ req[s] \in LoginReq /\ req[s].user = pair[1] /\ req[s].visitor = pair[2]
              \/ /\ req[s] \in RefreshReq
                 /\ origin[family[req[s].token]].user = pair[1]
                 /\ origin[family[req[s].token]].visitor = pair[2]
           /\ pair \in Paired(req[s])
<1>1. pc[s] # "idle" /\ req[s].op # "logout" /\ PairOf(req[s]) = pair
  BY DEF Contends
<1>2. req[s] \in LoginReq \cup RefreshReq
  BY <1>1, InFlight DEF LogoutReq
<1>3. pc[s] # "delete"
  BY <1>1 DEF IInv, RequestShape, LogoutReq
<1>4. pair \in Users \X Visitors /\ pair[1] \in Users /\ pair[2] \in Visitors /\ pair[2] # NoVisitor
  BY ConstantsAssumption DEF Pairs
<1>5. pair \in Paired(req[s])
  BY <1>1, <1>4 DEF Paired
<1>6. CASE req[s] \in LoginReq
  BY <1>1, <1>3, <1>4, <1>5, <1>6 DEF PairOf, LoginReq
<1>7. CASE req[s] \in RefreshReq
  BY <1>1, <1>3, <1>4, <1>5, <1>7 DEF PairOf, RefreshReq
<1> QED BY <1>2, <1>6, <1>7

After(s, pair) == IF pc'[s] = "idle" THEN Settled(pair)' ELSE Progress(s, pair)'

\* Steps that leave the table as it is.
LEMMA ReadingStep ==
    ASSUME IInv, NEW pair \in Pairs, NEW s \in Slots, Contends(s, pair), Progress(s, pair),
           \/ LoginValidate(s) \/ LoginReject(s) \/ LoginAudit(s)
           \/ RefreshFind(s) \/ RefreshReject(s)
    PROVE  After(s, pair)
<1> USE DEF table, history
<1>1. /\ UNCHANGED <<tokens, known>>
      /\ Settled(pair)' <=> Settled(pair)
      /\ RowsOf(pair)' = RowsOf(pair)
  BY DEF LoginValidate, LoginReject, LoginAudit, RefreshFind, RefreshReject, Settled, RowsOf
<1>2. CASE LoginValidate(s)
  BY <1>1, <1>2 DEF LoginValidate, Goto, After, Progress, IInv, TypeOK
<1>3. CASE LoginReject(s) \/ RefreshReject(s)
  BY <1>1, <1>3 DEF LoginReject, RefreshReject, Finish, After, Progress, IInv, TypeOK
<1>4. CASE LoginAudit(s)
  BY <1>1, <1>4 DEF LoginAudit, Goto, After, Progress, IInv, TypeOK
<1>5. CASE RefreshFind(s)
  <2> DEFINE token == req[s].token
  <2>1. /\ pc[s] = "find" /\ token \in DOMAIN tokens
        /\ pc' = [pc EXCEPT ![s] = "renew"] /\ req' = req
    BY <1>5 DEF RefreshFind, Redeemable, Found, Goto
  <2>2. req[s] \in RefreshReq
    BY <2>1 DEF IInv, RequestShape, RefreshAt
  <2>3. token \in RowsOf(pair)
    BY <2>1, <2>2, OwnPair DEF IInv, Provenance, RowsOf, LoginReq, RefreshReq
  <2>4. RowsOf(pair) \subseteq {token}
    BY <2>1, <2>3 DEF Progress, Settled
  <2> QED BY <1>1, <2>1, <2>4 DEF After, Progress, IInv, TypeOK
<1> QED BY <1>2, <1>3, <1>4, <1>5

\* The clean-up of a login leaves the pair no row; the row saved is its only one.
LEMMA LoginWrites ==
    ASSUME IInv, NEW pair \in Pairs, NEW s \in Slots, Contends(s, pair), Progress(s, pair),
           LoginCleanup(s) \/ LoginSave(s)
    PROVE  After(s, pair)
<1>1. CASE LoginCleanup(s)
  <2>1. /\ pc[s] = "cleanup" /\ pc' = [pc EXCEPT ![s] = "save"]
        /\ tokens' = Without(CleanupVictims(req[s].user, req[s].visitor))
    BY <1>1 DEF LoginCleanup, Goto
  <2>2. req[s] \in LoginReq
    BY <2>1 DEF IInv, RequestShape, LoginAt
  <2>3. req[s].user = pair[1] /\ req[s].visitor = pair[2] /\ pair[2] # NoVisitor
    BY <2>2, OwnPair DEF LoginReq, RefreshReq
  <2>4. CleanupVictims(req[s].user, req[s].visitor) = RowsOf(pair)
    BY <2>3 DEF CleanupVictims, RowsOf
  <2>5. RowsOf(pair)' = {}
    BY <2>1, <2>4 DEF Without, Restrict, RowsOf
  <2> QED BY <2>1, <2>5 DEF After, Progress, IInv, TypeOK
<1>2. CASE LoginSave(s)
  <2>1. PICK id \in Ids : tokens' = Put(tokens, id, ent[s]) /\ new' = [new EXCEPT ![s] = id]
    BY <1>2 DEF LoginSave
  <2>2. pc[s] = "save" /\ pc' = [pc EXCEPT ![s] = "audit"]
    BY <1>2 DEF LoginSave, Goto
  <2>3. RowsOf(pair)' \subseteq RowsOf(pair) \cup {id}
    BY <2>1 DEF RowsOf, Put
  <2> QED BY <2>1, <2>2, <2>3 DEF After, Progress, IInv, TypeOK
<1> QED BY <1>1, <1>2

\* A refresh saves the successor beside the token presented, then deletes that.
LEMMA RefreshWrites ==
    ASSUME IInv, NEW pair \in Pairs, NEW s \in Slots, Contends(s, pair), Progress(s, pair),
           RefreshSave(s) \/ RefreshPurge(s)
    PROVE  After(s, pair)
<1>1. CASE RefreshSave(s)
  <2>1. PICK id \in Ids : tokens' = Put(tokens, id, Renewed(ent[s])) /\ new' = [new EXCEPT ![s] = id]
    BY <1>1 DEF RefreshSave
  <2>2. pc[s] = "renew" /\ pc' = [pc EXCEPT ![s] = "purge"] /\ req' = req
    BY <1>1 DEF RefreshSave, Goto
  <2>3. RowsOf(pair)' \subseteq RowsOf(pair) \cup {id}
    BY <2>1 DEF RowsOf, Put
  <2> QED BY <2>1, <2>2, <2>3 DEF After, Progress, IInv, TypeOK
<1>2. CASE RefreshPurge(s)
  <2> DEFINE token == req[s].token
  <2>1. /\ pc[s] = "purge" /\ pc' = [pc EXCEPT ![s] = "reply"] /\ new' = new
        /\ tokens' = Without(PurgeVictims(ent[s].user, token))
    BY <1>2 DEF RefreshPurge, Goto
  <2>2. req[s] \in RefreshReq
    BY <2>1 DEF IInv, RequestShape, RefreshAt
  <2>3. ent[s].user = pair[1]
    BY <2>1, <2>2, OwnPair DEF IInv, EntityProvenance, LoginReq, RefreshReq
  <2>4. token \in RowsOf(pair) => token \in PurgeVictims(ent[s].user, token)
    BY <2>3 DEF RowsOf, PurgeVictims
  <2>5. RowsOf(pair)' \subseteq RowsOf(pair) \ PurgeVictims(ent[s].user, token)
    BY <2>1 DEF Without, Restrict, RowsOf
  <2>6. RowsOf(pair)' \subseteq {new[s]}
    BY <2>1, <2>4, <2>5 DEF Progress
  <2> QED BY <2>1, <2>6 DEF After, Progress, IInv, TypeOK
<1> QED BY <1>1, <1>2

\* A response tells the client the token; a failure after a save makes the pair raced.
LEMMA LastStep ==
    ASSUME IInv, NEW pair \in Pairs, NEW s \in Slots, Contends(s, pair), Progress(s, pair),
           pair \notin raced', Reply(s) \/ Fail(s)
    PROVE  After(s, pair)
<1>1. /\ pc' = [pc EXCEPT ![s] = "idle"] /\ tokens' = tokens
      /\ known \subseteq known'
  BY DEF Reply, Fail, Finish, table, history
<1>2. RowsOf(pair)' = RowsOf(pair) /\ RowsOf(pair) \subseteq Ids /\ None \notin Ids
  BY <1>1, ConstantsAssumption DEF RowsOf, IInv, TypeOK
<1>3. CASE Reply(s)
  <2>1. RowsOf(pair) \subseteq {new[s]} /\ known' = known \cup ({new[s]} \ {None})
    BY <1>3 DEF Reply, Progress
  <2> QED BY <1>1, <1>2, <2>1 DEF After, Settled, IInv, TypeOK
<1>4. CASE Fail(s)
  <2>1. new[s] = None
    BY <1>4, OwnPair DEF Fail
  <2>2. pc[s] \in {"validate", "cleanup", "find", "save", "renew", "reply"}
    BY <2>1, OwnPair DEF IInv, RequestShape, TypeOK
  <2>3. pc[s] = "renew" => req[s].token \in known
    BY DEF IInv, RequestShape, RefreshAt, IdsDrawn
  <2>4. Settled(pair)
    BY <1>2, <2>1, <2>2, <2>3 DEF Progress, Settled
  <2> QED BY <1>1, <1>2, <2>4 DEF After, Settled, IInv, TypeOK
<1> QED BY <1>3, <1>4

----------------------------------------------------------------------------
(* The other steps.                                                        *)

\* A request that joins another one of its pair makes the pair raced; one that
\* finds nobody at work finds the pair settled.
LEMMA ArriveSerial ==
    ASSUME IInv, Grown, NEW pair \in Pairs, Serial(pair), pair \notin raced',
           NEW s \in Slots, NEW r, NEW first, Arrive(s, r, first),
           \/ r \in LoginReq /\ first = "validate"
           \/ r \in RefreshReq /\ first = "find"
           \/ r \in LogoutReq /\ first = "delete",
           \A t \in Slots \ {s} : Contends(t, pair)' <=> Contends(t, pair)
    PROVE  Serial(pair)'
<1>1. /\ pc[s] = "idle" /\ pc' = [pc EXCEPT ![s] = first] /\ req' = [req EXCEPT ![s] = r]
      /\ raced' = raced \cup Overlap(s, r) /\ UNCHANGED <<tokens, known, new, family, origin>>
  BY DEF Arrive, table
<1>2. /\ pc'[s] = first /\ req'[s] = r
      /\ \A t \in Slots \ {s} : pc'[t] = pc[t] /\ req'[t] = req[t] /\ new'[t] = new[t]
  BY <1>1 DEF IInv, TypeOK
<1>3. ~ Contends(s, pair)
  BY <1>1 DEF Contends
<1>4. RowsOf(pair)' = RowsOf(pair) /\ (Settled(pair)' <=> Settled(pair))
  BY <1>1 DEF RowsOf, Settled
<1>5. CASE ~ Contends(s, pair)'
  BY <1>2, <1>3, <1>4, <1>5, Aside
<1>6. CASE Contends(s, pair)'
  <2>1. r.op # "logout" /\ first # "delete"
    BY <1>1, <1>2, <1>6 DEF Contends, LogoutReq
  <2>2. PairOf(r) = pair
    BY <1>1, <1>2, <1>6 DEF Contends, PairOf
  <2>3. pair \in Paired(r)
    BY <2>2, ConstantsAssumption DEF Paired, Pairs
  <2>4. \A t \in Slots \ {s} : ~ Contends(t, pair)
    BY <1>1, <2>1, <2>3 DEF Overlap
  <2>5. Settled(pair)
    BY <1>3, <2>4, SMTT(30) DEF Serial
  <2>6. Alone(s, pair)' /\ Progress(s, pair)'
    BY <1>1, <1>2, <1>4, <2>1, <2>4, <2>5 DEF Alone, Progress
  <2> QED BY <1>6, <2>4, <2>6, SMTT(30) DEF Serial
<1> QED BY <1>5, <1>6

\* A login, a refresh or a logout comes in.
LEMMA ArrivalSerial ==
    ASSUME IInv, Grown, NEW pair \in Pairs, Serial(pair), pair \notin raced',
           NEW s \in Slots, LoginArrive(s) \/ RefreshArrive(s) \/ LogoutArrive(s),
           \A t \in Slots \ {s} : Contends(t, pair)' <=> Contends(t, pair)
    PROVE  Serial(pair)'
<1>1. CASE LoginArrive(s)
  <2>1. PICK u \in Users, v \in ReqVisitors :
            Arrive(s, [op |-> "login", user |-> u, visitor |-> v], "validate")
    BY <1>1 DEF LoginArrive
  <2>2. [op |-> "login", user |-> u, visitor |-> v] \in LoginReq
    BY DEF LoginReq
  <2> QED BY <2>1, <2>2, ArriveSerial
<1>2. CASE RefreshArrive(s)
  <2>1. PICK id \in known, v \in ReqVisitors :
            Arrive(s, [op |-> "refresh", token |-> id, visitor |-> v], "find")
    BY <1>2 DEF RefreshArrive
  <2>2. [op |-> "refresh", token |-> id, visitor |-> v] \in RefreshReq
    BY DEF RefreshReq, IInv, TypeOK
  <2> QED BY <2>1, <2>2, ArriveSerial
<1>3. CASE LogoutArrive(s)
  <2>1. PICK id \in known, v \in ReqVisitors :
            Arrive(s, [op |-> "logout", user |-> origin[family[id]].user, visitor |-> v], "delete")
    BY <1>3 DEF LogoutArrive
  <2>2. origin[family[id]].user \in Users
    BY DEF IInv, TypeOK, IdsDrawn, Origin
  <2>3. [op |-> "logout", user |-> origin[family[id]].user, visitor |-> v] \in LogoutReq
    BY <2>2 DEF LogoutReq
  <2> QED BY <2>1, <2>3, ArriveSerial
<1> QED BY <1>1, <1>2, <1>3

\* A request of another pair, or a logout, adds no row to this pair.
LEMMA OthersAddNothing ==
    ASSUME IInv, NEW pair \in Pairs, NEW s \in Slots, Handle(s) \/ Fail(s), ~ Contends(s, pair)
    PROVE  RowsOf(pair)' \subseteq RowsOf(pair)
<1> USE DEF table, local, history
<1>1. CASE LoginSave(s)
  <2>1. PICK id \in Ids : id \notin DOMAIN family /\ tokens' = Put(tokens, id, ent[s])
    BY <1>1 DEF LoginSave, Fresh
  <2>2. /\ pc[s] = "save" /\ req[s] \in LoginReq
        /\ ent[s].user = req[s].user /\ ent[s].visitor = req[s].visitor
    BY <1>1 DEF LoginSave, IInv, RequestShape, LoginAt, EntityProvenance
  <2>3. ~ (ent[s].user = pair[1] /\ ent[s].visitor = pair[2])
    BY <2>2 DEF Contends, PairOf, LoginReq, Pairs
  <2> QED BY <2>1, <2>3 DEF RowsOf, Put
<1>2. CASE RefreshSave(s)
  <2>1. PICK id \in Ids : id \notin DOMAIN family /\ tokens' = Put(tokens, id, Renewed(ent[s]))
    BY <1>2 DEF RefreshSave, Fresh
  <2>2. /\ pc[s] = "renew" /\ req[s] \in RefreshReq /\ ent[s] \in Row
        /\ ent[s].user = origin[family[req[s].token]].user
        /\ ent[s].visitor = origin[family[req[s].token]].visitor
    BY <1>2 DEF RefreshSave, IInv, RequestShape, RefreshAt, EntityProvenance
  <2>3. ~ (ent[s].user = pair[1] /\ ent[s].visitor = pair[2])
    BY <2>2 DEF Contends, PairOf, RefreshReq, Pairs
  <2>4. Renewed(ent[s]).user = ent[s].user /\ Renewed(ent[s]).visitor = ent[s].visitor
    BY <2>2 DEF Renewed, Row
  <2> QED BY <2>1, <2>3, <2>4 DEF RowsOf, Put
<1>3. CASE LoginCleanup(s) \/ RefreshPurge(s) \/ LogoutDelete(s)
  BY <1>3 DEF LoginCleanup, RefreshPurge, LogoutDelete, Without, Restrict, RowsOf
<1>4. CASE \/ LoginValidate(s) \/ LoginReject(s) \/ LoginAudit(s)
           \/ RefreshFind(s) \/ RefreshReject(s) \/ Reply(s) \/ Fail(s)
  BY <1>4 DEF LoginValidate, LoginReject, LoginAudit, RefreshFind, RefreshReject, Reply, Fail, RowsOf
<1> QED BY <1>1, <1>2, <1>3, <1>4 DEF Handle

\* What a handler's step does to who works on a pair: nothing, or its request ends.
LEMMA HandledOrEnded ==
    ASSUME IInv, Grown, NEW pair \in Pairs, NEW s \in Slots, Handle(s) \/ Fail(s)
    PROVE  Contends(s, pair)' <=> (Contends(s, pair) /\ pc'[s] # "idle")
<1> USE DEF IInv, TypeOK
<1>1. /\ pc[s] # "idle"
      /\ pc'[s] = "idle" \/ req'[s] = req[s]
  BY DEF Handle, LoginValidate, LoginReject, LoginCleanup, LoginSave, LoginAudit, RefreshFind,
         RefreshReject, RefreshSave, RefreshPurge, LogoutDelete, Reply, Fail, Goto, Finish
<1>2. CASE pc'[s] = "idle"
  BY <1>2 DEF Contends
<1>3. CASE pc'[s] # "idle"
  BY <1>1, <1>3, SamePair
<1> QED BY <1>2, <1>3

\* A step of a handler.
LEMMA HandlerSerial ==
    ASSUME IInv, Grown, NEW pair \in Pairs, Serial(pair), pair \notin raced',
           NEW s \in Slots, Handle(s) \/ Fail(s),
           \A t \in Slots \ {s} : Contends(t, pair)' <=> Contends(t, pair)
    PROVE  Serial(pair)'
<1>1. \A t \in Slots \ {s} : pc'[t] = pc[t] /\ req'[t] = req[t] /\ new'[t] = new[t]
  BY OneSlot
<1>2. CASE ~ Contends(s, pair)
  BY <1>1, <1>2, OthersAddNothing, HandledOrEnded, Aside
<1>3. CASE Contends(s, pair)
  <2>1. Alone(s, pair) /\ Progress(s, pair)
    BY <1>3, SMTT(30) DEF Serial
  <2>2. \A t \in Slots \ {s} : ~ Contends(t, pair)'
    BY <2>1 DEF Alone
  <2>3. ~ LogoutDelete(s)
    BY <1>3, OwnPair DEF LogoutDelete
  <2>4. After(s, pair)
    BY <1>3, <2>1, <2>3, ReadingStep, LoginWrites, RefreshWrites, LastStep DEF Handle
  <2>5. Contends(s, pair)' <=> pc'[s] # "idle"
    BY <1>3, HandledOrEnded
  <2> QED BY <2>2, <2>4, <2>5 DEF After, Serial, Alone
<1> QED BY <1>2, <1>3

\* Time passes, an account is written: no request moves and no row comes.
LEMMA OutsideSerial ==
    ASSUME IInv, Grown, NEW pair \in Pairs, Serial(pair),
           \/ \E id \in Ids : Expire(id)
           \/ \E u \in Users, role \in Roles : SetRole(u, role)
           \/ \E u \in Users : RemoveAccount(u)
    PROVE  Serial(pair)'
<1>1. UNCHANGED <<pc, req, new>>
  BY DEF Expire, SetRole, RemoveAccount, local
<1>2. RowsOf(pair)' \subseteq RowsOf(pair)
  BY DEF Expire, SetRole, RemoveAccount, RowsOf, IInv, TypeOK, Row
<1>3. \A t \in Slots : Contends(t, pair)' <=> Contends(t, pair)
  BY <1>1, SamePair
<1> QED BY <1>1, <1>2, <1>3, Aside

----------------------------------------------------------------------------
LEMMA SerialInit == Init => SerialInv
BY DEF Init, SerialInv, Serial, Settled, RowsOf, Contends

LEMMA SerialNext == IInv /\ SerialInv /\ [Next]_vars => SerialInv'
<1> SUFFICES ASSUME IInv, SerialInv, [Next]_vars PROVE SerialInv'
  OBVIOUS
<1>1. CASE UNCHANGED vars
  BY <1>1 DEF vars, table, local, history, SerialInv, Serial, Settled, RowsOf, Contends, PairOf,
              Alone, Progress
<1>2. ASSUME Next, NEW pair \in Pairs, pair \notin raced'
      PROVE  Serial(pair)'
  <2>1. Grown /\ Serial(pair)
    BY <1>2, HistoryGrows DEF Grown, SerialInv
  <2>2. ASSUME NEW s \in Slots,
               \/ LoginArrive(s) \/ RefreshArrive(s) \/ LogoutArrive(s) \/ Handle(s) \/ Fail(s)
        PROVE  Serial(pair)'
    <3>1. \A t \in Slots \ {s} : Contends(t, pair)' <=> Contends(t, pair)
      BY <2>1, <2>2, OneSlot, SamePair
    <3> QED BY <1>2, <2>1, <2>2, <3>1, ArrivalSerial, HandlerSerial
  <2> QED BY <1>2, <2>1, <2>2, OutsideSerial DEF Next
<1> QED BY <1>1, <1>2 DEF SerialInv

\* While the requests of a user and visitor do not overlap or fail midway, the
\* pair has one row at most, whatever all others do, and its client knows it.
THEOREM SerialSessions == Spec => []SerialSession
<1>1. SerialInv => SerialSession
  BY DEF SerialInv, Serial, Settled, RowsOf, Pairs, SerialSession
<1> QED BY <1>1, SerialInit, SerialNext, Invariance, PTL DEF Spec
============================================================================
