----------------------- MODULE GuardedRequestsProofs -----------------------
(***************************************************************************)
(* Theorems about the guards and the messages between them and the account *)
(* service, for any number of sessions, requests, tokens and visitors, any *)
(* lifetime of a token and both wirings.                                   *)
(*                                                                         *)
(* IInv ties each message to the request that sent it and to the clock at  *)
(* which it was answered, and each token to the session it was signed for. *)
(***************************************************************************)
EXTENDS GuardedRequests, TLAPS

Verifies == Registered(VerifyAccessToken, "account")

Claims(token) == [sub |-> token.session, tokenRole |-> RoleOf[token.session]]

\* No token is of the future, or signed for a session that was over for good.
Signed ==
    /\ open \subseteq Sessions /\ over \subseteq Sessions
    /\ \A f \in over \ strays : ended[f] \in Times
    /\ \A t \in tokens :
          t.iat <= now /\ (t.session \in over \ strays => t.iat <= ended[t.session])

\* What a message says: the token of its request, or the claims in it unless it
\* had expired when it was verified, or is verified by nobody.
Carries(m) ==
    LET t == req[m.id].token IN
    /\ m.kind = "send" => m.body = t
    /\ m.kind = "reply" =>
          /\ asked[m.id] \in Times
          /\ m.body = IF Verifies /\ asked[m.id] < t.iat + Lifetime THEN Claims(t) ELSE None

\* A request has one message under way.
Messages ==
    /\ \A m, n \in wire : m.id = n.id => m = n
    /\ \A m \in wire : Carries(m)

\* A request past VisitorIdGuard.
Admitted(s) == req[s] \in Request /\ (VisitorRequired(req[s]) => req[s].visitor # None)

Underway(s) ==
    pc[s] = "verify" =>
        Admitted(s) /\ req[s].route \in JwtGuarded /\ req[s].token \in tokens

\* What JwtAuthGuard and the interceptor make of a request.
Left(s) ==
    LET r == req[s] IN
    LET user == IF r.route \in JwtGuarded THEN Claims(r.token) ELSE None IN
    [user        |-> user,
     userSession |-> IF bootstrap THEN user ELSE None,
     visitorId   |-> IF VisitorRequired(r) THEN r.visitor ELSE None]

Served(s) ==
    pc[s] = "handler" =>
        /\ Admitted(s)
        /\ req[s].route \in JwtGuarded =>
              /\ req[s].token \in tokens
              /\ asked[s] \in Times /\ asked[s] < req[s].token.iat + Lifetime
              /\ Permitted(req[s], Claims(req[s].token))
        /\ ctx[s] = Left(s)

Refused(s) ==
    pc[s] = "reply" =>
        /\ answer[s] = "invalid token" =>
              \/ s \in lost \/ ~ Verifies
              \/ asked[s] # None /\ asked[s] >= req[s].token.iat + Lifetime
        /\ answer[s] = "permission denied" => RoleOf[req[s].token.session] \notin Range(RequiredRoles)
        /\ answer[s] = "bad gateway" =>
              req[s].route = "login" /\ ~ Registered(FindUser, "handlers")

IInv ==
    /\ TypeOK
    /\ Signed
    /\ Messages
    /\ \A s \in Slots : Underway(s) /\ Served(s) /\ Refused(s)

----------------------------------------------------------------------------
\* Claims of a session are a payload, hence not None.
LEMMA ClaimsAreAPayload ==
    ASSUME NEW t \in Token
    PROVE  Claims(t) \in Payload /\ Claims(t) # None
BY ConstantsAssumption DEF Claims, Payload, Token

\* At start-up there are no sessions, messages or requests.
LEMMA InitIInv == Init => IInv
<1> SUFFICES ASSUME Init PROVE IInv
  OBVIOUS
<1>1. TypeOK
  <2>1. bootstrap \in BOOLEAN /\ registry \in Registry /\ service \in BOOLEAN
    BY ConstantsAssumption DEF Init, Deployment
  <2>2. now \in Times
    BY ConstantsAssumption DEF Init, Times
  <2>3. /\ ended \in [Sessions -> Times \cup {None}] /\ asked \in [Slots -> Times \cup {None}]
        /\ pc \in [Slots -> {"idle", "verify", "handler", "reply"}]
        /\ req \in [Slots -> Request \cup {None}] /\ ctx \in [Slots -> Context \cup {None}]
        /\ answer \in [Slots -> Answers \cup {None}]
    BY DEF Init
  <2> QED BY <2>1, <2>2, <2>3 DEF Init, TypeOK
<1>2. Signed /\ Messages
  BY DEF Init, Lifecycle!Init, Signed, Messages
<1>3. \A s \in Slots : Underway(s) /\ Served(s) /\ Refused(s)
  BY DEF Init, Underway, Served, Refused
<1> QED BY <1>1, <1>2, <1>3 DEF IInv

----------------------------------------------------------------------------
(* Steps outside the requests.                                             *)

\* What a step leaves alone that neither reads nor writes a request.
LEMMA RequestsStay ==
    ASSUME IInv, UNCHANGED <<bootstrap, registry, wire, request>>, tokens \subseteq tokens'
    PROVE  Messages' /\ \A s \in Slots : Underway(s)' /\ Served(s)' /\ Refused(s)'
<1>1. UNCHANGED <<bootstrap, registry, wire, pc, req, ctx, answer, asked, lost>>
  BY DEF request
<1>2. Messages'
  BY <1>1 DEF IInv, Messages, Carries, Verifies, Registered
<1>3. \A s \in Slots : (Admitted(s)' <=> Admitted(s)) /\ Left(s)' = Left(s)
  BY <1>1 DEF Admitted, Left, VisitorRequired
<1>4. \A s \in Slots : Underway(s)' /\ Served(s)' /\ Refused(s)'
  BY <1>1, <1>3 DEF IInv, Underway, Served, Refused, Verifies, Registered
<1> QED BY <1>2, <1>4

\* A session opens, is renewed or ends: strays only grow.
LEMMA SessionStepKeeps ==
    ASSUME IInv, SessionStep
    PROVE  IInv'
<1>1. /\ UNCHANGED <<bootstrap, registry, now, tokens, service, wire, request>>
      /\ ended' = [f \in Sessions |-> IF f \in (over' \ strays') \ over THEN now ELSE ended[f]]
  BY DEF SessionStep
<1>2. /\ over \subseteq over' /\ strays \subseteq strays'
      /\ over' \subseteq over \cup open /\ open' \subseteq open \cup Sessions \cup strays
      /\ open \cup over \subseteq Sessions
  <2> DEFINE Opens == \E f \in Sessions : Lifecycle!Open(f) \/ Lifecycle!Reopen(f)
  <2>1. CASE Opens
    BY <2>1 DEF Lifecycle!Open, Lifecycle!Reopen, IInv, Signed
  <2>2. CASE \E S \in SUBSET open : \E caught \in SUBSET S : Lifecycle!End(S, caught)
    BY <2>2 DEF Lifecycle!End, IInv, Signed
  <2> QED BY <2>1, <2>2 DEF SessionStep, Lifecycle!Next
<1>3. open' \subseteq Sessions
  BY DEF SessionStep, Lifecycle!Next, Lifecycle!Open, Lifecycle!Reopen, Lifecycle!End, IInv, Signed
<1>4. TypeOK'
  BY <1>1 DEF request, IInv, TypeOK, Waiting
<1>5. Signed'
  <2>1. \A f \in Sessions : ended'[f] = IF f \in (over' \ strays') \ over THEN now ELSE ended[f]
    BY <1>1
  <2>2. \A f \in over' \ strays' : f \in over => f \in over \ strays
    BY <1>2
  <2>3. now \in Times /\ tokens \subseteq Token
    BY DEF IInv, TypeOK
  <2> QED BY <1>1, <1>2, <1>3, <2>1, <2>2, <2>3 DEF IInv, Signed, Token, Times
<1> QED BY <1>1, <1>4, <1>5, RequestsStay DEF IInv

\* A token is signed, the clock ticks or the service comes up.
LEMMA OutsideKeeps ==
    ASSUME IInv, (\E f \in Sessions : generateTokens(f)) \/ Tick \/ ServiceUp
    PROVE  IInv'
<1>1. /\ UNCHANGED <<bootstrap, registry, open, over, strays, ended, wire, request>>
      /\ now \in Times /\ now' \in Times /\ now <= now'
      /\ service' \in BOOLEAN
  <2>1. /\ UNCHANGED <<bootstrap, registry, open, over, strays, ended, wire, request>>
        /\ service' = service \/ service' = TRUE
        /\ now' = now \/ (now < MaxTime /\ now' = now + 1)
    BY DEF generateTokens, Tick, ServiceUp, sessions
  <2>2. now \in Times /\ service \in BOOLEAN
    BY DEF IInv, TypeOK
  <2>3. now' \in Times /\ now <= now'
    BY <2>1, <2>2, ConstantsAssumption DEF Times
  <2> QED BY <2>1, <2>2, <2>3
<1>2. /\ tokens \subseteq tokens'
      /\ \A t \in tokens' \ tokens : t \in Token /\ t.iat = now /\ t.session \notin over \ strays
  BY <1>1 DEF generateTokens, Tick, ServiceUp, sessions, Token
<1>3. TypeOK'
  BY <1>1, <1>2 DEF request, IInv, TypeOK, Waiting
<1>4. Signed'
  BY <1>1, <1>2 DEF IInv, TypeOK, Signed, Token, Times
<1> QED BY <1>1, <1>2, <1>3, <1>4, RequestsStay DEF IInv

\* The connection closes: what waited for a reply is lost.
LEMMA ServiceDownKeeps ==
    ASSUME IInv, ServiceDown
    PROVE  IInv'
<1>1. /\ wire' = {} /\ service' = FALSE
      /\ UNCHANGED <<bootstrap, registry, now, open, over, strays, ended, tokens, req, ctx>>
      /\ lost' = lost \cup Waiting
  BY DEF ServiceDown, sessions
<1>2. \A s \in Slots :
         IF pc[s] = "verify"
         THEN pc'[s] = "reply" /\ answer'[s] = "invalid token" /\ s \in lost'
         ELSE pc'[s] = pc[s] /\ answer'[s] = answer[s] /\ asked'[s] = asked[s]
  BY DEF ServiceDown, Waiting
<1>3. TypeOK'
  <2>1. /\ pc' \in [Slots -> {"idle", "verify", "handler", "reply"}]
        /\ answer' \in [Slots -> Answers \cup {None}]
        /\ asked' \in [Slots -> Times \cup {None}]
    BY DEF ServiceDown, IInv, TypeOK, Answers
  <2> QED BY <1>1, <1>2, <2>1 DEF Waiting, IInv, TypeOK
<1>4. Signed' /\ Messages'
  BY <1>1 DEF IInv, Signed, Messages
<1>5. \A s \in Slots : (Admitted(s)' <=> Admitted(s)) /\ Left(s)' = Left(s)
  BY <1>1 DEF Admitted, Left, VisitorRequired
<1>6. \A s \in Slots : Underway(s)' /\ Served(s)'
  BY <1>1, <1>2, <1>5 DEF IInv, Underway, Served
<1>7. \A s \in Slots : Refused(s)'
  BY <1>1, <1>2 DEF IInv, Refused, Verifies, Registered
<1> QED BY <1>3, <1>4, <1>6, <1>7 DEF IInv

----------------------------------------------------------------------------
(* Steps of one request.                                                   *)

\* The request s is at an await, with what it carries, has on it and answers.
Becomes(s, label, r, c, a, q) ==
    /\ pc'     = [pc EXCEPT ![s] = label]
    /\ req'    = [req EXCEPT ![s] = r]
    /\ ctx'    = [ctx EXCEPT ![s] = c]
    /\ answer' = [answer EXCEPT ![s] = a]
    /\ asked'  = [asked EXCEPT ![s] = q]

\* A step of one request keeps the others, with their messages, as they were.
LEMMA OneRequest ==
    ASSUME IInv, NEW s \in Slots,
           NEW label \in {"idle", "verify", "handler", "reply"}, NEW r \in Request \cup {None},
           NEW c \in Context \cup {None}, NEW a \in Answers \cup {None}, NEW q \in Times \cup {None},
           Becomes(s, label, r, c, a, q),
           UNCHANGED <<bootstrap, registry, now, sessions>>, service' = service,
           lost \ {s} \subseteq lost', lost' \subseteq lost \cup {s},
           Underway(s)', Served(s)', Refused(s)',
           \A m \in wire' : m \in wire \/ m.id = s,
           \A m, n \in wire' : (m.id = s /\ n.id = s) => m = n,
           \A m \in wire' : m.id = s => /\ label = "verify" /\ m.kind \in {"send", "reply"}
                                        /\ Carries(m)'
    PROVE  IInv'
<1>1. /\ pc'[s] = label /\ req'[s] = r /\ ctx'[s] = c /\ answer'[s] = a /\ asked'[s] = q
      /\ \A t \in Slots \ {s} : /\ pc'[t] = pc[t] /\ req'[t] = req[t] /\ ctx'[t] = ctx[t]
                                /\ answer'[t] = answer[t] /\ asked'[t] = asked[t]
                                /\ t \in lost' <=> t \in lost
      /\ bootstrap' = bootstrap /\ registry' = registry
      /\ UNCHANGED <<now, open, over, strays, ended, tokens>>
  BY DEF Becomes, sessions, IInv, TypeOK
<1>2. \A t \in Slots \ {s} : (Admitted(t)' <=> Admitted(t)) /\ Left(t)' = Left(t)
  BY <1>1 DEF Admitted, Left, VisitorRequired
<1>3. \A t \in Slots : Underway(t)' /\ Served(t)' /\ Refused(t)'
  <2> SUFFICES ASSUME NEW t \in Slots \ {s} PROVE Underway(t)' /\ Served(t)' /\ Refused(t)'
    OBVIOUS
  <2>1. Underway(t) /\ Served(t) /\ Refused(t)
    BY DEF IInv
  <2>2. Underway(t)'
    BY <1>1, <1>2, <2>1 DEF Underway
  <2>3. Served(t)'
    BY <1>1, <1>2, <2>1 DEF Served
  <2>4. Refused(t)'
    BY <1>1, <2>1 DEF Refused, Verifies, Registered
  <2> QED BY <2>2, <2>3, <2>4
<1>4. \A m \in wire' : m.id \in Slots /\ pc'[m.id] = "verify" /\ m.kind \in {"send", "reply"}
                       /\ Carries(m)'
  <2> SUFFICES ASSUME NEW m \in wire', m.id # s
               PROVE  m.id \in Slots /\ pc'[m.id] = "verify" /\ m.kind \in {"send", "reply"}
                      /\ Carries(m)'
    BY <1>1
  <2>1. m \in wire /\ m.id \in Waiting /\ m.kind \in {"send", "reply"} /\ Carries(m)
    BY DEF IInv, TypeOK, Messages
  <2> QED BY <1>1, <2>1 DEF Waiting, Carries, Verifies, Registered
<1>5. Messages'
  BY <1>4 DEF IInv, Messages
<1>6. TypeOK'
  <2>1. /\ pc' \in [Slots -> {"idle", "verify", "handler", "reply"}]
        /\ req' \in [Slots -> Request \cup {None}] /\ ctx' \in [Slots -> Context \cup {None}]
        /\ answer' \in [Slots -> Answers \cup {None}] /\ asked' \in [Slots -> Times \cup {None}]
    BY DEF Becomes, IInv, TypeOK
  <2>2. \A m \in wire' : m.id \in Waiting' /\ m.kind \in {"send", "reply"}
    BY <1>4 DEF Waiting
  <2>3. \A t \in Slots : (pc'[t] = "handler" /\ bootstrap' /\ req'[t].route \notin VisitorIdExempt)
                            => ctx'[t].visitorId \in Visitors
    <3> SUFFICES ASSUME NEW t \in Slots, pc'[t] = "handler", bootstrap',
                        req'[t].route \notin VisitorIdExempt
                 PROVE  ctx'[t].visitorId \in Visitors
      OBVIOUS
    <3>1. Admitted(t)' /\ ctx'[t] = Left(t)'
      BY <1>3 DEF Served
    <3>2. VisitorRequired(req[t])'
      BY DEF VisitorRequired
    <3>3. req'[t].visitor \in Visitors
      BY <3>1, <3>2 DEF Admitted, Request
    <3> QED BY <3>1, <3>2, <3>3 DEF Left
  <2>4. bootstrap' \in BOOLEAN /\ registry' \in Registry /\ service' \in BOOLEAN
    BY <1>1 DEF IInv, TypeOK
  <2>5. lost' \subseteq Slots
    BY DEF IInv, TypeOK
  <2> QED BY <1>1, <2>1, <2>2, <2>3, <2>4, <2>5 DEF IInv, TypeOK
<1>7. Signed'
  BY <1>1 DEF IInv, Signed
<1> QED BY <1>3, <1>5, <1>6, <1>7 DEF IInv

\* A request that a guard answers at once, or that goes to its handler unguarded.
LEMMA GuardsKeep ==
    ASSUME IInv, NEW s \in Slots, NEW r \in Request,
           VisitorReject(s, r) \/ TokenMissing(s, r) \/ Unreachable(s, r) \/ Unguarded(s, r)
    PROVE  IInv'
<1>1. /\ pc[s] = "idle" /\ req' = [req EXCEPT ![s] = r]
      /\ UNCHANGED <<bootstrap, registry, now, sessions, wire, asked>> /\ service' = service
  BY DEF VisitorReject, TokenMissing, Unreachable, Unguarded, VisitorPass, Arrive
<1>2. req'[s] = r /\ \A m \in wire : m.id # s
  BY <1>1 DEF IInv, TypeOK, Waiting
<1>3. ASSUME NEW a \in {"visitor required", "token required", "invalid token"},
             Respond(s, a), a = "invalid token" => s \in lost',
             lost \ {s} \subseteq lost', lost' \subseteq lost \cup {s}
      PROVE  IInv'
  <2>1. Becomes(s, "reply", r, None, a, asked[s])
    BY <1>1, <1>3 DEF Respond, Becomes, IInv, TypeOK
  <2>2. asked[s] \in Times \cup {None} /\ a \in Answers
    BY DEF IInv, TypeOK, Answers
  <2>3. pc'[s] = "reply" /\ answer'[s] = a
    BY <1>3 DEF Respond, IInv, TypeOK
  <2>4. Underway(s)' /\ Served(s)' /\ Refused(s)'
    BY <1>3, <2>3 DEF Underway, Served, Refused
  <2> QED BY <1>1, <1>2, <1>3, <2>1, <2>2, <2>4, OneRequest
<1>4. CASE VisitorReject(s, r) \/ TokenMissing(s, r)
  BY <1>3, <1>4 DEF VisitorReject, TokenMissing
<1>5. CASE Unreachable(s, r)
  BY <1>3, <1>5 DEF Unreachable
<1>6. CASE Unguarded(s, r)
  <2> DEFINE c == [user |-> None, userSession |-> None,
                   visitorId |-> IF VisitorRequired(r) THEN r.visitor ELSE None]
  <2>1. Becomes(s, "handler", r, c, answer[s], asked[s]) /\ UNCHANGED lost
    BY <1>1, <1>6 DEF Unguarded, intercept, Becomes, IInv, TypeOK
  <2>2. c \in Context
    BY DEF Context, Request
  <2>3. answer[s] \in Answers \cup {None} /\ asked[s] \in Times \cup {None}
    BY DEF IInv, TypeOK
  <2>4. pc'[s] = "handler" /\ ctx'[s] = c
    BY <2>1 DEF Becomes, IInv, TypeOK
  <2>5. Admitted(s)' /\ c = Left(s)' /\ r.route \notin JwtGuarded
    BY <1>1, <1>2, <1>6 DEF Unguarded, VisitorPass, Admitted, VisitorRequired, Left
  <2> HIDE DEF c
  <2>6. Underway(s)' /\ Served(s)' /\ Refused(s)'
    BY <1>2, <2>4, <2>5 DEF Underway, Served, Refused
  <2> QED BY <1>1, <1>2, <2>1, <2>2, <2>3, <2>6, OneRequest
<1> QED BY <1>4, <1>5, <1>6

\* A token is on its way to the service: the first message of its request.
LEMMA runOperationKeeps ==
    ASSUME IInv, NEW s \in Slots, NEW r \in Request, runOperation(s, r)
    PROVE  IInv'
<1> DEFINE sent == [id |-> s, kind |-> "send", body |-> r.token]
<1>1. /\ pc[s] = "idle" /\ req' = [req EXCEPT ![s] = r] /\ pc' = [pc EXCEPT ![s] = "verify"]
      /\ wire' = wire \cup {sent} /\ r.route \in JwtGuarded
      /\ r.token \in tokens /\ (VisitorRequired(r) => r.visitor # None)
      /\ UNCHANGED <<bootstrap, registry, now, sessions, ctx, answer, asked, lost>> /\ service' = service
  BY DEF runOperation, VisitorPass, Arrive
<1>2. req'[s] = r /\ pc'[s] = "verify" /\ tokens' = tokens /\ \A m \in wire : m.id # s
  BY <1>1 DEF sessions, IInv, TypeOK, Waiting
<1>3. Becomes(s, "verify", r, ctx[s], answer[s], asked[s])
  BY <1>1 DEF Becomes, IInv, TypeOK
<1>4. /\ ctx[s] \in Context \cup {None} /\ answer[s] \in Answers \cup {None}
      /\ asked[s] \in Times \cup {None}
  BY DEF IInv, TypeOK
<1>5. Underway(s)' /\ Served(s)' /\ Refused(s)'
  <2>1. Admitted(s)'
    BY <1>1, <1>2 DEF Admitted, VisitorRequired
  <2>2. req'[s].route \in JwtGuarded /\ req'[s].token \in tokens'
    BY <1>1, <1>2
  <2> QED BY <1>2, <2>1, <2>2 DEF Underway, Served, Refused
<1>6. \A m \in wire' : m.id = s => m = sent
  BY <1>1, <1>2
<1>7. Carries(sent)' /\ sent.kind = "send"
  BY <1>2 DEF Carries
<1>8. \A m \in wire' : m \in wire \/ m.id = s
  BY <1>1
<1> HIDE DEF sent
<1> QED BY <1>1, <1>3, <1>4, <1>5, <1>6, <1>7, <1>8, OneRequest

\* The service answers with the claims of the token that the request sent.
LEMMA handleKeeps ==
    ASSUME IInv, NEW s \in Slots, handleGatewayRunOperation(s)
    PROVE  IInv'
<1>1. PICK m \in wire :
         /\ m.id = s /\ m.kind = "send"
         /\ wire' = (wire \ {m}) \cup
                        {[id |-> s, kind |-> "reply", body |-> Verification(m.body)]}
  BY DEF handleGatewayRunOperation
<1>0. PICK reply : reply = [id |-> s, kind |-> "reply", body |-> Verification(m.body)]
  OBVIOUS
<1>2. /\ asked' = [asked EXCEPT ![s] = now]
      /\ UNCHANGED <<bootstrap, registry, now, sessions, pc, req, ctx, answer, lost>> /\ service' = service
  BY DEF handleGatewayRunOperation
<1>3. pc[s] = "verify" /\ m.body = req[s].token /\ now \in Times /\ tokens' = tokens
  BY <1>1, <1>2 DEF sessions, IInv, TypeOK, Messages, Carries, Waiting
<1>4. Becomes(s, "verify", req[s], ctx[s], answer[s], now)
  BY <1>2, <1>3 DEF Becomes, IInv, TypeOK
<1>5. /\ req[s] \in Request \cup {None} /\ ctx[s] \in Context \cup {None}
      /\ answer[s] \in Answers \cup {None}
  BY DEF IInv, TypeOK
<1>6. Underway(s)' /\ Served(s)' /\ Refused(s)'
  BY <1>2, <1>3 DEF IInv, Underway, Served, Refused, Admitted, VisitorRequired
<1>7. \A n \in wire' : n.id = s => n = reply
  BY <1>0, <1>1 DEF IInv, Messages
<1>8. reply.kind = "reply" /\ Carries(reply)'
  <2>1. asked'[s] = now /\ req'[s] = req[s]
    BY <1>2 DEF IInv, TypeOK
  <2> QED BY <1>0, <1>2, <1>3, <2>1
             DEF Carries, Verification, runCommand, Verifies, Registered, verifyAccessToken, Claims
<1>9. \A n \in wire' : n \in wire \/ n.id = s
  BY <1>1
<1> QED BY <1>2, <1>3, <1>4, <1>5, <1>6, <1>7, <1>8, <1>9, OneRequest

\* The reply is the one to the request's own message.
LEMMA JwtReplyKeeps ==
    ASSUME IInv, NEW s \in Slots, JwtReply(s)
    PROVE  IInv'
<1>1. PICK m \in wire : (Verified(s, m) \/ Denied(s, m) \/ Invalid(s, m)) /\ wire' = wire \ {m}
  BY DEF JwtReply
<1>2. /\ pc[s] = "verify"
      /\ UNCHANGED <<bootstrap, registry, now, sessions, req, asked, lost>> /\ service' = service
  BY DEF JwtReply
<1> DEFINE t == req[s].token
<1>3. /\ m.id = s /\ asked[s] \in Times
      /\ m.body = IF Verifies /\ asked[s] < t.iat + Lifetime THEN Claims(t) ELSE None
  BY <1>1 DEF Verified, Denied, Invalid, IInv, Messages, Carries
<1>4. /\ Admitted(s) /\ req[s].route \in JwtGuarded /\ t \in tokens /\ t \in Token
      /\ req'[s] = req[s] /\ tokens' = tokens
  BY <1>2 DEF sessions, IInv, TypeOK, Underway
<1>5. Claims(t) \in Payload /\ Claims(t) # None
  BY <1>4, ClaimsAreAPayload
<1>6. /\ req[s] \in Request /\ asked[s] \in Times
      /\ \A n \in wire' : n \in wire /\ n.id # s
  BY <1>1, <1>3, <1>4 DEF Admitted, IInv, Messages
<1>7. ASSUME NEW a \in {"permission denied", "invalid token"}, Respond(s, a), Refused(s)'
      PROVE  IInv'
  <2>1. Becomes(s, "reply", req[s], None, a, asked[s]) /\ a \in Answers
    BY <1>2, <1>7 DEF Respond, Becomes, IInv, TypeOK, Answers
  <2>2. pc'[s] = "reply"
    BY <1>7 DEF Respond, IInv, TypeOK
  <2>3. Underway(s)' /\ Served(s)'
    BY <2>2 DEF Underway, Served
  <2> QED BY <1>2, <1>6, <1>7, <2>1, <2>3, OneRequest
<1>8. CASE Denied(s, m)
  <2>1. Respond(s, "permission denied") /\ m.body = Claims(t) /\ ~ Permitted(req[s], Claims(t))
    BY <1>3, <1>8 DEF Denied
  <2>2. RoleOf[t.session] \notin Range(RequiredRoles)
    BY <2>1 DEF Permitted, Claims
  <2>3. answer'[s] = "permission denied"
    BY <2>1 DEF Respond, IInv, TypeOK
  <2>4. Refused(s)'
    BY <1>4, <2>2, <2>3 DEF Refused
  <2> QED BY <1>7, <2>1, <2>4
<1>9. CASE Invalid(s, m)
  <2>1. Respond(s, "invalid token") /\ (~ Verifies \/ ~ (asked[s] < t.iat + Lifetime))
    BY <1>3, <1>5, <1>9 DEF Invalid
  <2>2. ~ Verifies \/ (asked[s] # None /\ asked[s] >= t.iat + Lifetime)
    <3>1. t.iat \in Times /\ asked[s] # None
      BY <1>4, <1>6, ConstantsAssumption DEF Token
    <3>2. Lifetime \in Nat /\ MaxTime \in Nat /\ (~ Verifies \/ ~ (asked[s] < t.iat + Lifetime))
      BY <2>1, ConstantsAssumption
    <3> HIDE DEF t
    <3> QED BY <1>6, <3>1, <3>2 DEF Times
  <2>3. answer'[s] = "invalid token" /\ asked'[s] = asked[s]
    BY <1>2, <2>1 DEF Respond, IInv, TypeOK
  <2>4. Refused(s)'
    BY <1>2, <1>4, <2>2, <2>3 DEF Refused, Verifies, Registered
  <2> QED BY <1>7, <2>1, <2>4
<1>10. CASE Verified(s, m)
  <2>1. /\ asked[s] < t.iat + Lifetime /\ m.body = Claims(t)
        /\ Permitted(req[s], Claims(t)) /\ intercept(s, req[s], Claims(t))
    BY <1>3, <1>10 DEF Verified
  <2> DEFINE c == [user        |-> Claims(t),
                   userSession |-> IF bootstrap THEN Claims(t) ELSE None,
                   visitorId   |-> IF VisitorRequired(req[s]) THEN req[s].visitor ELSE None]
  <2>2. Becomes(s, "handler", req[s], c, answer[s], asked[s])
    BY <1>2, <2>1 DEF intercept, Becomes, IInv, TypeOK
  <2>3. c \in Context
    BY <1>5, <1>6 DEF Context, Request
  <2>4. pc'[s] = "handler" /\ ctx'[s] = c /\ asked'[s] = asked[s]
    BY <1>2, <2>2 DEF Becomes, IInv, TypeOK
  <2>5. c = Left(s)' /\ Admitted(s)'
    BY <1>2, <1>4 DEF Left, Admitted, VisitorRequired
  <2> HIDE DEF c
  <2>6. Underway(s)' /\ Served(s)' /\ Refused(s)'
    BY <1>4, <1>6, <2>1, <2>4, <2>5 DEF Underway, Served, Refused
  <2>7. answer[s] \in Answers \cup {None}
    BY DEF IInv, TypeOK
  <2> QED BY <1>2, <1>6, <2>2, <2>3, <2>6, <2>7, OneRequest
<1> QED BY <1>1, <1>8, <1>9, <1>10

\* The handler answers, or its command is not registered.
LEMMA HandlerKeeps ==
    ASSUME IInv, NEW s \in Slots, Handler(s) \/ Reply(s)
    PROVE  IInv'
<1>1. pc[s] \in {"handler", "reply"} /\ \A m \in wire : m.id # s
  BY DEF Handler, Reply, IInv, TypeOK, Waiting
<1>2. CASE Done(s)
  <2>1. /\ Becomes(s, "idle", None, None, None, None) /\ lost' = lost \ {s}
        /\ UNCHANGED <<bootstrap, registry, now, sessions, wire>> /\ service' = service
    BY <1>2 DEF Done, Becomes
  <2>2. pc'[s] = "idle"
    BY <1>2 DEF Done, IInv, TypeOK
  <2>3. Underway(s)' /\ Served(s)' /\ Refused(s)'
    BY <2>2 DEF Underway, Served, Refused
  <2> QED BY <1>1, <2>1, <2>3, OneRequest
<1>3. CASE Handler(s) /\ ~ Done(s)
  <2>1. /\ Respond(s, "bad gateway") /\ Outcome(req[s].route) # "executed" /\ pc[s] = "handler"
        /\ UNCHANGED <<bootstrap, registry, now, sessions, wire, req, asked, lost>> /\ service' = service
    BY <1>3 DEF Handler
  <2>2. req[s].route = "login" /\ ~ Registered(FindUser, "handlers")
    BY <2>1 DEF Outcome, runCommand
  <2>3. Becomes(s, "reply", req[s], None, "bad gateway", asked[s]) /\ "bad gateway" \in Answers
    BY <2>1 DEF Respond, Becomes, IInv, TypeOK, Answers
  <2>4. pc'[s] = "reply" /\ answer'[s] = "bad gateway" /\ req'[s] = req[s]
    BY <2>1 DEF Respond, IInv, TypeOK
  <2>5. Underway(s)' /\ Served(s)' /\ Refused(s)'
    BY <2>1, <2>2, <2>4 DEF Underway, Served, Refused, Registered
  <2>6. req[s] \in Request \cup {None} /\ asked[s] \in Times \cup {None}
    BY DEF IInv, TypeOK
  <2> QED BY <1>1, <2>1, <2>3, <2>5, <2>6, OneRequest
<1> QED BY <1>2, <1>3 DEF Reply

----------------------------------------------------------------------------
(* The theorems.                                                           *)

\* In every state a message belongs to the request that waits for it, and a
\* token to a session that was open, or being renewed, when it was signed.
THEOREM Invariance == Spec => []IInv
<1>1. IInv /\ [Next]_vars => IInv'
  <2> SUFFICES ASSUME IInv, [Next]_vars PROVE IInv'
    OBVIOUS
  <2>1. CASE UNCHANGED vars
    <3>1. /\ UNCHANGED <<bootstrap, registry, now, open, over, strays, ended, tokens, service, wire, request>>
      BY <2>1 DEF vars, sessions
    <3>2. TypeOK' /\ Signed'
      BY <3>1 DEF request, IInv, TypeOK, Waiting, Signed
    <3> QED BY <3>1, <3>2, RequestsStay DEF IInv
  <2>2. CASE SessionStep
    BY <2>2, SessionStepKeeps
  <2>3. CASE (\E f \in Sessions : generateTokens(f)) \/ Tick \/ ServiceUp
    BY <2>3, OutsideKeeps
  <2>4. CASE ServiceDown
    BY <2>4, ServiceDownKeeps
  <2>5. CASE \E s \in Slots, r \in Request : Guards(s, r)
    BY <2>5, GuardsKeep, runOperationKeeps DEF Guards
  <2>6. CASE \E s \in Slots : Handle(s) \/ handleGatewayRunOperation(s)
    BY <2>6, JwtReplyKeeps, HandlerKeeps, handleKeeps DEF Handle
  <2> QED BY <2>1, <2>2, <2>3, <2>4, <2>5, <2>6 DEF Next
<1> QED BY <1>1, InitIInv, PTL DEF Spec

\* Every variable keeps its type, and a handler under setupBootstrap has a
\* visitor id unless its route is exempt.
THEOREM TypeCorrect == Spec => []TypeOK
<1>1. IInv => TypeOK
  BY DEF IInv
<1> QED BY <1>1, Invariance, PTL

\* However many requests are verified at the same time, each is served as the
\* session and the visitor it came with.
THEOREM RequestsServedAsThemselves == Spec => []ServedAsSelf
<1>1. IInv => ServedAsSelf
  <2> SUFFICES ASSUME IInv, NEW s \in Slots, pc[s] = "handler"
               PROVE  LET r == req[s] IN
                      /\ r.route \in JwtGuarded => r.token # None /\ asked[s] # None
                      /\ r.route = "users" => RoleOf[r.token.session] \in Range(RequiredRoles)
                      /\ ctx[s].user = IF r.route \in JwtGuarded
                                       THEN [sub |-> r.token.session,
                                             tokenRole |-> RoleOf[r.token.session]]
                                       ELSE None
                      /\ ctx[s].userSession = IF bootstrap THEN ctx[s].user ELSE None
                      /\ ctx[s].visitorId = IF bootstrap /\ r.route \notin VisitorIdExempt
                                            THEN r.visitor ELSE None
    BY DEF ServedAsSelf
  <2>1. Served(s) /\ tokens \subseteq Token
    BY DEF IInv, TypeOK
  <2>2. req[s].route \in JwtGuarded => req[s].token # None /\ asked[s] # None
    BY <2>1, ConstantsAssumption DEF Served
  <2>3. req[s].route = "users" => RoleOf[req[s].token.session] \in Range(RequiredRoles)
    BY <2>1 DEF Served, JwtGuarded, Permitted, Claims
  <2>4. ctx[s].user = IF req[s].route \in JwtGuarded THEN Claims(req[s].token) ELSE None
    BY <2>1 DEF Served, Left
  <2>5. ctx[s].userSession = IF bootstrap THEN ctx[s].user ELSE None
    BY <2>1 DEF Served, Left
  <2>6. ctx[s].visitorId = IF bootstrap /\ req[s].route \notin VisitorIdExempt
                           THEN req[s].visitor ELSE None
    BY <2>1 DEF Served, Left, VisitorRequired
  <2> QED BY <2>2, <2>3, <2>4, <2>5, <2>6 DEF Claims
<1> QED BY <1>1, Invariance, PTL

\* A session that is over is served for one more lifetime at most.
THEOREM ServedForALifetime == Spec => []ServedALifetimeAtMost
<1>1. IInv => ServedALifetimeAtMost
  <2> SUFFICES ASSUME IInv, NEW s \in Slots, pc[s] = "handler", req[s].route \in JwtGuarded,
                      req[s].token.session \in over \ strays
               PROVE  asked[s] < ended[req[s].token.session] + Lifetime
    BY DEF ServedALifetimeAtMost
  <2> DEFINE t == req[s].token
  <2>1. t \in tokens /\ asked[s] \in Times /\ asked[s] < t.iat + Lifetime
    BY DEF IInv, Served
  <2>2. t.iat \in Times /\ t.iat <= ended[t.session] /\ ended[t.session] \in Times
    BY <2>1 DEF IInv, TypeOK, Signed, Token
  <2> HIDE DEF t
  <2> QED BY <2>1, <2>2, ConstantsAssumption DEF t, Times
<1> QED BY <1>1, Invariance, PTL

\* A request is refused for its own token, its role or its operation, or
\* because nobody could verify the token.
THEOREM RequestsRefusedRightly == Spec => []RefusedRightly
<1>1. IInv => RefusedRightly
  BY DEF IInv, Refused, RefusedRightly, Verifies
<1> QED BY <1>1, Invariance, PTL
============================================================================
