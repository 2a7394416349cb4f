-------------------------- MODULE GuardedRequests --------------------------
(***************************************************************************)
(* A request from its arrival to its answer: VisitorIdGuard, JwtAuthGuard, *)
(* TokenRoleGuard, the interceptor that fills the CLS, the handler.  The   *)
(* guard has the access token verified by the account service: a message   *)
(* through GatewayService.runOperation, answered by runCommand there.      *)
(* Steps end where the code awaits something other than itself.            *)
(*                                                                         *)
(* Access tokens are signed for the sessions of SessionLifecycle, which    *)
(* RefreshSessions implements.  The service comes up and goes down: when   *)
(* its connection closes, the client fails what it waits for.  Messages    *)
(* are answered in any order.  ended, asked and lost are history.          *)
(***************************************************************************)
EXTENDS FiniteSets, Integers, Functions

CONSTANTS
    Sessions,
    RoleOf,       \* the token role of each session
    Visitors,     \* valid values of the visitor-id header
    Slots,        \* requests the server handles at the same time
    Deployments,  \* the ways the program may be put together
    Lifetime,     \* account.token.expiresIn
    MaxTime,      \* bound: ticks of the clock
    MaxTokens,    \* bound: access tokens
    None

TokenRoles == {"SUPER_ADMIN", "ADMIN", "BASIC", "GUEST"}
Routes     == {"login", "me", "users", "health"}
Times      == 0..MaxTime
Token      == [session : Sessions, iat : Times]
Payload    == [sub : Sessions, tokenRole : TokenRoles]
Request    == [route : Routes, token : Token \cup {None}, visitor : Visitors \cup {None}]
Context    == [user : Payload \cup {None}, userSession : Payload \cup {None},
               visitorId : Visitors \cup {None}]
Answers    == {"visitor required", "token required", "invalid token",
               "permission denied", "bad gateway"}

VerifyAccessToken == "account.verify-access-token"
FindUser          == "account.find-user-by-identifier"
Commands          == {VerifyAccessToken, FindUser}

\* whether setupBootstrap runs (or main.ts), the services that forRoot is given,
\* and the operations that the modules of a process give forFeature: the
\* process of the handlers, and the one that listens as the account service
Registry   == [clients : SUBSET {"account"}, handlers : SUBSET Commands, account : SUBSET Commands]
Deployment == [bootstrap : BOOLEAN, registry : Registry]

ASSUME ConstantsAssumption ==
    /\ RoleOf \in [Sessions -> TokenRoles]
    /\ Deployments \subseteq Deployment
    /\ Lifetime \in Nat \ {0} /\ MaxTime \in Nat /\ MaxTokens \in Nat
    /\ None \notin Visitors \cup Sessions \cup Token \cup Payload \cup Request \cup Context
                   \cup Answers \cup Times

VARIABLES
    bootstrap,          \* whether setupBootstrap has run
    registry,           \* the clients and operations of the two processes
    open, over, strays, \* the sessions
    ended,              \* when each session was ended, unless a refresh held its row
    now,
    tokens,             \* access tokens that were signed
    service,            \* whether the account service listens
    wire,               \* messages between the gateway's client and the service
    pc, req,
    ctx,                \* `user`: request.userSession, which @UserSession() reads; the CLS
    answer,
    asked,              \* when the service was asked to verify the token
    lost                \* requests whose verification the service did not see through

sessions == <<open, over, strays, ended, tokens>>
request  == <<pc, req, ctx, answer, asked, lost>>
vars     == <<bootstrap, registry, now, sessions, service, wire, request>>

----------------------------------------------------------------------------
(* Sessions and their tokens.                                              *)

Lifecycle == INSTANCE SessionLifecycle

SessionStep ==
    /\ Lifecycle!Next
    /\ ended' = [f \in Sessions |-> IF f \in (over' \ strays') \ over THEN now ELSE ended[f]]
    /\ UNCHANGED <<bootstrap, registry, now, tokens, service, wire, request>>

\* A login signs before it saves its row, a refresh after it read one: not for
\* a session that was ended, unless the refresh held the row then.
generateTokens(f) ==
    /\ Cardinality(tokens) < MaxTokens
    /\ f \notin over \ strays
    /\ tokens' = tokens \cup {[session |-> f, iat |-> now]}
    /\ UNCHANGED <<bootstrap, registry, now, open, over, strays, ended, service, wire, request>>

Tick ==
    /\ now < MaxTime
    /\ now' = now + 1
    /\ UNCHANGED <<bootstrap, registry, sessions, service, wire, request>>

----------------------------------------------------------------------------
(* The account service.                                                    *)

\* Mutated: the token is decoded, and its expiry not looked at.
verifyAccessToken_Decoded(token) == [sub |-> token.session, tokenRole |-> RoleOf[token.session]]

\* verifyAsync: the payload of the token, or an error
verifyAccessToken(token) ==
    IF now < token.iat + Lifetime
    THEN [sub |-> token.session, tokenRole |-> RoleOf[token.session]]
    ELSE None

\* GatewayModule.forRoot and forFeature fill the registries at start-up.
Client(id)                     == id \in registry.clients
Registered(operation, process) == operation \in registry[process]

\* an error of the command itself passes runCommand as it is
runCommand(operation, process) == IF Registered(operation, process) THEN "executed" ELSE "bad gateway"

\* what the reply carries: an error is an error to the client, whichever it is
Verification(token) ==
    IF runCommand(VerifyAccessToken, "account") = "executed" THEN verifyAccessToken(token) ELSE None

\* gateway.runOperation arrives, runCommand executes verify-access-token
handleGatewayRunOperation(s) ==
    /\ \E m \in wire :
          /\ m.id = s /\ m.kind = "send"
          /\ wire' = (wire \ {m}) \cup
                         {[id |-> s, kind |-> "reply", body |-> Verification(m.body)]}
    /\ asked' = [asked EXCEPT ![s] = now]
    /\ UNCHANGED <<bootstrap, registry, now, sessions, service, pc, req, ctx, answer, lost>>

\* startAllMicroservices and listen run side by side: requests may come first.
ServiceUp ==
    /\ ~ service
    /\ service' = TRUE
    /\ UNCHANGED <<bootstrap, registry, now, sessions, wire, request>>

Waiting == {s \in Slots : pc[s] = "verify"}

\* The connection closes; the client fails every message without a reply.
ServiceDown ==
    /\ service
    /\ service' = FALSE
    /\ wire'    = {}
    /\ pc'      = [s \in Slots |-> IF s \in Waiting THEN "reply" ELSE pc[s]]
    /\ answer'  = [s \in Slots |-> IF s \in Waiting THEN "invalid token" ELSE answer[s]]
    /\ lost'    = lost \cup Waiting
    /\ asked'   = [s \in Slots |-> IF s \in Waiting THEN None ELSE asked[s]]
    /\ UNCHANGED <<bootstrap, registry, now, sessions, req, ctx>>

----------------------------------------------------------------------------
(* The guards, the interceptor and the handler.                            *)

VisitorIdExempt == {"health"}
JwtGuarded      == {"me", "users"}
RequiredRoles   == <<"ADMIN", "SUPER_ADMIN">>

\* Mutated: the header is asked for on guarded routes only.
VisitorRequired_Guarded(r) == bootstrap /\ r.route \in JwtGuarded

\* VisitorIdGuard is global, and installed by setupBootstrap
VisitorRequired(r) == bootstrap /\ r.route \notin VisitorIdExempt

\* Mutated: TokenRoleGuard looks at the first role.
Permitted_First(r, payload) == r.route = "users" => payload.tokenRole = RequiredRoles[1]

Permitted(r, payload) == r.route = "users" => payload.tokenRole \in Range(RequiredRoles)

\* Bounds: a request has no token and no visitor id where no guard looks at it; a
\* header that a guard misses is missing on one route.
Arrive(s, r) ==
    /\ pc[s] = "idle"
    /\ r.token \in tokens \cup {None}
    /\ r.token # None => r.route \in JwtGuarded /\ (VisitorRequired(r) => r.visitor # None)
    /\ IF VisitorRequired(r) THEN r.visitor = None => r.route = "login" ELSE r.visitor = None
    /\ r.token = None => r.route # "users"
    /\ req' = [req EXCEPT ![s] = r]

Respond(s, a) ==
    /\ answer' = [answer EXCEPT ![s] = a]
    /\ pc'     = [pc EXCEPT ![s] = "reply"]
    /\ ctx'    = [ctx EXCEPT ![s] = None]

VisitorReject(s, r) ==
    /\ Arrive(s, r)
    /\ VisitorRequired(r) /\ r.visitor = None
    /\ Respond(s, "visitor required")
    /\ UNCHANGED <<bootstrap, registry, now, sessions, service, wire, asked, lost>>

VisitorPass(s, r) ==
    /\ Arrive(s, r)
    /\ VisitorRequired(r) => r.visitor # None

\* ClsUserSessionInterceptor copies what the guards left on the request, where
\* setupBootstrap installs it.
intercept(s, r, payload) ==
    /\ ctx' = [ctx EXCEPT ![s] =
                  [user        |-> payload,
                   userSession |-> IF bootstrap THEN payload ELSE None,
                   visitorId   |-> IF VisitorRequired(r) THEN r.visitor ELSE None]]
    /\ pc' = [pc EXCEPT ![s] = "handler"]
    /\ UNCHANGED answer

Unguarded(s, r) ==
    /\ VisitorPass(s, r)
    /\ r.route \notin JwtGuarded
    /\ intercept(s, r, None)
    /\ UNCHANGED <<bootstrap, registry, now, sessions, service, wire, asked, lost>>

TokenMissing(s, r) ==
    /\ VisitorPass(s, r)
    /\ r.route \in JwtGuarded /\ r.token = None
    /\ Respond(s, "token required")
    /\ UNCHANGED <<bootstrap, registry, now, sessions, service, wire, asked, lost>>

\* runOperation: no client for the service, or nothing listens
Unreachable(s, r) ==
    /\ VisitorPass(s, r)
    /\ r.route \in JwtGuarded /\ r.token # None
    /\ ~ Client("account") \/ ~ service
    /\ lost' = lost \cup {s}
    /\ Respond(s, "invalid token")
    /\ UNCHANGED <<bootstrap, registry, now, sessions, service, wire, asked>>

runOperation(s, r) ==
    /\ VisitorPass(s, r)
    /\ r.route \in JwtGuarded /\ r.token # None
    /\ Client("account") /\ service
    /\ wire' = wire \cup {[id |-> s, kind |-> "send", body |-> r.token]}
    /\ pc'   = [pc EXCEPT ![s] = "verify"]
    /\ UNCHANGED <<bootstrap, registry, now, sessions, service, ctx, answer, asked, lost>>

\* Mutated: the payload is kept on the guard, where the reply to another
\* request may have replaced it.
Verified_Shared(s, m) ==
    /\ m.id = s /\ m.kind = "reply"
    /\ \E other \in wire :
          /\ other.kind = "reply" /\ other.body # None /\ m.body # None
          /\ Permitted(req[s], other.body)
          /\ intercept(s, req[s], other.body)

\* the payload is a property of the request; TokenRoleGuard reads it there
Verified(s, m) ==
    /\ m.id = s /\ m.kind = "reply" /\ m.body # None
    /\ Permitted(req[s], m.body)
    /\ intercept(s, req[s], m.body)

Denied(s, m) ==
    /\ m.id = s /\ m.kind = "reply" /\ m.body # None
    /\ ~ Permitted(req[s], m.body)
    /\ Respond(s, "permission denied")

\* Mutated: an error of the service is not taken for an answer.
Invalid_Ignored(s, m) == FALSE

Invalid(s, m) ==
    /\ m.id = s /\ m.kind = "reply" /\ m.body = None
    /\ Respond(s, "invalid token")

JwtReply(s) ==
    /\ pc[s] = "verify"
    /\ \E m \in wire :
          /\ Verified(s, m) \/ Denied(s, m) \/ Invalid(s, m)
          /\ wire' = wire \ {m}
    /\ UNCHANGED <<bootstrap, registry, now, sessions, service, req, asked, lost>>

\* what the handler returns or throws, or why it does neither: login needs the
\* account, while the audit row of a write may fail
Outcome(route) == IF route = "login" THEN runCommand(FindUser, "handlers") ELSE "executed"

Done(s) ==
    /\ pc'     = [pc EXCEPT ![s] = "idle"]
    /\ req'    = [req EXCEPT ![s] = None]
    /\ ctx'    = [ctx EXCEPT ![s] = None]
    /\ answer' = [answer EXCEPT ![s] = None]
    /\ asked'  = [asked EXCEPT ![s] = None]
    /\ lost'   = lost \ {s}
    /\ UNCHANGED <<bootstrap, registry, now, sessions, service, wire>>

\* The handler; what it does and answers is in the other modules.
Handler(s) ==
    /\ pc[s] = "handler"
    /\ IF Outcome(req[s].route) = "executed"
       THEN Done(s)
       ELSE /\ Respond(s, "bad gateway")
            /\ UNCHANGED <<bootstrap, registry, now, sessions, service, wire, req, asked, lost>>

Reply(s) == pc[s] = "reply" /\ Done(s)

----------------------------------------------------------------------------
Init ==
    /\ \E d \in Deployments : bootstrap = d.bootstrap /\ registry = d.registry
    /\ Lifecycle!Init
    /\ ended = [f \in Sessions |-> None]
    /\ now = 0 /\ tokens = {} /\ service = FALSE /\ wire = {}
    /\ pc     = [s \in Slots |-> "idle"]
    /\ req    = [s \in Slots |-> None]
    /\ ctx    = [s \in Slots |-> None]
    /\ answer = [s \in Slots |-> None]
    /\ asked  = [s \in Slots |-> None]
    /\ lost   = {}

Guards(s, r) ==
    \/ VisitorReject(s, r) \/ TokenMissing(s, r) \/ Unguarded(s, r)
    \/ Unreachable(s, r) \/ runOperation(s, r)

Handle(s) == JwtReply(s) \/ Handler(s) \/ Reply(s)

Next ==
    \/ SessionStep
    \/ \E f \in Sessions : generateTokens(f)
    \/ Tick
    \/ ServiceUp
    \/ ServiceDown
    \/ \E s \in Slots, r \in Request : Guards(s, r)
    \/ \E s \in Slots : Handle(s) \/ handleGatewayRunOperation(s)

Spec == Init /\ [][Next]_vars

\* Both event loops run what is ready; nothing makes the service start, or stop.
FairSpec ==
    Spec /\ \A s \in Slots : WF_vars(Handle(s)) /\ WF_vars(handleGatewayRunOperation(s))

----------------------------------------------------------------------------
\* Type invariant; under setupBootstrap a handler has a visitor id, unless its
\* route is exempt.
TypeOK ==
    /\ bootstrap \in BOOLEAN /\ registry \in Registry /\ service \in BOOLEAN
    /\ ended \in [Sessions -> Times \cup {None}]
    /\ now \in Times /\ tokens \subseteq Token
    /\ \A m \in wire : m.id \in Waiting /\ m.kind \in {"send", "reply"}
    /\ pc \in [Slots -> {"idle", "verify", "handler", "reply"}]
    /\ req \in [Slots -> Request \cup {None}]
    /\ ctx \in [Slots -> Context \cup {None}]
    /\ answer \in [Slots -> Answers \cup {None}]
    /\ asked \in [Slots -> Times \cup {None}]
    /\ lost \subseteq Slots
    /\ \A s \in Slots :
          (pc[s] = "handler" /\ bootstrap /\ req[s].route \notin VisitorIdExempt)
              => ctx[s].visitorId \in Visitors

\* A handler runs as the session of the token that its own request had, with the
\* role that its route asks for, whatever other requests are verified at the same
\* time and in whichever order, and as nobody where no guard asks for a token.
\* Under setupBootstrap the CLS says the same, with the visitor of the header,
\* which a login saves its session for; under main.ts it says nothing.
ServedAsSelf ==
    \A s \in Slots : pc[s] = "handler" =>
        LET r == req[s] IN
        /\ r.route \in JwtGuarded => r.token # None /\ asked[s] # None
        /\ r.route = "users" => RoleOf[r.token.session] \in Range(RequiredRoles)
        /\ ctx[s].user = IF r.route \in JwtGuarded
                         THEN [sub |-> r.token.session, tokenRole |-> RoleOf[r.token.session]]
                         ELSE None
        /\ ctx[s].userSession = IF bootstrap THEN ctx[s].user ELSE None
        /\ ctx[s].visitorId = IF bootstrap /\ r.route \notin VisitorIdExempt THEN r.visitor ELSE None

\* A logout does not revoke access tokens, but they are verified for one more
\* lifetime at most: the session that is over signs no more, unless a refresh
\* was under way when it was ended.
ServedALifetimeAtMost ==
    \A s \in Slots : (pc[s] = "handler" /\ req[s].route \in JwtGuarded) =>
        LET f == req[s].token.session IN
            f \in over \ strays => asked[s] < ended[f] + Lifetime

\* "Invalid access token" is for a token that had expired when it was verified,
\* or for one that nobody could verify: the service is down, unknown, or a
\* process that verifies none; "Permission denied" for a token of another role;
\* and only an operation that is not registered is a bad gateway.
RefusedRightly ==
    \A s \in Slots : pc[s] = "reply" =>
        LET r == req[s] IN
        /\ answer[s] = "invalid token" =>
              \/ s \in lost \/ ~ Registered(VerifyAccessToken, "account")
              \/ asked[s] # None /\ asked[s] >= r.token.iat + Lifetime
        /\ answer[s] = "permission denied" => RoleOf[r.token.session] \notin Range(RequiredRoles)
        /\ answer[s] = "bad gateway" =>
              r.route = "login" /\ ~ Registered(FindUser, "handlers")

\* Every request is answered, though runOperation has no timeout: the service
\* answers, or its connection closes.
RequestsAnswered == \A s \in Slots : pc[s] # "idle" ~> pc[s] = "idle"
============================================================================
