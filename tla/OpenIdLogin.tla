---------------------------- MODULE OpenIdLogin ----------------------------
(***************************************************************************)
(* Signing in with an OpenID provider: GET :provider/init keeps a state in *)
(* the memory of the process and sends the browser to the provider, GET    *)
(* :provider/callback exchanges the provider's code for its token and      *)
(* hands that to the front end, and POST login with method "openid" asks   *)
(* the provider whose token it is and looks for an account.  One action    *)
(* per stretch of code between two awaits; discovery reads and writes      *)
(* nothing here, so it is part of the wait before the step that follows.   *)
(*                                                                         *)
(* An attempt is numbered when init draws its state; its nonce, verifier   *)
(* and challenge are its secret.  A person is their email.  The provider   *)
(* is external: it grants one code per attempt, bound to client and secret,*)
(* exchanges it once, and answers userinfo for every token of its own, the *)
(* ones it granted to other applications included.                         *)
(* No code reads begun, used, handed or disturbed.                         *)
(***************************************************************************)
EXTENDS Naturals, FiniteSets, Functions

CONSTANTS
    People,       \* emails of the people at the browsers, and of the accounts
    Providers,    \* names of rows of openid_providers
    Clients,      \* registrations at a provider: client_id, secret, redirect_uri
    MaxAttempts,  \* bound: states drawn
    MaxLogins,    \* bound: logins at the same time, which only read
    Slots,        \* requests the server handles at the same time
    None

ASSUME NoneIsNothing == None \notin Clients \cup People

Attempts == 1..MaxAttempts

VARIABLES
    openid_providers, \* the registration of each provider, None while it is not enabled
    stateStore,  \* the secret of each state this process has drawn
    pc, req,     \* the await each request is at, and what it carries
    conf,        \* the registration the request read
    got,         \* the secret a callback found, or what a login knows of its user
    begun,       \* the authorization URL of each attempt
    decided,     \* who granted the attempt at the provider, None if it was denied
    used,        \* attempts whose code the provider has exchanged
    handed,      \* attempts whose token the front end was given
    disturbed    \* attempts that something else than the server's own doing befell

local   == <<pc, req, conf, got>>
outside == <<openid_providers, decided>>
history == <<begun, used, handed, disturbed>>
vars    == <<outside, stateStore, local, history>>

Bind(f, i, x) == [j \in DOMAIN f \cup {i} |-> IF j = i THEN x ELSE f[j]]
Nothing == [i \in {} |-> None]

Goto(s, label) == pc' = [pc EXCEPT ![s] = label] /\ req' = req
Done(s) ==
    /\ pc'   = [pc EXCEPT ![s] = "idle"]
    /\ req'  = [req EXCEPT ![s] = None]
    /\ conf' = [conf EXCEPT ![s] = None]
    /\ got'  = [got EXCEPT ![s] = None]

Arrive(s, r, first) ==
    /\ pc[s] = "idle"
    /\ pc'  = [pc EXCEPT ![s] = first]
    /\ req' = [req EXCEPT ![s] = r]
    /\ UNCHANGED <<conf, got>>

----------------------------------------------------------------------------
(* GET :provider/init                                                      *)

InitArrive(s) ==
    /\ \E p \in Providers : Arrive(s, [op |-> "init", provider |-> p], "init.find")
    /\ UNCHANGED <<outside, stateStore, history>>

\* findOne({ where: { name, enabled: true } })
findByName(p) == openid_providers[p]

InitFind(s) ==
    /\ pc[s] = "init.find"
    /\ LET client == findByName(req[s].provider) IN
          IF client = None THEN Done(s)
          ELSE /\ Goto(s, "init.discover")
               /\ conf' = [conf EXCEPT ![s] = client]
               /\ UNCHANGED got
    /\ UNCHANGED <<outside, stateStore, history>>

Url(s, k) == [provider |-> req[s].provider, client |-> conf[s], secret |-> k]
Current(url) == openid_providers[url.provider] = url.client

\* Mutated: the service keeps the state of the last init only.
InitRedirect_OneState(s) ==
    /\ pc[s] = "init.discover"
    /\ \E k \in Attempts \ DOMAIN begun :
          /\ \A j \in Attempts : j < k => j \in DOMAIN begun
          /\ stateStore' = Bind(Nothing, k, k)
          /\ begun'      = Bind(begun, k, Url(s, k))
          /\ disturbed'  = IF Current(Url(s, k)) THEN disturbed ELSE disturbed \cup {k}
    /\ Done(s)
    /\ UNCHANGED <<outside, used, handed>>

InitRedirect(s) ==
    /\ pc[s] = "init.discover"
    /\ \E k \in Attempts \ DOMAIN begun :
          /\ \A j \in Attempts : j < k => j \in DOMAIN begun
          /\ stateStore' = Bind(stateStore, k, k)
          /\ begun'      = Bind(begun, k, Url(s, k))
          /\ disturbed'  = IF Current(Url(s, k)) THEN disturbed ELSE disturbed \cup {k}
    /\ Done(s)
    /\ UNCHANGED <<outside, used, handed>>

----------------------------------------------------------------------------
(* GET :provider/callback                                                  *)

\* The path of the callback names the provider of its init.
OwnProvider(r) == r.provider = begun[r.attempt].provider

Repeated(r) == \/ r.attempt \in used
               \/ \E t \in Slots : pc[t] # "idle" /\ req[t] = r

\* The browser follows the provider's redirect, to a path of the provider's
\* registration; it may do so again (a reload).
CallbackArrive(s) ==
    /\ \E k \in DOMAIN decided, p \in Providers :
          LET r == [op |-> "callback", attempt |-> k, provider |-> p] IN
             /\ Arrive(s, r, "callback.find")
             /\ disturbed' = IF OwnProvider(r) /\ Repeated(r) THEN disturbed \cup {k}
                             ELSE disturbed
    /\ UNCHANGED <<outside, stateStore, begun, used, handed>>

\* Mutated: params.state is not looked for before it is used.
CallbackFind_Unchecked(s) ==
    /\ pc[s] = "callback.find"
    /\ LET k   == req[s].attempt
           client == findByName(req[s].provider)
       IN  IF client = None
           THEN Done(s)
           ELSE /\ Goto(s, "callback.exchange")
                /\ conf' = [conf EXCEPT ![s] = client]
                /\ got'  = [got EXCEPT ![s] = IF k \in DOMAIN stateStore THEN stateStore[k] ELSE None]
    /\ UNCHANGED <<outside, stateStore, begun, used, handed, disturbed>>

\* 'Provider not found', 'Invalid state'; the state stays in the store
CallbackFind(s) ==
    /\ pc[s] = "callback.find"
    /\ LET k   == req[s].attempt
           client == findByName(req[s].provider)
       IN  IF client = None \/ k \notin DOMAIN stateStore
           THEN Done(s)
           ELSE /\ Goto(s, "callback.exchange")
                /\ conf' = [conf EXCEPT ![s] = client]
                /\ got'  = [got EXCEPT ![s] = stateStore[k]]
    /\ UNCHANGED <<outside, stateStore, begun, used, handed, disturbed>>

\* what the provider and client.callback check: error, code, client, verifier, nonce
Exchangeable(r, client, secret) ==
    LET k == r.attempt IN
    /\ OwnProvider(r)
    /\ decided[k] # None
    /\ k \notin used
    /\ client = begun[k].client
    /\ secret = begun[k].secret

CallbackExchange(s) ==
    /\ pc[s] = "callback.exchange"
    /\ IF Exchangeable(req[s], conf[s], got[s])
          THEN /\ used' = used \cup {req[s].attempt}
               /\ Goto(s, "callback.reply")
               /\ UNCHANGED <<conf, got>>
          ELSE Done(s) /\ UNCHANGED used
    /\ UNCHANGED <<outside, stateStore, begun, handed, disturbed>>

\* redirect to FE_BASE_URL/login/callback?token=...
CallbackReply(s) ==
    /\ pc[s] = "callback.reply"
    /\ handed' = handed \cup {req[s].attempt}
    /\ Done(s)
    /\ UNCHANGED <<outside, stateStore, begun, used, disturbed>>

----------------------------------------------------------------------------
(* POST login { method: "openid", data: { token, provider } }              *)

\* What a provider issues: a token of a person, for an attempt of this program,
\* or, with attempt None, for another application the person uses.
Token == [provider : Providers, person : People, attempt : Attempts \cup {None}]
TokenOf(k) == [provider |-> begun[k].provider, person |-> decided[k], attempt |-> k]

\* The tokens that people hold.
Held == {TokenOf(k) : k \in handed} \cup {t \in Token : t.attempt = None}

Logins == {s \in Slots : pc[s] # "idle" /\ req[s].op = "login"}

\* The body has any token and any provider.
LoginArrive(s) ==
    /\ Cardinality(Logins) < MaxLogins
    /\ \E t \in Held, p \in Providers :
          Arrive(s, [op |-> "login", token |-> t, provider |-> p], "login.find")
    /\ UNCHANGED <<outside, stateStore, history>>

\* The client made from the row plays no part in the request for userinfo.
LoginFind(s) ==
    /\ pc[s] = "login.find"
    /\ IF findByName(req[s].provider) = None THEN Done(s)
       ELSE Goto(s, "login.userinfo") /\ UNCHANGED <<conf, got>>
    /\ UNCHANGED <<outside, stateStore, history>>

\* Mutated: the claims are read off the token and no issuer is asked.
LoginUserinfo_Decoded(s) ==
    /\ pc[s] = "login.userinfo"
    /\ Goto(s, "login.account")
    /\ \E claim \in {req[s].token.person, None} : got' = [got EXCEPT ![s] = claim]
    /\ UNCHANGED <<outside, stateStore, conf, history>>

\* client.userinfo(token): a provider answers for its own tokens, whatever
\* application they are for; the email is a claim it may leave out
LoginUserinfo(s) ==
    /\ pc[s] = "login.userinfo"
    /\ IF req[s].token.provider # req[s].provider
       THEN Done(s)
       ELSE /\ Goto(s, "login.account")
            /\ \E claim \in {req[s].token.person, None} : got' = [got EXCEPT ![s] = claim]
            /\ UNCHANGED conf
    /\ UNCHANGED <<outside, stateStore, history>>

\* An account by its email and its username, which may be the email of another
\* (None if it is no one's email).
Account == [email : People, username : People \cup {None}]

\* findOne({ where: [{ username }, { email }] }) returns any row that matches,
\* and every row matches when the identifier is undefined.
findByUsernameOrEmail(identifier) ==
    {a \in Account : identifier \in {None, a.email, a.username}}

\* The accounts are read once: there are whichever were made until then.
LoginAccount(s) ==
    /\ pc[s] = "login.account"
    /\ \/ Done(s)
       \/ \E a \in findByUsernameOrEmail(got[s]) :
             /\ Goto(s, "login.reply")
             /\ got' = [got EXCEPT ![s] =
                          [names |-> {a.email, a.username} \ {None}, claim |-> got[s]]]
             /\ UNCHANGED conf
    /\ UNCHANGED <<outside, stateStore, history>>

\* What login() does with the account is in RefreshSessions.
LoginReply(s) ==
    /\ pc[s] = "login.reply"
    /\ Done(s)
    /\ UNCHANGED <<outside, stateStore, history>>

----------------------------------------------------------------------------
\* Discovery, a request to the provider or the database fails.
Fail(s) ==
    /\ pc[s] # "idle"
    /\ disturbed' = IF req[s].op = "callback" /\ OwnProvider(req[s])
                    THEN disturbed \cup {req[s].attempt} ELSE disturbed
    /\ Done(s)
    /\ UNCHANGED <<outside, stateStore, begun, used, handed>>

\* The process restarts: the requests are cut off and the store is empty.
Restart ==
    /\ stateStore' = Nothing
    /\ pc'   = [s \in Slots |-> "idle"]
    /\ req'  = [s \in Slots |-> None]
    /\ conf' = [s \in Slots |-> None]
    /\ got'  = [s \in Slots |-> None]
    /\ disturbed' = DOMAIN begun
    /\ UNCHANGED <<outside, begun, used, handed>>

\* A person at the browser answers the provider's page.
Decide(k) ==
    /\ k \in DOMAIN begun \ DOMAIN decided
    /\ \/ /\ \E x \in People : decided' = Bind(decided, k, x)
          /\ UNCHANGED disturbed
       \/ decided' = Bind(decided, k, None) /\ disturbed' = disturbed \cup {k}
    /\ UNCHANGED <<openid_providers, stateStore, local,
                   begun, used, handed>>

\* A row of openid_providers is written: no route of the program does.
Administer(p) ==
    /\ \E row \in (Clients \cup {None}) \ {openid_providers[p]} :
          openid_providers' = [openid_providers EXCEPT ![p] = row]
    /\ disturbed' = disturbed \cup {k \in DOMAIN begun : begun[k].provider = p}
    /\ UNCHANGED <<decided, stateStore, local,
                   begun, used, handed>>

Init ==
    /\ openid_providers \in [Providers -> Clients \cup {None}]
    /\ stateStore = Nothing
    /\ pc   = [s \in Slots |-> "idle"]
    /\ req  = [s \in Slots |-> None]
    /\ conf = [s \in Slots |-> None]
    /\ got  = [s \in Slots |-> None]
    /\ begun = Nothing /\ decided = Nothing
    /\ used = {} /\ handed = {}
    /\ disturbed = {}

Next ==
    \/ \E s \in Slots : InitArrive(s) \/ CallbackArrive(s) \/ LoginArrive(s)
    \/ \E s \in Slots : \/ InitFind(s) \/ InitRedirect(s)
                        \/ CallbackFind(s) \/ CallbackExchange(s) \/ CallbackReply(s)
                        \/ LoginFind(s) \/ LoginUserinfo(s) \/ LoginAccount(s) \/ LoginReply(s)
    \/ \E s \in Slots : Fail(s)
    \/ Restart
    \/ \E k \in Attempts : Decide(k)
    \/ \E p \in Providers : Administer(p)

Spec == Init /\ [][Next]_vars

----------------------------------------------------------------------------
Request == [op : {"init"}, provider : Providers]
               \cup [op : {"callback"}, attempt : Attempts, provider : Providers]
               \cup [op : {"login"}, token : Token, provider : Providers]

\* Type invariant: a callback that goes to the provider has a secret of this process.
TypeOK ==
    /\ openid_providers \in [Providers -> Clients \cup {None}]
    /\ DOMAIN stateStore \subseteq DOMAIN begun /\ Range(stateStore) \subseteq Attempts
    /\ req \in [Slots -> Request \cup {None}]
    /\ conf \in [Slots -> Clients \cup {None}]
    /\ \A s \in Slots :
          /\ pc[s] \in {"init.find", "callback.find", "login.find"} => conf[s] = None
          /\ pc[s] \in {"callback.exchange", "callback.reply"} => got[s] \in DOMAIN stateStore
    /\ DOMAIN begun \subseteq Attempts
    /\ Range(decided) \subseteq People \cup {None}
    /\ used \subseteq DOMAIN decided /\ handed \subseteq used
    /\ disturbed \subseteq DOMAIN begun

\* A callback at the provider of its init is refused only for a reason of its
\* own attempt (the person denied, its provider's row was written, the process
\* restarted or a call failed since its init, or it was requested twice),
\* whatever other people and other attempts of the same person do at the same
\* time, and wherever the browser has followed the redirect to before.
RefusedForAReason ==
    [][\A s \in Slots :
          /\ pc[s] \in {"callback.find", "callback.exchange", "callback.reply"}
          /\ OwnProvider(req[s])
          /\ pc'[s] = "idle"
          /\ req[s].attempt \notin handed'
          => req[s].attempt \in disturbed']_vars

\* A login is for an account that goes by the email of the very person the
\* provider named in the body issued the token for; one whose userinfo has no
\* email is for any account.  That the token is for this program is not asked:
\* if it is, the person granted that attempt after an init here sent them to
\* this provider, and if it is another application's it signs in as well.
SignInAuthorised ==
    \A s \in Slots : pc[s] = "login.reply" =>
        LET token == req[s].token
            found == got[s]
        IN  /\ token.provider = req[s].provider
            /\ found.claim # None => found.claim = token.person /\ token.person \in found.names
            /\ token.attempt # None =>
                  /\ token.provider = begun[token.attempt].provider
                  /\ token.person = decided[token.attempt]
============================================================================
