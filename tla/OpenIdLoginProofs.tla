------------------------- MODULE OpenIdLoginProofs -------------------------
(***************************************************************************)
(* Theorems about signing in with an OpenID provider, for any number of    *)
(* people, providers, registrations, attempts and concurrent requests,     *)
(* with restarts, failures and reloads.                                    *)
(*                                                                         *)
(* IInv says what the provider, the store and the requests of an attempt   *)
(* that nothing disturbed agree on.                                        *)
(***************************************************************************)
EXTENDS OpenIdLogin, TLAPS

CallbackLabels == {"callback.find", "callback.exchange", "callback.reply"}
LoginLabels    == {"login.find", "login.userinfo", "login.account", "login.reply"}
Labels         == {"idle", "init.find", "init.discover"} \cup CallbackLabels \cup LoginLabels

InCallback(s) == pc[s] \in CallbackLabels

\* A callback at the path of its attempt's provider.
AtOwn(s) == InCallback(s) /\ OwnProvider(req[s])

\* The variables that are no request's.
Types ==
    /\ openid_providers \in [Providers -> Clients \cup {None}]
    /\ DOMAIN begun \subseteq Attempts
    /\ \A k \in DOMAIN begun :
          begun[k].provider \in Providers /\ begun[k].client \in Clients /\ begun[k].secret = k
    /\ DOMAIN stateStore \subseteq DOMAIN begun
    /\ \A k \in DOMAIN stateStore : stateStore[k] = k
    /\ DOMAIN decided \subseteq DOMAIN begun
    /\ \A k \in DOMAIN decided : decided[k] \in People \cup {None}
    /\ used \subseteq DOMAIN decided /\ handed \subseteq used
    /\ disturbed \subseteq DOMAIN begun

\* The provider exchanges the code of a person who granted the attempt only.
Granted == \A k \in used : decided[k] # None

\* What holds of an attempt that nothing disturbed.
Undisturbed ==
    \A k \in DOMAIN begun \ disturbed :
        /\ k \in DOMAIN stateStore
        /\ Current(begun[k])
        /\ k \in DOMAIN decided => decided[k] # None

LocalTypes ==
    /\ pc \in [Slots -> Labels]
    /\ req \in [Slots -> Request \cup {None}]
    /\ conf \in [Slots -> Clients \cup {None}]
    /\ DOMAIN got = Slots

AtInit(s) ==
    /\ pc[s] \in {"init.find", "init.discover"} =>
          req[s] \in [op : {"init"}, provider : Providers]
    /\ pc[s] = "init.discover" => conf[s] # None

CallbackRequest == [op : {"callback"}, attempt : DOMAIN decided, provider : Providers]

AtCallback(s) ==
    /\ InCallback(s) => req[s] \in CallbackRequest
    /\ pc[s] \in {"callback.exchange", "callback.reply"} =>
          got[s] = req[s].attempt /\ got[s] \in DOMAIN stateStore
    /\ pc[s] = "callback.reply" => req[s].attempt \in used
    /\ (/\ pc[s] \in {"callback.find", "callback.exchange"}
        /\ OwnProvider(req[s]) /\ req[s].attempt \in used) => req[s].attempt \in disturbed
    /\ (/\ pc[s] = "callback.exchange"
        /\ OwnProvider(req[s]) /\ req[s].attempt \notin disturbed) =>
          conf[s] = begun[req[s].attempt].client

\* A token of this program is one it handed out.
Genuine(token) ==
    token.attempt # None => token.attempt \in handed /\ token = TokenOf(token.attempt)

LoginRequest == {r \in [op : {"login"}, token : Token, provider : Providers] : Genuine(r.token)}

AtLogin(s) ==
    LET token == req[s].token IN
    /\ pc[s] \in LoginLabels => req[s] \in LoginRequest
    /\ pc[s] \in {"login.account", "login.reply"} => req[s].provider = token.provider
    /\ pc[s] = "login.account" => got[s] \in {token.person, None}
    /\ pc[s] = "login.reply" =>
          (got[s].claim # None => got[s].claim = token.person /\ token.person \in got[s].names)

\* What a request holds at each await.
At(s) ==
    /\ pc[s] \in {"idle", "init.find", "callback.find", "login.find"} => conf[s] = None
    /\ AtInit(s)
    /\ AtCallback(s)
    /\ AtLogin(s)

\* Two callbacks of one attempt disturb it.
Single ==
    \A s, t \in Slots :
        (s # t /\ AtOwn(s) /\ AtOwn(t) /\ req[s].attempt = req[t].attempt) =>
            req[s].attempt \in disturbed

IInv ==
    /\ Types /\ Granted /\ Undisturbed
    /\ LocalTypes
    /\ \A s \in Slots : At(s)
    /\ Single

----------------------------------------------------------------------------
(* What a step leaves alone.                                               *)

\* Nothing is forgotten but the store, by a restart.
Grows ==
    /\ DOMAIN begun \subseteq DOMAIN begun' /\ \A k \in DOMAIN begun : begun'[k] = begun[k]
    /\ DOMAIN decided \subseteq DOMAIN decided' /\ \A k \in DOMAIN decided : decided'[k] = decided[k]
    /\ DOMAIN stateStore \subseteq DOMAIN stateStore'
    /\ used \subseteq used' /\ handed \subseteq handed' /\ disturbed \subseteq disturbed'

\* A code that is exchanged in a step is not one that another callback waits
\* for, unless the two disturb each other.
NotTaken(t) ==
    (AtOwn(t) /\ req[t].attempt \in used' \ used) => req[t].attempt \in disturbed'

\* A request keeps what it holds while other things happen.
LEMMA Stays ==
    ASSUME IInv, NEW t \in Slots, Grows, NotTaken(t),
           pc'[t] = pc[t], req'[t] = req[t], conf'[t] = conf[t], got'[t] = got[t]
    PROVE  At(t)'
<1>1. AtInit(t)'
  BY DEF IInv, At, AtInit
<1>2. AtCallback(t)'
  <2>1. InCallback(t) => /\ req[t] \in CallbackRequest /\ (req[t] \in CallbackRequest)'
                         /\ req[t].attempt \in DOMAIN begun
                         /\ OwnProvider(req[t])' = OwnProvider(req[t])
    BY DEF IInv, At, AtCallback, CallbackRequest, Types, Grows, OwnProvider
  <2>2. InCallback(t)' <=> InCallback(t)
    BY DEF InCallback
  <2>3. pc[t] \in {"callback.find", "callback.exchange", "callback.reply"} => InCallback(t)
    BY DEF InCallback, CallbackLabels
  <2> QED BY <2>1, <2>2, <2>3 DEF Grows, NotTaken, AtOwn, IInv, At, AtCallback
<1>3. AtLogin(t)'
  <2>1. ASSUME pc[t] \in LoginLabels
        PROVE  (req[t] \in LoginRequest)'
    <3>1. /\ req[t] \in [op : {"login"}, token : Token, provider : Providers]
          /\ Genuine(req[t].token)
      BY <2>1 DEF IInv, At, AtLogin, LoginRequest
    <3>2. \A k \in handed : k \in handed' /\ TokenOf(k)' = TokenOf(k)
      BY DEF IInv, Types, Grows, TokenOf
    <3>3. Genuine(req[t].token)'
      BY <3>1, <3>2 DEF Genuine, TokenOf
    <3> QED BY <3>1, <3>3 DEF LoginRequest, Genuine, TokenOf
  <2>2. pc[t] \in {"login.account", "login.reply"} => pc[t] \in LoginLabels
    BY DEF LoginLabels
  <2> QED BY <2>1, <2>2 DEF Grows, IInv, At, AtLogin
<1> QED BY <1>1, <1>2, <1>3 DEF IInv, At

\* The request s is at an await, with what it carries and what it has read.
Becomes(s, label, r, c, g) ==
    /\ pc'   = [pc EXCEPT ![s] = label]
    /\ req'  = [req EXCEPT ![s] = r]
    /\ conf' = [conf EXCEPT ![s] = c]
    /\ DOMAIN got' = Slots /\ got'[s] = g /\ \A t \in Slots \ {s} : got'[t] = got[t]

\* A step of one request keeps the others as they were.
LEMMA OneRequest ==
    ASSUME IInv, NEW s \in Slots,
           NEW label \in Labels, NEW r \in Request \cup {None}, NEW c \in Clients \cup {None}, NEW g,
           Becomes(s, label, r, c, g),
           Grows, \A t \in Slots \ {s} : NotTaken(t),
           Types', Granted', Undisturbed',
           At(s)',
           \A t \in Slots \ {s} : (AtOwn(s)' /\ AtOwn(t) /\ r.attempt = req[t].attempt) =>
                                     r.attempt \in disturbed'
    PROVE  IInv'
<1>1. /\ pc'[s] = label /\ req'[s] = r
      /\ \A t \in Slots \ {s} : /\ pc'[t] = pc[t] /\ req'[t] = req[t]
                                /\ conf'[t] = conf[t] /\ got'[t] = got[t]
      /\ LocalTypes'
  BY DEF Becomes, IInv, LocalTypes
<1>2. \A t \in Slots : At(t)'
  BY <1>1, Stays
<1>3. Single'
  <2>1. \A t \in Slots \ {s} : AtOwn(t)' => AtOwn(t)
    BY <1>1 DEF AtOwn, InCallback, OwnProvider, IInv, At, AtCallback, CallbackRequest, Types, Grows
  <2> QED BY <1>1, <2>1 DEF IInv, Single, Grows
<1> QED BY <1>1, <1>2, <1>3 DEF IInv

\* A request that ends has nothing left.
LEMMA DoneKeeps ==
    ASSUME IInv, NEW s \in Slots, Done(s), Grows, \A t \in Slots \ {s} : NotTaken(t),
           Types', Granted', Undisturbed'
    PROVE  IInv'
<1>1. Becomes(s, "idle", None, None, None) /\ "idle" \in Labels
  BY DEF Done, Becomes, Labels, IInv, LocalTypes
<1>2. pc'[s] = "idle" /\ conf'[s] = None
  BY DEF Done, IInv, LocalTypes
<1>3. At(s)' /\ ~ AtOwn(s)'
  BY <1>2 DEF At, AtInit, AtCallback, AtLogin, AtOwn, InCallback, CallbackLabels, LoginLabels
<1> QED BY <1>1, <1>3, OneRequest

\* A step that draws no state, exchanges no code and meets no provider keeps
\* what the variables outside the requests say; it may disturb an attempt.
LEMMA OutsideStays ==
    ASSUME IInv, UNCHANGED <<outside, stateStore, begun, used>>,
           disturbed \subseteq disturbed', disturbed' \subseteq DOMAIN begun,
           handed \subseteq handed', handed' \subseteq used
    PROVE  /\ Types' /\ Granted' /\ Undisturbed'
           /\ Grows /\ \A t \in Slots : NotTaken(t)
<1>1. UNCHANGED <<openid_providers, decided, stateStore, begun, used>>
  BY DEF outside
<1>2. Types' /\ Granted'
  BY <1>1 DEF IInv, Types, Granted
<1>3. Undisturbed'
  BY <1>1 DEF IInv, Undisturbed, Current
<1>4. Grows /\ \A t \in Slots : NotTaken(t)
  BY <1>1 DEF Grows, NotTaken
<1> QED BY <1>2, <1>3, <1>4

\* The same for a step that touches the requests only.
LEMMA LocalStep ==
    ASSUME IInv, UNCHANGED <<outside, stateStore, history>>
    PROVE  /\ Types' /\ Granted' /\ Undisturbed'
           /\ Grows /\ \A t \in Slots : NotTaken(t)
           /\ UNCHANGED <<openid_providers, decided, stateStore, begun, used, handed, disturbed>>
<1>1. UNCHANGED <<openid_providers, decided, stateStore, begun, used, handed, disturbed>>
  BY DEF outside, history
<1>2. handed \subseteq used /\ disturbed \subseteq DOMAIN begun
  BY DEF IInv, Types
<1> QED BY <1>1, <1>2, OutsideStays

----------------------------------------------------------------------------
(* GET :provider/init.                                                     *)

\* The init of a provider: its request, and the row it reads.
LEMMA InitKeeps ==
    ASSUME IInv, NEW s \in Slots, InitArrive(s) \/ InitFind(s)
    PROVE  IInv'
<1>1. UNCHANGED <<outside, stateStore, history>>
  BY DEF InitArrive, InitFind
<1>2. CASE InitArrive(s)
  <2>1. PICK r \in [op : {"init"}, provider : Providers] : Arrive(s, r, "init.find")
    BY <1>2 DEF InitArrive
  <2>2. Becomes(s, "init.find", r, None, got[s]) /\ r \in Request /\ "init.find" \in Labels
    BY <2>1 DEF Arrive, Becomes, IInv, At, LocalTypes, Request, Labels
  <2>3. pc'[s] = "init.find" /\ req'[s] = r /\ conf'[s] = None
    BY <2>2 DEF Becomes, IInv, LocalTypes
  <2>4. At(s)' /\ ~ AtOwn(s)'
    BY <2>3 DEF At, AtInit, AtCallback, AtLogin, AtOwn, InCallback, CallbackLabels, LoginLabels
  <2> QED BY <1>1, <2>2, <2>4, LocalStep, OneRequest
<1>3. CASE InitFind(s) /\ findByName(req[s].provider) = None
  BY <1>1, <1>3, LocalStep, DoneKeeps DEF InitFind
<1>4. CASE InitFind(s) /\ findByName(req[s].provider) # None
  <2> DEFINE client == findByName(req[s].provider)
  <2>1. /\ pc[s] = "init.find" /\ Goto(s, "init.discover")
        /\ conf' = [conf EXCEPT ![s] = client] /\ UNCHANGED got
    BY <1>4 DEF InitFind
  <2>2. req[s] \in [op : {"init"}, provider : Providers] /\ client \in Clients
    BY <1>4, <2>1 DEF findByName, IInv, At, AtInit, Types
  <2> HIDE DEF client
  <2>3. Becomes(s, "init.discover", req[s], client, got[s]) /\ "init.discover" \in Labels
    BY <2>1 DEF Goto, Becomes, IInv, LocalTypes, Labels
  <2>4. pc'[s] = "init.discover" /\ req'[s] = req[s] /\ conf'[s] = client
    BY <2>3 DEF Becomes, IInv, LocalTypes
  <2>5. At(s)' /\ ~ AtOwn(s)'
    BY <2>2, <2>4, NoneIsNothing
       DEF At, AtInit, AtCallback, AtLogin, AtOwn, InCallback, CallbackLabels, LoginLabels
  <2>6. req[s] \in Request
    BY <2>2 DEF Request
  <2> QED BY <1>1, <2>2, <2>3, <2>5, <2>6, LocalStep, OneRequest
<1> QED BY <1>2, <1>3, <1>4

\* A state is drawn for a new attempt, which is undisturbed if the row that
\* the request read is still there.
LEMMA InitRedirectKeeps ==
    ASSUME IInv, NEW s \in Slots, InitRedirect(s)
    PROVE  IInv'
<1>1. PICK k \in Attempts \ DOMAIN begun :
         /\ stateStore' = Bind(stateStore, k, k)
         /\ begun' = Bind(begun, k, Url(s, k))
         /\ disturbed' = IF Current(Url(s, k)) THEN disturbed ELSE disturbed \cup {k}
  BY DEF InitRedirect
<1>2. /\ pc[s] = "init.discover" /\ Done(s)
      /\ UNCHANGED <<openid_providers, decided, used, handed>>
  BY DEF InitRedirect, outside
<1> DEFINE url == Url(s, k)
<1>3. /\ url.provider \in Providers /\ url.client \in Clients /\ url.secret = k
  BY <1>2 DEF Url, IInv, At, AtInit, LocalTypes
<1> HIDE DEF url
<1>4. /\ DOMAIN begun' = DOMAIN begun \cup {k} /\ begun'[k] = url
      /\ \A j \in DOMAIN begun : begun'[j] = begun[j]
      /\ DOMAIN stateStore' = DOMAIN stateStore \cup {k} /\ stateStore'[k] = k
      /\ \A j \in DOMAIN stateStore : stateStore'[j] = stateStore[j]
  BY <1>1 DEF Bind, url, IInv, Types
<1>5. /\ disturbed' \subseteq disturbed \cup {k} /\ disturbed \subseteq disturbed'
      /\ k \notin disturbed' => Current(url)
  BY <1>1 DEF url
<1>6. Types'
  BY <1>2, <1>3, <1>4, <1>5 DEF IInv, Types
<1>7. Granted' /\ Grows /\ \A t \in Slots : NotTaken(t)
  BY <1>2, <1>4, <1>5 DEF IInv, Granted, Grows, NotTaken
<1>8. Undisturbed'
  <2>1. k \notin DOMAIN decided
    BY DEF IInv, Types
  <2>2. \A j \in DOMAIN begun \ disturbed' : Current(begun[j])'
    BY <1>2, <1>4, <1>5 DEF Current, IInv, Undisturbed
  <2>3. k \notin disturbed' => Current(begun[k])'
    BY <1>2, <1>4, <1>5 DEF Current
  <2> QED BY <1>2, <1>4, <1>5, <2>1, <2>2, <2>3 DEF IInv, Undisturbed
<1> QED BY <1>2, <1>6, <1>7, <1>8, DoneKeeps

----------------------------------------------------------------------------
(* GET :provider/callback.                                                 *)

\* A callback of an attempt that has had one already disturbs it.
LEMMA CallbackArriveKeeps ==
    ASSUME IInv, NEW s \in Slots, CallbackArrive(s)
    PROVE  IInv'
<1>1. PICK r \in CallbackRequest :
         /\ Arrive(s, r, "callback.find")
         /\ disturbed' = IF OwnProvider(r) /\ Repeated(r) THEN disturbed \cup {r.attempt}
                         ELSE disturbed
  BY DEF CallbackArrive, CallbackRequest
<1>2. /\ r = [op |-> "callback", attempt |-> r.attempt, provider |-> r.provider]
      /\ r.attempt \in DOMAIN begun /\ r \in Request
  BY DEF CallbackRequest, Request, IInv, Types
<1>3. UNCHANGED <<outside, stateStore, begun, used, handed>> /\ UNCHANGED <<decided, begun, used>>
  BY DEF CallbackArrive, outside
<1>4. /\ disturbed \subseteq disturbed' /\ disturbed' \subseteq DOMAIN begun
      /\ OwnProvider(r) /\ Repeated(r) => r.attempt \in disturbed'
      /\ handed \subseteq used
  BY <1>1, <1>2 DEF IInv, Types
<1>5. /\ Types' /\ Granted' /\ Undisturbed'
      /\ Grows /\ \A t \in Slots : NotTaken(t)
  BY <1>3, <1>4, OutsideStays
<1>6. Becomes(s, "callback.find", r, None, got[s]) /\ "callback.find" \in Labels
  BY <1>1 DEF Arrive, Becomes, IInv, At, LocalTypes, Labels, CallbackLabels
<1>7. pc'[s] = "callback.find" /\ req'[s] = r /\ conf'[s] = None
  BY <1>6 DEF Becomes, IInv, LocalTypes
<1>8. OwnProvider(r)' = OwnProvider(r) /\ CallbackRequest' = CallbackRequest
  BY <1>3 DEF OwnProvider, CallbackRequest
<1>9. At(s)'
  <2>1. AtInit(s)' /\ AtLogin(s)'
    BY <1>7 DEF AtInit, AtLogin, LoginLabels
  <2>2. (OwnProvider(r) /\ r.attempt \in used') => r.attempt \in disturbed'
    BY <1>3, <1>4 DEF Repeated
  <2>3. OwnProvider(req[s])' => OwnProvider(r)
    BY <1>7, <1>8 DEF OwnProvider
  <2>4. AtCallback(s)'
    BY <1>7, <1>8, <2>2, <2>3 DEF AtCallback
  <2> QED BY <1>7, <2>1, <2>4 DEF At
<1>10. ASSUME NEW t \in Slots \ {s}, AtOwn(s)', AtOwn(t), r.attempt = req[t].attempt
       PROVE  r.attempt \in disturbed'
  <2>1. OwnProvider(r) /\ OwnProvider(req[t]) /\ InCallback(t)
    BY <1>7, <1>8, <1>10 DEF AtOwn, OwnProvider
  <2>2. req[t] = r
    <3>1. req[t] \in CallbackRequest
      BY <2>1 DEF IInv, At, AtCallback
    <3>2. req[t].provider = r.provider
      BY <1>10, <2>1 DEF OwnProvider
    <3> QED BY <1>10, <3>1, <3>2 DEF CallbackRequest
  <2>3. pc[t] # "idle"
    BY <2>1 DEF InCallback, CallbackLabels
  <2> QED BY <1>4, <2>1, <2>2, <2>3 DEF Repeated
<1> QED BY <1>2, <1>5, <1>6, <1>9, <1>10, OneRequest

\* The callback reads its provider's row and finds its state.
LEMMA CallbackFindKeeps ==
    ASSUME IInv, NEW s \in Slots, CallbackFind(s)
    PROVE  IInv'
<1> DEFINE k == req[s].attempt
           client == findByName(req[s].provider)
<1>1. /\ pc[s] = "callback.find" /\ InCallback(s)
      /\ UNCHANGED <<outside, stateStore, history>>
  BY DEF CallbackFind, InCallback, CallbackLabels, history
<1>2. /\ req[s] \in CallbackRequest /\ req[s].provider \in Providers
      /\ k \in DOMAIN decided /\ k \in DOMAIN begun
  BY <1>1 DEF IInv, At, AtCallback, CallbackRequest, Types
<1>3. client \in Clients \cup {None}
  BY <1>2 DEF findByName, IInv, Types
<1>4. CASE client = None \/ k \notin DOMAIN stateStore
  BY <1>1, <1>4, LocalStep, DoneKeeps DEF CallbackFind
<1>5. CASE client # None /\ k \in DOMAIN stateStore
  <2>1. OwnProvider(req[s]) /\ k \notin disturbed => client = begun[k].client
    BY <1>2 DEF findByName, OwnProvider, IInv, Undisturbed, Current
  <2>2. /\ Goto(s, "callback.exchange") /\ conf' = [conf EXCEPT ![s] = client]
        /\ got' = [got EXCEPT ![s] = k]
    BY <1>5 DEF CallbackFind, IInv, Types
  <2> HIDE DEF client
  <2>3. /\ Becomes(s, "callback.exchange", req[s], client, k) /\ "callback.exchange" \in Labels
    BY <2>2 DEF Goto, Becomes, IInv, LocalTypes, Labels, CallbackLabels
  <2>4. /\ pc'[s] = "callback.exchange" /\ req'[s] = req[s] /\ conf'[s] = client /\ got'[s] = k
    BY <2>3 DEF Becomes, IInv, LocalTypes
  <2>5. UNCHANGED <<decided, stateStore, begun, used, disturbed>>
    BY <1>1, LocalStep
  <2>9. CallbackRequest' = CallbackRequest /\ OwnProvider(req[s])' = OwnProvider(req[s])
    BY <2>4, <2>5 DEF CallbackRequest, OwnProvider
  <2>6. At(s)'
    <3>1. AtInit(s)' /\ AtLogin(s)'
      BY <2>4 DEF AtInit, AtLogin, LoginLabels
    <3>2. OwnProvider(req[s]) /\ k \in used => k \in disturbed
      BY <1>1 DEF IInv, At, AtCallback
    <3>3. AtCallback(s)'
      BY <1>2, <1>5, <2>1, <2>4, <2>5, <2>9, <3>2 DEF AtCallback
    <3> QED BY <2>4, <3>1, <3>3 DEF At
  <2>7. \A t \in Slots \ {s} : (AtOwn(s)' /\ AtOwn(t) /\ k = req[t].attempt) => k \in disturbed'
    BY <1>1, <2>5, <2>9 DEF IInv, Single, AtOwn
  <2>8. req[s] \in Request \cup {None}
    BY DEF IInv, LocalTypes
  <2> QED BY <1>1, <1>3, <2>3, <2>6, <2>7, <2>8, LocalStep, OneRequest
<1> QED BY <1>4, <1>5

\* The provider exchanges the code, once.
LEMMA CallbackExchangeKeeps ==
    ASSUME IInv, NEW s \in Slots, CallbackExchange(s)
    PROVE  IInv'
<1> DEFINE k == req[s].attempt
<1>1. /\ pc[s] = "callback.exchange" /\ InCallback(s)
      /\ UNCHANGED <<openid_providers, decided, stateStore, begun, handed, disturbed>>
  BY DEF CallbackExchange, InCallback, CallbackLabels, outside
<1>2. /\ req[s] \in CallbackRequest /\ k \in DOMAIN decided
      /\ got[s] = k /\ k \in DOMAIN stateStore
  BY <1>1 DEF IInv, At, AtCallback, CallbackRequest
<1>3. CASE ~ Exchangeable(req[s], conf[s], got[s])
  <2>1. Done(s) /\ UNCHANGED <<outside, stateStore, history>>
    BY <1>1, <1>3 DEF CallbackExchange, outside, history
  <2> QED BY <2>1, LocalStep, DoneKeeps
<1>4. CASE Exchangeable(req[s], conf[s], got[s])
  <2>1. used' = used \cup {k} /\ Goto(s, "callback.reply") /\ UNCHANGED <<conf, got>>
    BY <1>4 DEF CallbackExchange
  <2>2. decided[k] # None /\ OwnProvider(req[s])
    BY <1>4 DEF Exchangeable
  <2>3. \A t \in Slots \ {s} : (AtOwn(t) /\ k = req[t].attempt) => k \in disturbed
    BY <1>1, <2>2 DEF IInv, Single, AtOwn
  <2>4. \A t \in Slots \ {s} : NotTaken(t)
    BY <1>1, <2>1, <2>3 DEF NotTaken
  <2>5. Types' /\ Granted' /\ Grows
    BY <1>1, <1>2, <2>1, <2>2 DEF IInv, Types, Granted, Grows
  <2>6. Undisturbed'
    BY <1>1 DEF IInv, Undisturbed, Current
  <2>7. Becomes(s, "callback.reply", req[s], conf[s], got[s]) /\ "callback.reply" \in Labels
    BY <2>1 DEF Goto, Becomes, IInv, LocalTypes, Labels, CallbackLabels
  <2>8. pc'[s] = "callback.reply" /\ req'[s] = req[s] /\ got'[s] = got[s]
    BY <2>7 DEF Becomes, IInv, LocalTypes
  <2>9. At(s)'
    BY <1>1, <1>2, <2>1, <2>8
       DEF At, AtInit, AtCallback, CallbackRequest, OwnProvider, AtLogin, LoginLabels
  <2>10. req[s] \in Request \cup {None} /\ conf[s] \in Clients \cup {None}
    BY DEF IInv, LocalTypes
  <2> QED BY <1>1, <2>3, <2>4, <2>5, <2>6, <2>7, <2>9, <2>10, OneRequest
<1> QED BY <1>3, <1>4

\* The token of a code that was exchanged goes to the front end.
LEMMA CallbackReplyKeeps ==
    ASSUME IInv, NEW s \in Slots, CallbackReply(s)
    PROVE  IInv'
<1>1. /\ Done(s) /\ req[s].attempt \in used /\ handed' = handed \cup {req[s].attempt}
      /\ UNCHANGED <<outside, stateStore, begun, used, disturbed>>
  BY DEF CallbackReply, IInv, At, AtCallback
<1>2. handed' \subseteq used /\ disturbed \subseteq DOMAIN begun
  BY <1>1 DEF IInv, Types
<1> QED BY <1>1, <1>2, OutsideStays, DoneKeeps

----------------------------------------------------------------------------
(* POST login.                                                             *)

\* A login goes from one await to the next with what the provider said of its
\* token.
LEMMA LoginMoves ==
    ASSUME IInv, NEW s \in Slots, NEW label \in LoginLabels, NEW g,
           NEW r \in LoginRequest,
           label = "login.find" => conf[s] = None,
           Becomes(s, label, r, conf[s], g),
           UNCHANGED <<outside, stateStore, history>>,
           label \in {"login.account", "login.reply"} => r.provider = r.token.provider,
           label = "login.account" => g \in {r.token.person, None},
           label = "login.reply" =>
              (g.claim # None => g.claim = r.token.person /\ r.token.person \in g.names)
    PROVE  IInv'
<1>1. r \in Request /\ label \in Labels /\ conf[s] \in Clients \cup {None}
  BY DEF LoginRequest, Request, Labels, IInv, LocalTypes
<1>2. pc'[s] = label /\ req'[s] = r /\ conf'[s] = conf[s] /\ got'[s] = g
  BY DEF Becomes, IInv, LocalTypes
<1>3. LoginRequest' = LoginRequest
  BY DEF history, outside, LoginRequest, Genuine, TokenOf
<1>4. /\ label \notin {"idle", "init.find", "init.discover"} \cup CallbackLabels
      /\ ~ AtOwn(s)'
  BY <1>2 DEF LoginLabels, CallbackLabels, InCallback, AtOwn
<1>5. AtInit(s)' /\ AtCallback(s)'
  BY <1>2, <1>4 DEF AtInit, AtCallback, InCallback, CallbackLabels
<1>6. AtLogin(s)'
  BY <1>2, <1>3 DEF AtLogin
<1>7. At(s)'
  BY <1>2, <1>4, <1>5, <1>6 DEF At, CallbackLabels
<1> QED BY <1>1, <1>4, <1>7, LocalStep, OneRequest

\* A token that someone holds is genuine.
LEMMA HeldGenuine ==
    ASSUME IInv, NEW t \in Held
    PROVE  t \in Token /\ Genuine(t)
<1>1. CASE t \in {u \in Token : u.attempt = None}
  BY <1>1 DEF Genuine
<1>2. ASSUME NEW k \in handed, t = TokenOf(k)
      PROVE  t \in Token /\ Genuine(t)
  <2>1. /\ k \in Attempts /\ begun[k].provider \in Providers
        /\ decided[k] \in People \cup {None} /\ decided[k] # None
    BY DEF IInv, Types, Granted
  <2> QED BY <1>2, <2>1 DEF Token, TokenOf, Genuine
<1> QED BY <1>1, <1>2 DEF Held

\* A login arrives with a token of anyone's, and ends.
LEMMA LoginKeeps ==
    ASSUME IInv, NEW s \in Slots,
           LoginArrive(s) \/ LoginFind(s) \/ LoginUserinfo(s) \/ LoginAccount(s) \/ LoginReply(s)
    PROVE  IInv'
<1> DEFINE r == req[s]
           token == r.token
<1>1. UNCHANGED <<outside, stateStore, history>>
  BY DEF LoginArrive, LoginFind, LoginUserinfo, LoginAccount, LoginReply
<1>2. CASE Done(s)
  BY <1>1, <1>2, LocalStep, DoneKeeps
<1>3. CASE LoginArrive(s)
  <2>1. PICK t \in Held, p \in Providers :
           Arrive(s, [op |-> "login", token |-> t, provider |-> p], "login.find")
    BY <1>3 DEF LoginArrive
  <2>2. t \in Token /\ Genuine(t)
    BY <2>1, HeldGenuine
  <2>3. PICK q : q = [op |-> "login", token |-> t, provider |-> p]
    OBVIOUS
  <2>4. q \in LoginRequest
    BY <2>2, <2>3 DEF LoginRequest
  <2>5. Becomes(s, "login.find", q, conf[s], got[s]) /\ conf[s] = None
    BY <2>1, <2>3 DEF Arrive, Becomes, IInv, At, LocalTypes
  <2>6. "login.find" \in LoginLabels
    BY DEF LoginLabels
  <2> QED BY <1>1, <2>4, <2>5, <2>6, LoginMoves
<1>4. pc[s] \in LoginLabels => r \in LoginRequest
  BY DEF IInv, At, AtLogin
<1>5. CASE LoginFind(s) /\ ~ Done(s)
  <2>1. /\ pc[s] = "login.find" /\ Goto(s, "login.userinfo") /\ UNCHANGED <<conf, got>>
        /\ pc[s] \in LoginLabels /\ "login.userinfo" \in LoginLabels
    BY <1>5 DEF LoginFind, LoginLabels
  <2>2. Becomes(s, "login.userinfo", r, conf[s], got[s])
    BY <2>1 DEF Goto, Becomes, IInv, LocalTypes
  <2> QED BY <1>1, <1>4, <2>1, <2>2, LoginMoves
<1>6. CASE LoginUserinfo(s) /\ ~ Done(s)
  <2>1. /\ pc[s] = "login.userinfo" /\ Goto(s, "login.account") /\ UNCHANGED conf
        /\ pc[s] \in LoginLabels /\ "login.account" \in LoginLabels
        /\ token.provider = r.provider
    BY <1>6 DEF LoginUserinfo, LoginLabels
  <2>2. PICK claim \in {token.person, None} : got' = [got EXCEPT ![s] = claim]
    BY <1>6 DEF LoginUserinfo
  <2>3. Becomes(s, "login.account", r, conf[s], claim)
    BY <2>1, <2>2 DEF Goto, Becomes, IInv, LocalTypes
  <2> QED BY <1>1, <1>4, <2>1, <2>2, <2>3, LoginMoves
<1>7. CASE LoginAccount(s) /\ ~ Done(s)
  <2>1. pc[s] = "login.account" /\ pc[s] \in LoginLabels /\ "login.reply" \in LoginLabels
    BY <1>7 DEF LoginAccount, LoginLabels
  <2>3. PICK a \in findByUsernameOrEmail(got[s]) :
           /\ Goto(s, "login.reply") /\ UNCHANGED conf
           /\ got' = [got EXCEPT ![s] =
                        [names |-> {a.email, a.username} \ {None}, claim |-> got[s]]]
    BY <1>7 DEF LoginAccount
  <2>4. PICK g : g = [names |-> {a.email, a.username} \ {None}, claim |-> got[s]]
    OBVIOUS
  <2>5. r.provider = token.provider /\ got[s] \in {token.person, None}
    BY <2>1 DEF IInv, At, AtLogin
  <2>6. g.claim # None => g.claim = token.person /\ token.person \in g.names
    BY <2>4, <2>5 DEF findByUsernameOrEmail
  <2>7. Becomes(s, "login.reply", r, conf[s], g)
    BY <2>3, <2>4 DEF Goto, Becomes, IInv, LocalTypes
  <2> QED BY <1>1, <1>4, <2>1, <2>5, <2>6, <2>7, LoginMoves
<1> QED BY <1>2, <1>3, <1>5, <1>6, <1>7 DEF LoginReply

----------------------------------------------------------------------------
(* What befalls the requests and the rows.                                 *)

\* A call fails: a callback's attempt is disturbed.
LEMMA FailKeeps ==
    ASSUME IInv, NEW s \in Slots, Fail(s)
    PROVE  IInv'
<1>1. /\ Done(s) /\ disturbed \subseteq disturbed'
      /\ UNCHANGED <<outside, stateStore, begun, used, handed>>
  BY DEF Fail
<1>2. req[s].op = "callback" => req[s].attempt \in DOMAIN begun
  <2>1. pc[s] \in Labels \ {"idle"}
    BY DEF Fail, IInv, LocalTypes
  <2>2. CASE InCallback(s)
    BY <2>2 DEF IInv, At, AtCallback, CallbackRequest, Types
  <2>3. CASE pc[s] \in {"init.find", "init.discover"}
    BY <2>3 DEF IInv, At, AtInit
  <2>4. CASE pc[s] \in LoginLabels
    BY <2>4 DEF IInv, At, AtLogin, LoginRequest
  <2> QED BY <2>1, <2>2, <2>3, <2>4 DEF Labels, InCallback
<1>3. disturbed' \subseteq DOMAIN begun /\ handed \subseteq used
  BY <1>2 DEF Fail, IInv, Types
<1> QED BY <1>1, <1>3, OutsideStays, DoneKeeps

\* A restart disturbs every attempt.
LEMMA RestartKeeps ==
    ASSUME IInv, Restart
    PROVE  IInv'
<1>1. /\ stateStore' = Nothing /\ disturbed' = DOMAIN begun
      /\ UNCHANGED <<openid_providers, decided, begun, used, handed>>
  BY DEF Restart, outside
<1>2. DOMAIN stateStore' = {}
  BY <1>1 DEF Nothing
<1>3. Types' /\ Granted' /\ Undisturbed'
  BY <1>1, <1>2 DEF IInv, Types, Granted, Undisturbed
<1>4. \A s \in Slots : pc'[s] = "idle" /\ conf'[s] = None
  BY DEF Restart
<1>5. LocalTypes'
  BY DEF Restart, LocalTypes, Labels
<1>6. \A s \in Slots : At(s)' /\ ~ AtOwn(s)'
  BY <1>4 DEF At, AtInit, AtCallback, AtLogin, AtOwn, InCallback, CallbackLabels, LoginLabels
<1>7. Single'
  BY <1>6 DEF Single
<1> QED BY <1>3, <1>5, <1>6, <1>7 DEF IInv

\* The person decides, or a row is written: the requests stay as they are.
LEMMA OthersKeep ==
    ASSUME IInv, (\E k \in Attempts : Decide(k)) \/ (\E p \in Providers : Administer(p))
    PROVE  IInv'
<1>1. UNCHANGED <<stateStore, pc, req, conf, got, begun, used, handed>>
  BY DEF Decide, Administer, local
<1>2. /\ disturbed \subseteq disturbed' /\ disturbed' \subseteq DOMAIN begun
      /\ DOMAIN decided' \subseteq DOMAIN begun
      /\ DOMAIN decided \subseteq DOMAIN decided'
      /\ \A k \in DOMAIN decided : decided'[k] = decided[k]
      /\ \A k \in DOMAIN decided' : decided'[k] \in People \cup {None}
      /\ \A k \in DOMAIN decided' \ DOMAIN decided :
            decided'[k] # None \/ k \in disturbed'
      /\ openid_providers' \in [Providers -> Clients \cup {None}]
      /\ \A k \in DOMAIN begun \ disturbed' :
            openid_providers'[begun[k].provider] = openid_providers[begun[k].provider]
  <2>1. ASSUME NEW k \in Attempts, Decide(k) PROVE <1>2!:
    <3>1. /\ k \in DOMAIN begun \ DOMAIN decided /\ UNCHANGED openid_providers
          /\ \/ (\E x \in People : decided' = Bind(decided, k, x)) /\ UNCHANGED disturbed
             \/ decided' = Bind(decided, k, None) /\ disturbed' = disturbed \cup {k}
      BY <2>1 DEF Decide
    <3>2. /\ DOMAIN decided' = DOMAIN decided \cup {k}
          /\ \A j \in DOMAIN decided : decided'[j] = decided[j]
          /\ \/ decided'[k] \in People /\ disturbed' = disturbed
             \/ decided'[k] = None /\ disturbed' = disturbed \cup {k}
      BY <3>1 DEF Bind
    <3> QED BY <3>1, <3>2, NoneIsNothing DEF IInv, Types
  <2>2. ASSUME NEW p \in Providers, Administer(p) PROVE <1>2!:
    <3>1. PICK row \in Clients \cup {None} : openid_providers' = [openid_providers EXCEPT ![p] = row]
      BY <2>2 DEF Administer
    <3>2. /\ disturbed' = disturbed \cup {k \in DOMAIN begun : begun[k].provider = p}
          /\ UNCHANGED decided
      BY <2>2 DEF Administer
    <3> QED BY <3>1, <3>2 DEF IInv, Types
  <2> QED BY <2>1, <2>2
<1>3. Types' /\ Granted'
  BY <1>1, <1>2 DEF IInv, Types, Granted
<1>4. Undisturbed'
  BY <1>1, <1>2 DEF IInv, Undisturbed, Current
<1>5. Grows /\ \A t \in Slots : NotTaken(t)
  BY <1>1, <1>2 DEF Grows, NotTaken
<1>6. \A t \in Slots : At(t)'
  BY <1>1, <1>5, Stays
<1>7. LocalTypes' /\ Single'
  BY <1>1, <1>2 DEF IInv, LocalTypes, Single, AtOwn, OwnProvider, InCallback
<1> QED BY <1>3, <1>4, <1>6, <1>7 DEF IInv

----------------------------------------------------------------------------
(* What ends a callback.                                                   *)

\* A step of another request does not end it.
LEMMA OneMoves ==
    ASSUME IInv, NEW s \in Slots, NEW t \in Slots \ {s},
           \/ InitArrive(t) \/ CallbackArrive(t) \/ LoginArrive(t)
           \/ InitFind(t) \/ InitRedirect(t)
           \/ CallbackFind(t) \/ CallbackExchange(t) \/ CallbackReply(t)
           \/ LoginFind(t) \/ LoginUserinfo(t) \/ LoginAccount(t) \/ LoginReply(t)
           \/ Fail(t)
    PROVE  pc'[s] = pc[s]
<1>1. \E label : pc' = [pc EXCEPT ![t] = label]
  <2>1. CASE InitArrive(t) \/ CallbackArrive(t) \/ LoginArrive(t)
    BY <2>1 DEF InitArrive, CallbackArrive, LoginArrive, Arrive
  <2>2. CASE InitFind(t) \/ InitRedirect(t) \/ Fail(t)
    BY <2>2 DEF InitFind, InitRedirect, Fail, Goto, Done
  <2>3. CASE CallbackFind(t) \/ CallbackExchange(t) \/ CallbackReply(t)
    BY <2>3 DEF CallbackFind, CallbackExchange, CallbackReply, Goto, Done
  <2>4. CASE LoginFind(t) \/ LoginUserinfo(t) \/ LoginAccount(t) \/ LoginReply(t)
    BY <2>4 DEF LoginFind, LoginUserinfo, LoginAccount, LoginReply, Goto, Done
  <2> QED BY <2>1, <2>2, <2>3, <2>4
<1> QED BY <1>1 DEF IInv, LocalTypes

\* A callback whose attempt nothing disturbed is not refused at any await.
LEMMA RefusalDisturbed ==
    ASSUME IInv, Next, NEW s \in Slots, InCallback(s), OwnProvider(req[s]), pc'[s] = "idle",
           req[s].attempt \notin handed'
    PROVE  req[s].attempt \in disturbed'
<1> DEFINE k == req[s].attempt
<1>1. pc[s] \in CallbackLabels /\ pc'[s] # pc[s]
  BY DEF InCallback, CallbackLabels
<1>2. /\ req[s].op = "callback" /\ k \in DOMAIN decided /\ k \in DOMAIN begun
      /\ req[s].provider = begun[k].provider
  BY DEF IInv, At, AtCallback, CallbackRequest, OwnProvider, Types
<1>3. CASE Restart
  BY <1>2, <1>3 DEF Restart
<1>4. CASE (\E j \in Attempts : Decide(j)) \/ (\E p \in Providers : Administer(p))
  BY <1>1, <1>4 DEF Decide, Administer, local
<1>5. ASSUME NEW t \in Slots,
             \/ InitArrive(t) \/ CallbackArrive(t) \/ LoginArrive(t)
             \/ InitFind(t) \/ InitRedirect(t)
             \/ CallbackFind(t) \/ CallbackExchange(t) \/ CallbackReply(t)
             \/ LoginFind(t) \/ LoginUserinfo(t) \/ LoginAccount(t) \/ LoginReply(t)
             \/ Fail(t)
      PROVE  k \in disturbed'
  <2>1. t = s
    BY <1>1, <1>5, OneMoves
  <2>2. CallbackFind(s) \/ CallbackExchange(s) \/ CallbackReply(s) \/ Fail(s)
    BY <1>1, <1>5, <2>1
       DEF CallbackLabels, InitArrive, CallbackArrive, LoginArrive, Arrive, InitFind, InitRedirect,
           LoginFind, LoginUserinfo, LoginAccount, LoginReply
  <2>3. k \notin disturbed => /\ k \in DOMAIN stateStore
                              /\ openid_providers[begun[k].provider] = begun[k].client
                              /\ decided[k] # None /\ begun[k].client # None
                              /\ begun[k].secret = k
    BY <1>2, NoneIsNothing DEF IInv, Undisturbed, Current, Types
  <2>4. CASE CallbackFind(s)
    <3>1. k \in disturbed
      <4>1. findByName(begun[k].provider) = None \/ k \notin DOMAIN stateStore
        BY <1>2, <2>4 DEF CallbackFind, Goto, IInv, LocalTypes
      <4> QED BY <2>3, <4>1 DEF findByName
    <3> QED BY <2>4, <3>1 DEF CallbackFind
  <2>5. CASE CallbackExchange(s)
    <3>1. k \in disturbed
      <4>1. ~ Exchangeable(req[s], conf[s], got[s]) /\ pc[s] = "callback.exchange"
        BY <2>5 DEF CallbackExchange, Goto, IInv, LocalTypes
      <4>2. /\ got[s] = k
            /\ k \in used => k \in disturbed
            /\ k \notin disturbed => conf[s] = begun[k].client
        BY <4>1 DEF IInv, At, AtCallback
      <4> QED BY <2>3, <4>1, <4>2 DEF Exchangeable, OwnProvider
    <3> QED BY <2>5, <3>1 DEF CallbackExchange
  <2>6. CASE CallbackReply(s)
    BY <2>6 DEF CallbackReply
  <2>7. CASE Fail(s)
    BY <1>2, <2>7 DEF Fail, OwnProvider
  <2> QED BY <2>2, <2>4, <2>5, <2>6, <2>7
<1> QED BY <1>3, <1>4, <1>5 DEF Next

----------------------------------------------------------------------------
(* The theorems.                                                           *)

\* In every state the parties to an attempt that nothing disturbed agree on
\* its state, its secret and its provider.
THEOREM Invariance == Spec => []IInv
<1>1. Init => IInv
  <2> SUFFICES ASSUME Init PROVE IInv
    OBVIOUS
  <2>1. DOMAIN stateStore = {} /\ DOMAIN begun = {} /\ DOMAIN decided = {}
    BY DEF Init, Nothing
  <2>2. Types /\ Granted /\ Undisturbed
    BY <2>1 DEF Init, Types, Granted, Undisturbed
  <2>3. LocalTypes /\ \A s \in Slots : pc[s] = "idle" /\ conf[s] = None
    BY DEF Init, LocalTypes, Labels
  <2>4. \A s \in Slots : At(s) /\ ~ AtOwn(s)
    BY <2>3 DEF At, AtInit, AtCallback, AtLogin, AtOwn, InCallback, CallbackLabels, LoginLabels
  <2> QED BY <2>2, <2>3, <2>4 DEF IInv, Single
<1>2. IInv /\ [Next]_vars => IInv'
  <2> SUFFICES ASSUME IInv, [Next]_vars PROVE IInv'
    OBVIOUS
  <2>1. CASE UNCHANGED vars
    <3>1. /\ UNCHANGED <<pc, req, conf, got>> /\ UNCHANGED <<outside, stateStore, history>>
      BY <2>1 DEF vars, local
    <3>3. UNCHANGED begun
      BY <3>1 DEF history
    <3>2. /\ Types' /\ Granted' /\ Undisturbed' /\ \A t \in Slots : At(t)'
          /\ UNCHANGED disturbed
      BY <3>1, LocalStep, Stays
    <3> QED BY <3>1, <3>3, <3>2 DEF IInv, LocalTypes, Single, AtOwn, OwnProvider, InCallback
  <2>2. ASSUME NEW s \in Slots,
               \/ InitArrive(s) \/ CallbackArrive(s) \/ LoginArrive(s)
               \/ InitFind(s) \/ InitRedirect(s)
               \/ CallbackFind(s) \/ CallbackExchange(s) \/ CallbackReply(s)
               \/ LoginFind(s) \/ LoginUserinfo(s) \/ LoginAccount(s) \/ LoginReply(s)
               \/ Fail(s)
        PROVE  IInv'
    BY <2>2, InitKeeps, InitRedirectKeeps, CallbackArriveKeeps, CallbackFindKeeps,
       CallbackExchangeKeeps, CallbackReplyKeeps, LoginKeeps, FailKeeps
  <2>3. CASE Restart
    BY <2>3, RestartKeeps
  <2>4. CASE (\E k \in Attempts : Decide(k)) \/ (\E p \in Providers : Administer(p))
    BY <2>4, OthersKeep
  <2> QED BY <2>1, <2>2, <2>3, <2>4 DEF Next
<1> QED BY <1>1, <1>2, PTL DEF Spec

\* Every variable keeps its type; a callback that goes to the provider has a
\* secret of this process.
THEOREM TypeCorrect == Spec => []TypeOK
<1>1. IInv => TypeOK
  <2> SUFFICES ASSUME IInv PROVE TypeOK
    OBVIOUS
  <2>1. Range(stateStore) \subseteq Attempts /\ Range(decided) \subseteq People \cup {None}
    BY DEF IInv, Types, Range
  <2> QED BY <2>1 DEF IInv, Types, LocalTypes, At, AtCallback, TypeOK
<1> QED BY <1>1, Invariance, PTL

\* A login is for an account that goes by the email of the very person the
\* provider named in the body issued the token for, whatever application the
\* token is for; a token of this program stands for the person who granted the
\* attempt at that provider.
THEOREM LoginsAuthorised == Spec => []SignInAuthorised
<1>1. IInv => SignInAuthorised
  <2> SUFFICES ASSUME IInv, NEW s \in Slots, pc[s] = "login.reply"
               PROVE  LET token == req[s].token IN
                      /\ token.provider = req[s].provider
                      /\ got[s].claim # None =>
                            got[s].claim = token.person /\ token.person \in got[s].names
                      /\ token.attempt # None =>
                            /\ token.provider = begun[token.attempt].provider
                            /\ token.person = decided[token.attempt]
    BY DEF SignInAuthorised
  <2>1. AtLogin(s) /\ "login.reply" \in LoginLabels
    BY DEF IInv, At, LoginLabels
  <2>2. Genuine(req[s].token)
    BY <2>1 DEF AtLogin, LoginRequest
  <2> QED BY <2>1, <2>2 DEF AtLogin, Genuine, TokenOf
<1> QED BY <1>1, Invariance, PTL

\* A callback at the provider of its init is refused only for a reason of its
\* own attempt, whatever other people and other attempts do at the same time.
THEOREM CallbacksRefusedForAReason == Spec => RefusedForAReason
<1> DEFINE Reasoned ==
      \A s \in Slots :
          /\ pc[s] \in {"callback.find", "callback.exchange", "callback.reply"}
          /\ OwnProvider(req[s])
          /\ pc'[s] = "idle"
          /\ req[s].attempt \notin handed'
          => req[s].attempt \in disturbed'
<1>1. IInv /\ Next => Reasoned
  BY RefusalDisturbed DEF InCallback, CallbackLabels
<1>2. IInv /\ [Next]_vars => [Reasoned]_vars
  BY <1>1
<1> QED BY <1>2, Invariance, PTL DEF Spec, RefusedForAReason
============================================================================
