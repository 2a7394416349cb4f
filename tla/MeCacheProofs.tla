--------------------------- MODULE MeCacheProofs ---------------------------
(***************************************************************************)
(* Theorems about the cached profile, for any number of users, requests    *)
(* and writes and any lifetime of an entry.                                *)
(*                                                                         *)
(* IInv compares the entry with the two clocks, and what requests and      *)
(* clients know with the row: nobody has a version that was never written. *)
(***************************************************************************)
EXTENDS MeCache, TLAPS

\* An entry that is not the row as it is was not so for longer than its age.
OutdatedSince ==
    (cached # None /\ users[cached.user] # cached.version) => quiet <= age

\* What was read, stored or answered of a row that is there is not newer.
NotNewer(profile) ==
    users[profile.user] # None => profile.version <= users[profile.user]

NothingNewer ==
    /\ cached # None => NotNewer(cached)
    /\ \A s \in Slots : got[s] # None => NotNewer(got[s])
    /\ \A u \in Users : users[u] # None => seen[u] <= users[u]

IInv == TypeOK /\ OutdatedSince /\ NothingNewer /\ BackwardsOnlyIfLate

----------------------------------------------------------------------------
\* The server starts with an empty cache.
LEMMA InitIInv == Init => IInv
BY ConstantsAssumption
   DEF Init, IInv, TypeOK, OutdatedSince, NothingNewer, NotNewer, BackwardsOnlyIfLate

\* A request that comes in, misses the entry, or finds no row.
LEMMA QuietStep ==
    ASSUME IInv, NEW s \in Slots, Get(s) \/ Miss(s) \/ NotFound(s)
    PROVE  IInv'
<1>1. TypeOK'
  BY DEF IInv, TypeOK, Get, Miss, NotFound, Done
<1>2. OutdatedSince' /\ BackwardsOnlyIfLate'
  BY DEF IInv, OutdatedSince, BackwardsOnlyIfLate, Get, Miss, NotFound, Done
<1>3. NothingNewer'
  BY DEF IInv, TypeOK, NothingNewer, NotNewer, Get, Miss, NotFound, Done
<1> QED BY <1>1, <1>2, <1>3 DEF IInv

\* A hit answers with the entry: its version is the latest seen.
LEMMA HitStep ==
    ASSUME IInv, NEW s \in Slots, Hit(s)
    PROVE  IInv'
<1>1. /\ cached \in Profile /\ caller[s] \in Users
      /\ seen' = [seen EXCEPT ![cached.user] = Larger(@, cached.version)]
      /\ UNCHANGED <<users, cached, age, caller, birth, quiet>>
  BY DEF IInv, TypeOK, Hit, Answer
<1>2. /\ cached.user \in Users /\ cached.version \in 0..MaxVersion
      /\ seen[cached.user] \in 0..MaxVersion
  BY <1>1 DEF IInv, TypeOK, Profile
<1>3. /\ seen'[cached.user] = Larger(seen[cached.user], cached.version)
      /\ \A u \in Users \ {cached.user} : seen'[u] = seen[u]
  BY <1>1, <1>2 DEF IInv, TypeOK
<1>4. TypeOK'
  <2>1. seen' \in [Users -> 0..MaxVersion]
    BY <1>1, <1>2 DEF Larger, IInv, TypeOK
  <2> QED BY <1>1, <2>1 DEF IInv, TypeOK, Hit, Answer, Done
<1>5. OutdatedSince'
  BY <1>1 DEF IInv, OutdatedSince
<1>6. NothingNewer'
  <2>1. \A t \in Slots : got'[t] = None \/ got'[t] = got[t]
    BY DEF Hit, Done, IInv, TypeOK
  <2>2. NotNewer(cached)
    BY DEF Hit, IInv, NothingNewer
  <2>3. \A u \in Users : users[u] # None => seen'[u] <= users[u]
    BY <1>2, <1>3, <2>2 DEF Larger, NotNewer, IInv, TypeOK, NothingNewer
  <2> QED BY <1>1, <2>1, <2>3 DEF NothingNewer, NotNewer, IInv
<1>7. BackwardsOnlyIfLate'
  BY <1>1, <1>2, <1>3 DEF Larger, IInv, TypeOK, BackwardsOnlyIfLate
<1> QED BY <1>4, <1>5, <1>6, <1>7 DEF IInv

\* The handler reads the row as it is.
LEMMA FindStep ==
    ASSUME IInv, NEW s \in Slots, Find(s)
    PROVE  IInv'
<1> DEFINE u == caller[s]
           profile == IF users[u] = None THEN None ELSE [user |-> u, version |-> users[u]]
<1>1. /\ got' = [got EXCEPT ![s] = profile] /\ pc' = [pc EXCEPT ![s] = "respond"]
      /\ UNCHANGED <<users, cached, age, caller, answer, seen, birth, quiet>>
  BY DEF Find
<1>2. u \in Users /\ (users[u] # None => users[u] \in 0..MaxVersion)
  BY DEF IInv, TypeOK
<1>3. profile \in Profile \cup {None}
  BY <1>2 DEF Profile
<1>4. (profile # None) => NotNewer(profile)
  BY <1>2 DEF NotNewer
<1> HIDE DEF profile
<1>5. TypeOK'
  BY <1>1, <1>3 DEF IInv, TypeOK
<1>6. OutdatedSince' /\ BackwardsOnlyIfLate'
  BY <1>1 DEF IInv, OutdatedSince, BackwardsOnlyIfLate
<1>7. NothingNewer'
  BY <1>1, <1>4 DEF IInv, TypeOK, NothingNewer, NotNewer
<1> QED BY <1>5, <1>6, <1>7 DEF IInv

\* The interceptor stores what the handler read: if it is the row as it is,
\* nobody has seen a later version of it.
LEMMA RespondStep ==
    ASSUME IInv, NEW s \in Slots, Respond(s)
    PROVE  IInv'
<1> DEFINE p == got[s]
<1>1. /\ p # None /\ cached' = p /\ age' = 0
      /\ birth' = (p.version = users[p.user])
      /\ quiet' = IF birth' THEN quiet ELSE 0
      /\ seen' = [seen EXCEPT ![p.user] = Larger(@, p.version)]
      /\ answer' = <<caller[s], p>>
      /\ UNCHANGED <<users, caller>>
      /\ pc' = [pc EXCEPT ![s] = "idle"] /\ got' = [got EXCEPT ![s] = None]
  BY DEF Respond, Answer, Done
<1>2. /\ p \in Profile /\ p.user \in Users /\ p.version \in 0..MaxVersion
      /\ seen[p.user] \in 0..MaxVersion /\ NotNewer(p)
  BY <1>1 DEF IInv, TypeOK, Profile, NothingNewer
<1> HIDE DEF p
<1>3. /\ seen'[p.user] = Larger(seen[p.user], p.version)
      /\ \A u \in Users \ {p.user} : seen'[u] = seen[u]
  BY <1>1, <1>2 DEF IInv, TypeOK
<1>4. TypeOK'
  <2>1. seen' \in [Users -> 0..MaxVersion]
    BY <1>1, <1>2 DEF Larger, IInv, TypeOK
  <2>2. age' \in 0..(Ttl - 1) /\ quiet' \in 0..Ttl /\ birth' \in BOOLEAN
    BY <1>1, ConstantsAssumption DEF IInv, TypeOK
  <2>3. answer' \in Users \X Profile
    BY <1>1, <1>2 DEF IInv, TypeOK
  <2>4. /\ pc' \in [Slots -> {"idle", "cache", "find", "respond"}]
        /\ got' \in [Slots -> Profile \cup {None}]
    BY <1>1 DEF IInv, TypeOK
  <2>5. /\ users' \in [Users -> 0..MaxVersion \cup {None}] /\ caller' \in [Slots -> Users]
        /\ cached' \in Profile \cup {None}
    BY <1>1, <1>2 DEF IInv, TypeOK
  <2> QED BY <2>1, <2>2, <2>3, <2>4, <2>5 DEF TypeOK
<1>5. OutdatedSince'
  <2>1. p.version # users[p.user] => ~ birth'
    BY <1>1
  <2>2. ~ birth' => quiet' = 0
    BY <1>1
  <2> QED BY <1>1, <2>1, <2>2 DEF OutdatedSince
<1>6. NothingNewer'
  <2>1. \A t \in Slots : got'[t] = None \/ got'[t] = got[t]
    BY <1>1 DEF IInv, TypeOK
  <2>2. \A u \in Users : users[u] # None => seen'[u] <= users[u]
    BY <1>2, <1>3 DEF Larger, NotNewer, IInv, TypeOK, NothingNewer
  <2> QED BY <1>1, <1>2, <2>1, <2>2 DEF NothingNewer, NotNewer, IInv
<1>7. BackwardsOnlyIfLate'
  <2> SUFFICES ASSUME p.version = users[p.user]
               PROVE  p.version >= seen'[p.user]
    BY <1>1 DEF BackwardsOnlyIfLate
  <2>1. users[p.user] # None /\ seen[p.user] <= p.version
    BY <1>2, ConstantsAssumption DEF IInv, NothingNewer
  <2> QED BY <1>2, <1>3, <2>1 DEF Larger
<1> QED BY <1>4, <1>5, <1>6, <1>7 DEF IInv

\* A write makes the entry outdated, and starts the time of quiet anew.
LEMMA WriteStep ==
    ASSUME IInv, NEW u \in Users, Write(u) \/ Remove(u)
    PROVE  IInv'
<1>1. /\ quiet' = 0 /\ \A w \in Users \ {u} : users'[w] = users[w]
      /\ users'[u] = None \/ (users[u] \in 0..MaxVersion /\ users'[u] = users[u] + 1)
      /\ users' \in [Users -> 0..MaxVersion \cup {None}]
      /\ UNCHANGED <<cached, age, pc, caller, got, answer, seen, birth>>
  <2>1. users[u] \in 0..MaxVersion
    BY DEF Write, Remove, IInv, TypeOK
  <2>2. CASE Write(u)
    BY <2>1, <2>2, ConstantsAssumption DEF Write, IInv, TypeOK
  <2>3. CASE Remove(u)
    BY <2>3 DEF Remove, IInv, TypeOK
  <2> QED BY <2>2, <2>3
<1>2. TypeOK'
  BY <1>1, ConstantsAssumption DEF IInv, TypeOK
<1>3. OutdatedSince' /\ BackwardsOnlyIfLate'
  BY <1>1, ConstantsAssumption DEF IInv, TypeOK, OutdatedSince, BackwardsOnlyIfLate
<1>4. NothingNewer'
  <2>1. ASSUME NEW profile \in Profile, NotNewer(profile) PROVE NotNewer(profile)'
    <3>1. profile.user \in Users /\ profile.version \in 0..MaxVersion
      BY DEF Profile
    <3> QED BY <1>1, <2>1, <3>1, ConstantsAssumption DEF NotNewer
  <2>2. \A w \in Users : users'[w] # None => seen'[w] <= users'[w]
    BY <1>1, ConstantsAssumption DEF IInv, TypeOK, NothingNewer
  <2> QED BY <1>1, <2>1, <2>2 DEF IInv, TypeOK, NothingNewer
<1> QED BY <1>2, <1>3, <1>4 DEF IInv

\* The entry grows as old as the time of quiet, and goes at Ttl.
LEMMA TickStep ==
    ASSUME IInv, Tick
    PROVE  IInv'
<1>1. /\ cached' = cached \/ cached' = None
      /\ age' = 0 \/ (age' = age + 1 /\ age + 1 < Ttl)
      /\ cached' # None => age' = age + 1
      /\ quiet' = IF quiet = Ttl THEN Ttl ELSE quiet + 1
      /\ UNCHANGED <<users, pc, caller, got, answer, seen, birth>>
  BY ConstantsAssumption DEF Tick, IInv, TypeOK
<1>2. TypeOK'
  <2>1. age' \in 0..(Ttl - 1) /\ quiet' \in 0..Ttl
    BY <1>1, ConstantsAssumption DEF IInv, TypeOK
  <2> QED BY <1>1, <2>1 DEF IInv, TypeOK
<1>3. OutdatedSince'
  BY <1>1, ConstantsAssumption DEF IInv, TypeOK, OutdatedSince
<1>4. NothingNewer' /\ BackwardsOnlyIfLate'
  BY <1>1 DEF IInv, NothingNewer, NotNewer, BackwardsOnlyIfLate
<1> QED BY <1>2, <1>3, <1>4 DEF IInv

----------------------------------------------------------------------------
\* In every state the entry is outdated since no longer than its age, and
\* nobody has a version that was never written.
THEOREM Invariance == Spec => []IInv
<1>1. IInv /\ [Next]_vars => IInv'
  <2> SUFFICES ASSUME IInv, [Next]_vars PROVE IInv'
    OBVIOUS
  <2>1. CASE UNCHANGED vars
    BY <2>1 DEF vars, IInv, TypeOK, OutdatedSince, NothingNewer, NotNewer, BackwardsOnlyIfLate
  <2>2. ASSUME NEW s \in Slots, Handle(s) PROVE IInv'
    BY <2>2, QuietStep, HitStep, FindStep, RespondStep DEF Handle
  <2>3. CASE \E u \in Users : Write(u) \/ Remove(u)
    BY <2>3, WriteStep
  <2>4. CASE Tick
    BY <2>4, TickStep
  <2> QED BY <2>1, <2>2, <2>3, <2>4 DEF Next
<1> QED BY <1>1, InitIInv, PTL DEF Spec

\* Every variable keeps its type: an entry never outlives its lifetime.
THEOREM TypeCorrect == Spec => []TypeOK
<1>1. IInv => TypeOK
  BY DEF IInv
<1> QED BY <1>1, Invariance, PTL

\* A lifetime after the last write, and the last profile stored too late, the
\* entry is the row as it is.
THEOREM EntryFreshWhenQuiet == Spec => []FreshWhenQuiet
<1>1. IInv => FreshWhenQuiet
  BY ConstantsAssumption DEF IInv, TypeOK, OutdatedSince, FreshWhenQuiet
<1> QED BY <1>1, Invariance, PTL

\* Answers go backwards only if an outdated profile was stored.
THEOREM AnswersForward == Spec => []BackwardsOnlyIfLate
<1>1. IInv => BackwardsOnlyIfLate
  BY DEF IInv
<1> QED BY <1>1, Invariance, PTL
============================================================================
