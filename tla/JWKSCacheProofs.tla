--------------------------- MODULE JWKSCacheProofs ---------------------------
(***************************************************************************)
(* Proofs about JWKSCache, for every set of requests and keys and all      *)
(* durations: whose keys a request may accept, and when it may be told     *)
(* that a key does not exist.                                              *)
(*                                                                         *)
(* The argument is one of ages.  What the key service has sent agrees with *)
(* the issuer but for the keys that changed since the fetch began, and the *)
(* cache, as long as it is fresh, but for those that changed since it was  *)
(* filled and the fetch before (AgeInv).  A fetch takes at most the        *)
(* timeout, and a cache is read before it is TTL old.                      *)
(***************************************************************************)
EXTENDS JWKSCache, TLAPS

USE JWKSAssumption
USE DEF issuerVars, cacheVars, fetchVars, Outcomes, Waiting, Fetching

\* What is used of a set of keys depends on the request's next step only.
LEMMA UseStep ==
  ASSUME TypeOK, NEW r \in Requests, NEW jwks, Use(r, jwks)
  PROVE  /\ pc' \in [Requests -> {"idle", "getJWKS"} \cup Waiting \cup Fetching
                                 \cup Outcomes]
         /\ \A s \in Requests \ {r} : pc'[s] = pc[s]
         /\ pc'[r] \in {"accepted", "refused", "key_not_found", "refresh"}
         /\ pc'[r] = "accepted" => kid[r] \in jwks
         /\ pc'[r] = "key_not_found" =>
              kid[r] \notin jwks /\ pc[r] \in {"refresh", "refreshing"}
BY DEF TypeOK, Use, Verify, Goto

\* A request that goes to a given step.
LEMMA GotoStep ==
  ASSUME TypeOK, NEW r \in Requests,
         NEW step \in
           {"idle", "getJWKS"} \cup Waiting \cup Fetching \cup Outcomes,
         Goto(r, step)
  PROVE  /\ pc' \in [Requests -> {"idle", "getJWKS"} \cup Waiting \cup Fetching
                                 \cup Outcomes]
         /\ \A s \in Requests \ {r} : pc'[s] = pc[s]
         /\ pc'[r] = step
BY DEF TypeOK, Goto

-----------------------------------------------------------------------------
(* Types *)

\* Nothing is cached or fetched at the beginning.
LEMMA TypeInit == Init => TypeOK
<1>1. Long \in 0 .. Long /\ 0 \in 0 .. TTL /\ 0 \in 0 .. Timeout
  BY DEF Long
<1>2. NoKeys \in JWKSs
  BY DEF JWKSs
<1> QED
  BY <1>1, <1>2 DEF Init, TypeOK

\* An age that grows stays within its bound.
LEMMA OlderType ==
  ASSUME NEW limit \in Nat, NEW age \in 0 .. limit
  PROVE  Older(age, limit) \in 0 .. limit /\ age <= Older(age, limit)
BY DEF Older

\* Every step keeps the types, and the one that fetches holds the lock.
LEMMA TypeStep == TypeOK /\ [Next]_vars => TypeOK'
<1> SUFFICES ASSUME TypeOK, [Next]_vars PROVE TypeOK'
  OBVIOUS
<1>1. CASE Send
  BY <1>1 DEF Send, TypeOK, JWKSs, Published
<1>2. CASE Tick
  <2>1. \A k \in Keys : Older(phaseAge[k], Long) \in 0 .. Long
    BY OlderType DEF TypeOK, Long
  <2>2. Older(cachedAge, TTL) \in 0 .. TTL
    BY OlderType DEF TypeOK
  <2>3. fetchAge' \in 0 .. Timeout
    BY <1>2 DEF Tick, TypeOK
  <2> QED
    BY <1>2, <2>1, <2>2, <2>3 DEF Tick, TypeOK
<1>3. ASSUME NEW k \in Keys, Publish(k) \/ Withdraw(k) PROVE TypeOK'
  BY <1>3 DEF Publish, Withdraw, Change, TypeOK, Long
<1>4. ASSUME NEW r \in Requests, getJWKS(r) PROVE TypeOK'
  <2>1. /\ pc[r] = "getJWKS" /\ mu = NoOne
        /\ Use(r, cachedJWKS) \/ Goto(r, "load")
        /\ UNCHANGED <<issuerVars, cacheVars, fetchVars, kid>>
    BY <1>4 DEF getJWKS
  <2> QED
    BY <2>1, UseStep, GotoStep DEF TypeOK
<1>5. ASSUME NEW r \in Requests, FetchSaved(r) PROVE TypeOK'
  BY <1>5, UseStep DEF FetchSaved, TypeOK
<1>6. ASSUME NEW r \in Requests, FetchBegin(r) PROVE TypeOK'
  BY <1>6, GotoStep DEF FetchBegin, TypeOK
<1>7. ASSUME NEW r \in Requests, FetchStore(r) PROVE TypeOK'
  <2>1. NoKeys \in JWKSs /\ 0 \in 0 .. TTL /\ 0 \in 0 .. Timeout
    BY DEF JWKSs
  <2> QED
    BY <1>7, <2>1, UseStep DEF FetchStore, Unlock, TypeOK
<1>8. ASSUME NEW r \in Requests, FetchFailed(r) PROVE TypeOK'
  <2>1. NoKeys \in JWKSs /\ 0 \in 0 .. Timeout
    BY DEF JWKSs
  <2> QED
    BY <1>8, <2>1, GotoStep DEF FetchFailed, Unlock, TypeOK
<1>9. ASSUME NEW r \in Requests, Leave(r) PROVE TypeOK'
  BY <1>9, GotoStep DEF Leave, TypeOK
<1>10. ASSUME NEW r \in Requests, NEW k \in Kids, ValidateRequest(r, k)
       PROVE  TypeOK'
  BY <1>10, GotoStep DEF ValidateRequest, TypeOK
<1>11. CASE UNCHANGED vars
  BY <1>11 DEF vars, TypeOK
<1> QED
  BY <1>1, <1>2, <1>3, <1>4, <1>5, <1>6, <1>7, <1>8, <1>9, <1>10, <1>11
     DEF Next, Step

-----------------------------------------------------------------------------
(* Ages *)

\* The set of keys jwks agrees with the issuer about k, or k has changed within
\* age.
Agrees(k, jwks, age) ==
  /\ k \in jwks => phase[k] # "to_come"
  /\ (k \in jwks <=> phase[k] = "published") \/ phaseAge[k] <= age

\* What was sent is known since the fetch began, a fresh cache since the fetch
\* before it was filled; and whoever fetches found the cache older than Recent.
AgeInv ==
  /\ response # NoKeys =>
       mu # NoOne /\ \A k \in Keys : Agrees(k, response, fetchAge)
  /\ cachedJWKS # NoKeys /\ cachedAge < TTL =>
       \A k \in Keys : Agrees(k, cachedJWKS, cachedAge + Timeout)
  /\ OneFetchServesAll

\* There are no keys yet.
LEMMA AgeInit == Init => AgeInv
BY DEF Init, AgeInv, OneFetchServesAll

\* A key that changes is young.
LEMMA ChangeAge ==
  ASSUME TypeOK, NEW c \in Keys, Publish(c) \/ Withdraw(c),
         NEW k \in Keys, NEW jwks, NEW age \in Nat, Agrees(k, jwks, age)
  PROVE  Agrees(k, jwks, age)'
BY DEF Publish, Withdraw, Change, Agrees, TypeOK

\* Time passes for the keys, too.
LEMMA TickAge ==
  ASSUME TypeOK, Tick, NEW k \in Keys
  PROVE  /\ phaseAge'[k] \in Nat /\ phaseAge[k] \in Nat
         /\ phaseAge'[k] <= phaseAge[k] + 1
<1>1. phaseAge[k] \in Nat /\ Long \in Nat
  BY DEF TypeOK, Long
<1>2. phaseAge'[k] = Older(phaseAge[k], Long)
  BY DEF Tick
<1>3. phaseAge[k] <= Long
  BY DEF TypeOK, Long
<1> QED
  BY <1>1, <1>2, <1>3 DEF Older

\* Whoever stores what was sent does so in time.
LEMMA StoreAge ==
  ASSUME TypeOK, NEW k \in Keys, Agrees(k, response, fetchAge)
  PROVE  Agrees(k, response, 0 + Timeout)
BY DEF Agrees, TypeOK, Long

\* Every step keeps the ages in their relation.
LEMMA AgeStep == TypeOK /\ AgeInv /\ [Next]_vars => AgeInv'
<1> SUFFICES ASSUME TypeOK, AgeInv, [Next]_vars PROVE AgeInv'
  OBVIOUS
<1>1. CASE Send
  <2>1. \A k \in Keys : Agrees(k, response', fetchAge)
    BY <1>1 DEF Send, Agrees, Published, TypeOK
  <2> QED
    BY <1>1, <2>1 DEF Send, AgeInv, OneFetchServesAll, Agrees
<1>2. CASE Tick
  <2>1. UNCHANGED <<phase, cachedJWKS, mu, response>>
    BY <1>2 DEF Tick
  <2>2. ASSUME response' # NoKeys
        PROVE  mu' # NoOne /\ \A k \in Keys : Agrees(k, response, fetchAge)'
    <3>1. mu # NoOne /\ fetchAge' = fetchAge + 1 /\ fetchAge \in Nat
      BY <1>2, <2>1, <2>2 DEF Tick, AgeInv, TypeOK
    <3> QED
      BY <1>2, <2>1, <2>2, <3>1, TickAge DEF AgeInv, Agrees
  <2>3. ASSUME cachedJWKS' # NoKeys, cachedAge' < TTL, NEW k \in Keys
        PROVE  Agrees(k, cachedJWKS, cachedAge + Timeout)'
    <3>1. cachedAge \in Nat /\ cachedAge < TTL /\ cachedAge' = cachedAge + 1
      BY <1>2, <2>1, <2>3 DEF Tick, Older, TypeOK
    <3> QED
      BY <1>2, <2>1, <2>3, <3>1, TickAge DEF AgeInv, Agrees
  <2>4. OneFetchServesAll'
    BY <1>2 DEF Tick, Older, TypeOK, AgeInv, OneFetchServesAll
  <2> QED
    BY <2>2, <2>3, <2>4 DEF AgeInv
<1>3. ASSUME NEW c \in Keys, Publish(c) \/ Withdraw(c) PROVE AgeInv'
  <2>1. \A k \in Keys : \/ phase'[k] = phase[k] /\ phaseAge'[k] = phaseAge[k]
                        \/ phaseAge'[k] = 0 /\ phase'[k] # "to_come"
    <3>1. phase \in [Keys -> {"to_come", "published", "withdrawn"}]
            /\ phaseAge \in [Keys -> 0 .. Long]
      BY DEF TypeOK
    <3>2. phaseAge' = [phaseAge EXCEPT ![c] = 0]
      BY <1>3 DEF Publish, Withdraw, Change
    <3>3. \/ phase' = [phase EXCEPT ![c] = "published"]
          \/ phase' = [phase EXCEPT ![c] = "withdrawn"]
      BY <1>3 DEF Publish, Withdraw, Change
    <3> QED
      BY <3>1, <3>2, <3>3
  <2>2. UNCHANGED <<cacheVars, fetchVars>>
    BY <1>3 DEF Publish, Withdraw, Change
  <2> QED
    BY <2>1, <2>2 DEF AgeInv, Agrees, OneFetchServesAll, TypeOK
<1>4. ASSUME UNCHANGED <<issuerVars, cacheVars, fetchVars>> PROVE AgeInv'
  BY <1>4 DEF AgeInv, Agrees, OneFetchServesAll
<1>5. ASSUME NEW r \in Requests, FetchBegin(r) PROVE AgeInv'
  BY <1>5 DEF FetchBegin, JustFetched, AgeInv, Agrees, OneFetchServesAll, TypeOK
<1>6. ASSUME NEW r \in Requests, FetchStore(r) PROVE AgeInv'
  <2>1. \A k \in Keys : Agrees(k, response, 0 + Timeout)
    BY <1>6, StoreAge DEF FetchStore, AgeInv
  <2> QED
    BY <1>6, <2>1 DEF FetchStore, Unlock, AgeInv, Agrees, OneFetchServesAll
<1>7. ASSUME NEW r \in Requests, FetchFailed(r) PROVE AgeInv'
  BY <1>7 DEF FetchFailed, Unlock, AgeInv, Agrees, OneFetchServesAll
<1>8. ASSUME NEW r \in Requests,
             \/ getJWKS(r) \/ FetchSaved(r) \/ Leave(r)
             \/ \E k \in Kids : ValidateRequest(r, k)
      PROVE  AgeInv'
  BY <1>4, <1>8 DEF getJWKS, FetchSaved, Leave, ValidateRequest
<1>9. CASE UNCHANGED vars
  BY <1>4, <1>9 DEF vars
<1> QED
  BY <1>1, <1>2, <1>3, <1>5, <1>6, <1>7, <1>8, <1>9 DEF Next, Step

-----------------------------------------------------------------------------
(* The theorems. *)

\* The inductive invariant.
IInv == TypeOK /\ AgeInv

\* The inductive invariant, from its two parts.
LEMMA Inductive == Init /\ [][Next]_vars => []IInv
<1>1. Init => IInv
  BY TypeInit, AgeInit DEF IInv
<1>2. IInv /\ [Next]_vars => IInv'
  BY TypeStep, AgeStep DEF IInv
<1> QED
  BY <1>1, <1>2, PTL

\* Every variable has its type in every state.
THEOREM TypeCorrect == Spec => []TypeOK
<1>1. IInv => TypeOK
  BY DEF IInv
<1> QED
  BY <1>1, Inductive, PTL DEF Spec

\* A fetch begins only when no other has just brought the keys.
THEOREM FetchedOnce == Spec => []OneFetchServesAll
<1>1. IInv => OneFetchServesAll
  BY DEF IInv, AgeInv
<1> QED
  BY <1>1, Inductive, PTL DEF Spec

\* The step that brings a request to an outcome looks its key up in what the
\* key service sent, or in a cache that is fresh.
LEMMA Outcome ==
  ASSUME TypeOK, AgeInv, Next, NEW r \in Requests,
         \/ Becomes(r, "accepted") \/ Becomes(r, "key_not_found")
  PROVE  \E jwks \in SUBSET Keys, age \in Nat :
           /\ \A k \in Keys : Agrees(k, jwks, age)
           /\ pc'[r] = "accepted" => kid[r] \in jwks /\ age < TTL + Timeout
           /\ pc'[r] = "key_not_found" =>
                kid[r] \notin jwks /\ age < Recent + Timeout
<1>1. \/ getJWKS(r) \/ FetchSaved(r) \/ FetchStore(r)
  <2>1. ASSUME NEW s \in Requests,
               \/ FetchBegin(s) \/ FetchFailed(s) \/ Leave(s)
               \/ \E k \in Kids : ValidateRequest(s, k)
        PROVE  ~Becomes(r, "accepted") /\ ~Becomes(r, "key_not_found")
    BY <2>1
       DEF FetchBegin, FetchFailed, Leave, ValidateRequest, Goto, Becomes,
           TypeOK
  <2>2. ASSUME NEW s \in Requests,
               \/ getJWKS(s) \/ FetchSaved(s) \/ FetchStore(s)
        PROVE  s = r
    <3>1. \E jwks : Use(s, jwks) \/ Goto(s, "load")
      BY <2>2 DEF getJWKS, FetchSaved, FetchStore
    <3>2. \A t \in Requests \ {s} : pc'[t] = pc[t]
      BY <3>1, UseStep, GotoStep
    <3> QED
      BY <3>2 DEF Becomes
  <2>3. ASSUME \/ Send \/ Tick
               \/ \E k \in Keys : Publish(k) \/ Withdraw(k)
        PROVE  ~Becomes(r, "accepted") /\ ~Becomes(r, "key_not_found")
    BY <2>3 DEF Send, Tick, Publish, Withdraw, Change, Becomes
  <2> QED
    BY <2>1, <2>2, <2>3 DEF Next, Step
<1>2. ASSUME cachedJWKS # NoKeys, cachedAge < TTL
      PROVE  /\ cachedJWKS \in SUBSET Keys /\ cachedAge + Timeout \in Nat
             /\ \A k \in Keys : Agrees(k, cachedJWKS, cachedAge + Timeout)
             /\ cachedAge + Timeout < TTL + Timeout
  BY <1>2 DEF AgeInv, TypeOK, JWKSs
<1>3. CASE getJWKS(r)
  <2>1. /\ CacheFresh /\ Use(r, cachedJWKS)
    BY <1>3, GotoStep DEF getJWKS, Becomes
  <2>2. pc'[r] = "accepted" /\ kid[r] \in cachedJWKS
    BY <1>3, <2>1, UseStep DEF getJWKS, Becomes
  <2> QED
    BY <1>2, <2>1, <2>2 DEF CacheFresh
<1>4. CASE FetchSaved(r)
  <2>1. JustFetched /\ Use(r, cachedJWKS)
    BY <1>4 DEF FetchSaved
  <2>2. cachedAge + Timeout < Recent + Timeout /\ cachedAge < TTL
    BY <2>1 DEF JustFetched, TypeOK
  <2> QED
    BY <1>2, <2>1, <2>2, UseStep DEF JustFetched
<1>5. CASE FetchStore(r)
  <2>1. Use(r, response) /\ response # NoKeys
    BY <1>5 DEF FetchStore
  <2>2. response \in SUBSET Keys /\ \A k \in Keys :
          Agrees(k, response, 0 + Timeout)
    BY <2>1, StoreAge DEF AgeInv, TypeOK, JWKSs
  <2>3. 0 + Timeout \in Nat /\ 0 + Timeout < Recent + Timeout /\
          0 + Timeout < TTL + Timeout
    OBVIOUS
  <2> QED
    BY <2>1, <2>2, <2>3, UseStep
<1> QED
  BY <1>1, <1>3, <1>4, <1>5

\* A request accepts keys that the issuer uses, or has withdrawn within TTL and
\* the time of a fetch.
THEOREM OnlyKnownAccepted == Spec => AcceptedWhileKnown
<1>1. ASSUME IInv, Next, NEW r \in Requests, Becomes(r, "accepted")
      PROVE  /\ kid[r] \in Keys
             /\ \/ phase[kid[r]] = "published"
                \/ phase[kid[r]] = "withdrawn" /\
                     phaseAge[kid[r]] < TTL + Timeout
  <2>1. PICK jwks \in SUBSET Keys, age \in Nat :
          /\ \A k \in Keys : Agrees(k, jwks, age)
          /\ kid[r] \in jwks /\ age < TTL + Timeout
    BY <1>1, Outcome DEF IInv, Becomes
  <2>2. PICK k \in Keys : k = kid[r]
    BY <2>1
  <2> QED
    BY <1>1, <2>1, <2>2 DEF IInv, TypeOK, Agrees, Long
<1>2. IInv /\ [Next]_vars =>
        [\A r \in Requests : Becomes(r, "accepted") =>
           /\ kid[r] \in Keys
           /\ \/ phase[kid[r]] = "published"
              \/ phase[kid[r]] = "withdrawn"
                   /\ phaseAge[kid[r]] < TTL + Timeout]_vars
  BY <1>1
<1> QED
  BY <1>2, Inductive, PTL DEF Spec, AcceptedWhileKnown

\* A published key is not found only within Recent and the time of a fetch.
THEOREM NotFoundWhileNew == Spec => NotFoundOnlyIfNew
<1>1. ASSUME IInv, Next, NEW r \in Requests, Becomes(r, "key_not_found"),
             kid[r] \in Published
      PROVE  phaseAge[kid[r]] < Recent + Timeout
  <2>1. PICK jwks \in SUBSET Keys, age \in Nat :
          /\ \A k \in Keys : Agrees(k, jwks, age)
          /\ kid[r] \notin jwks /\ age < Recent + Timeout
    BY <1>1, Outcome DEF IInv, Becomes
  <2>2. PICK k \in Keys : k = kid[r] /\ phase[k] = "published"
    BY <1>1 DEF Published
  <2> QED
    BY <1>1, <2>1, <2>2 DEF IInv, TypeOK, Agrees, Long
<1>2. IInv /\ [Next]_vars =>
        [\A r \in Requests : Becomes(r, "key_not_found") /\
          kid[r] \in Published =>
           phaseAge[kid[r]] < Recent + Timeout]_vars
  BY <1>1
<1> QED
  BY <1>2, Inductive, PTL DEF Spec, NotFoundOnlyIfNew
=============================================================================
