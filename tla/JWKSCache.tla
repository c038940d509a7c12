----------------------------- MODULE JWKSCache -----------------------------
(***************************************************************************)
(* The cache of the issuer's public keys in internal/cedar/identity.go,    *)
(* which all requests of a server share.  A request looks its token's key  *)
(* up in the cache; when the cache is old, or lacks the key, it fetches    *)
(* the keys again, with the write lock of the cache held for the whole of  *)
(* the fetch.  Meanwhile the issuer publishes and withdraws keys, and its  *)
(* key service is slow, or fails.                                          *)
(*                                                                         *)
(* Time is what the cache turns on.  It is discrete, and kept as ages: of  *)
(* the cache, of the fetch, of the last change of each key.  An age stops  *)
(* to grow when nothing tells it from a greater one.  A step that neither  *)
(* waits for the lock nor for the key service takes no time.               *)
(*                                                                         *)
(* Not here: signatures and claims.  What they say of a token decides      *)
(* between two answers once its key is found; either may come.             *)
(***************************************************************************)
EXTENDS Integers, FiniteSets

CONSTANTS Requests,
          Kids,             \* the key IDs that tokens name
          Keys,             \* those of keys that the issuer comes to use
          TTL,              \* jwksCacheTTL, an hour
          Recent,           \* how long no key is worth a second fetch: 5 s
          Timeout,          \* jwksFetchTimeout, 10 s
          NoKey,            \* no key ID
          NoOne             \* nobody holds the write lock

ASSUME JWKSAssumption ==
  /\ TTL \in Nat /\ Recent \in Nat \ {0} /\ Timeout \in Nat
  /\ Recent <= TTL
  /\ Keys \subseteq Kids
  /\ NoKey \notin Kids
  /\ NoOne \notin Requests

VARIABLES phase,            \* the issuer's keys: to come, published, withdrawn
          phaseAge,         \* ... and for how long
          cachedJWKS,       \* the keys in the cache
          cachedAge,        \* the time since they were put there
          mu,               \* who holds the write lock, and so fetches
          response,         \* the keys the key service has sent it
          fetchAge,         \* the time since it asked for them
          pc,               \* what each request does
          kid               \* the key that its token names

issuerVars == <<phase, phaseAge>>
cacheVars == <<cachedJWKS, cachedAge>>
fetchVars == <<mu, response, fetchAge>>
vars == <<issuerVars, cacheVars, fetchVars, pc, kid>>

\* How a validation ends: the middleware answers 401 in all cases but the first.
Outcomes == {"accepted", "refused", "key_not_found", "fetch_failed"}

\* fetchJWKS is called by getJWKS, for a cache that is empty or old, and by
\* validateToken, for one without the key; it waits for the lock, then for the
\* key service.
Waiting == {"load", "refresh"}
Fetching == {"loading", "refreshing"}

\* Beyond this an age of a key is as good as any.
Long == TTL + Timeout + 1

\* There is no set of keys, which differs from an empty one.
NoKeys == {NoKey}

JWKSs == (SUBSET Keys) \cup {NoKeys}

\* Every variable has its type, and a request waits for the key service exactly
\* when it holds the lock.
TypeOK ==
  /\ phase \in [Keys -> {"to_come", "published", "withdrawn"}]
  /\ phaseAge \in [Keys -> 0 .. Long]
  /\ cachedJWKS \in JWKSs
  /\ cachedAge \in 0 .. TTL
  /\ mu \in Requests \cup {NoOne}
  /\ response \in JWKSs
  /\ fetchAge \in 0 .. Timeout
  /\ pc \in [Requests -> {"idle", "getJWKS"} \cup Waiting \cup Fetching
                         \cup Outcomes]
  /\ kid \in [Requests -> Kids \cup {NoKey}]
  /\ \A r \in Requests : pc[r] \in Fetching <=> mu = r

Init ==
  /\ phase \in [Keys -> {"to_come", "published"}]
  /\ phaseAge = [k \in Keys |-> Long]
  /\ cachedJWKS = NoKeys
  /\ cachedAge = 0
  /\ mu = NoOne
  /\ response = NoKeys
  /\ fetchAge = 0
  /\ pc = [r \in Requests |-> "idle"]
  /\ kid = [r \in Requests |-> NoKey]

-----------------------------------------------------------------------------
(* The issuer, its key service, and time *)

Published == {k \in Keys : phase[k] = "published"}

Change(k, from, to) ==
  /\ phase[k] = from
  /\ phase' = [phase EXCEPT ![k] = to]
  /\ phaseAge' = [phaseAge EXCEPT ![k] = 0]
  /\ UNCHANGED <<cacheVars, fetchVars, pc, kid>>

Publish(k) == Change(k, "to_come", "published")

Withdraw(k) == Change(k, "published", "withdrawn")

\* The key service sends the keys as they are now; they arrive later.
Send ==
  /\ mu # NoOne /\ response = NoKeys
  /\ response' = Published
  /\ UNCHANGED <<issuerVars, cacheVars, mu, fetchAge, pc, kid>>

Older(age, limit) == IF age < limit THEN age + 1 ELSE limit

\* No fetch outlives the timeout of the HTTP client.
Tick ==
  /\ mu # NoOne => fetchAge < Timeout
  /\ phaseAge' = [k \in Keys |-> Older(phaseAge[k], Long)]
  /\ cachedAge' = IF cachedJWKS = NoKeys THEN 0 ELSE Older(cachedAge, TTL)
  /\ fetchAge' = IF mu = NoOne THEN 0 ELSE fetchAge + 1
  /\ UNCHANGED <<phase, cachedJWKS, mu, response, pc, kid>>

-----------------------------------------------------------------------------
(* Requests *)

Goto(r, step) == pc' = [pc EXCEPT ![r] = step]

\* A request comes with a token; one that has none, or whose token cannot be
\* parsed, is refused before the keys are asked for.
ValidateRequest(r, k) ==
  /\ pc[r] = "idle"
  /\ kid' = [kid EXCEPT ![r] = k]
  /\ Goto(r, "getJWKS") \/ Goto(r, "refused")
  /\ UNCHANGED <<issuerVars, cacheVars, fetchVars>>

\* The answer is given.
Leave(r) ==
  /\ pc[r] \in Outcomes
  /\ kid' = [kid EXCEPT ![r] = NoKey]
  /\ Goto(r, "idle")
  /\ UNCHANGED <<issuerVars, cacheVars, fetchVars>>

\* The signature is verified with the key, then issuer, expiry and subject.
Verify(r) == Goto(r, "accepted") \/ Goto(r, "refused")

\* The age is not looked at.
CacheFreshFault == cachedJWKS # NoKeys

CacheFresh == cachedJWKS # NoKeys /\ cachedAge < TTL

\* The keys are there: the token's is among them, or they are fetched again,
\* or have been.
Use(r, jwks) ==
  \/ kid[r] \in jwks /\ Verify(r)
  \/ /\ kid[r] \notin jwks
     /\ Goto(r, IF pc[r] \in {"refresh", "refreshing"} THEN "key_not_found"
                ELSE "refresh")

\* The read lock is not to be had while a fetch holds the write lock.
getJWKS(r) ==
  /\ pc[r] = "getJWKS"
  /\ mu = NoOne
  /\ IF CacheFresh THEN Use(r, cachedJWKS) ELSE Goto(r, "load")
  /\ UNCHANGED <<issuerVars, cacheVars, fetchVars, kid>>

\* The time to live in place of the five seconds.
JustFetchedFault == cachedJWKS # NoKeys /\ cachedAge < TTL

JustFetched == cachedJWKS # NoKeys /\ cachedAge < Recent

\* Another request has fetched while this one waited for the lock, or a little
\* before: its keys will do.
FetchSaved(r) ==
  /\ pc[r] \in Waiting
  /\ mu = NoOne
  /\ JustFetched
  /\ Use(r, cachedJWKS)
  /\ UNCHANGED <<issuerVars, cacheVars, fetchVars, kid>>

\* The cache is not looked at again under the write lock.
FetchBeginFault(r) ==
  /\ pc[r] \in Waiting
  /\ mu = NoOne
  /\ mu' = r
  /\ Goto(r, IF pc[r] = "load" THEN "loading" ELSE "refreshing")
  /\ UNCHANGED <<issuerVars, cacheVars, response, fetchAge, kid>>

FetchBegin(r) ==
  /\ pc[r] \in Waiting
  /\ mu = NoOne
  /\ ~JustFetched
  /\ mu' = r
  /\ Goto(r, IF pc[r] = "load" THEN "loading" ELSE "refreshing")
  /\ UNCHANGED <<issuerVars, cacheVars, response, fetchAge, kid>>

Unlock == mu' = NoOne /\ response' = NoKeys /\ fetchAge' = 0

FetchStore(r) ==
  /\ mu = r /\ response # NoKeys
  /\ cachedJWKS' = response
  /\ cachedAge' = 0
  /\ Use(r, response)
  /\ Unlock
  /\ UNCHANGED <<issuerVars, kid>>

\* An error returns without giving the lock back.
FetchFailedFault(r) ==
  /\ mu = r
  /\ Goto(r, "fetch_failed")
  /\ UNCHANGED <<issuerVars, cacheVars, fetchVars, kid>>

\* The key service answers with an error or not in time, or the client of this
\* request goes away.  What is in the cache stays, however old.
FetchFailed(r) ==
  /\ mu = r
  /\ Goto(r, "fetch_failed")
  /\ Unlock
  /\ UNCHANGED <<issuerVars, cacheVars, kid>>

-----------------------------------------------------------------------------

Step(r) ==
  \/ getJWKS(r) \/ FetchSaved(r) \/ FetchBegin(r)
  \/ FetchStore(r) \/ FetchFailed(r)

Next ==
  \/ Send \/ Tick
  \/ \E k \in Keys : Publish(k) \/ Withdraw(k)
  \/ \E r \in Requests :
       Step(r) \/ Leave(r) \/ \E k \in Kids : ValidateRequest(r, k)

\* A request goes on.  Whoever waits for the lock gets it in the end, although
\* others come and go: sync.RWMutex makes new readers wait behind a writer, and
\* lets a writer starve no longer than a millisecond.  The HTTP client gives up
\* in the end.  Time goes on; that the key service answers is not assumed.
Fairness ==
  /\ WF_vars(Tick)
  /\ \A r \in Requests :
       /\ SF_vars(getJWKS(r) \/ FetchSaved(r) \/ FetchBegin(r))
       /\ WF_vars(FetchStore(r) \/ FetchFailed(r))

Spec == Init /\ [][Next]_vars /\ Fairness

-----------------------------------------------------------------------------

Becomes(r, outcome) == pc[r] # outcome /\ pc'[r] = outcome

\* A key that the issuer withdrew is accepted no longer than the time to live
\* of the cache, and of the fetch that brought it, whoever fetched and however
\* long the others waited; one it has not published never is.
AcceptedWhileKnown ==
  [][\A r \in Requests : Becomes(r, "accepted") =>
       /\ kid[r] \in Keys
       /\ \/ phase[kid[r]] = "published"
          \/ phase[kid[r]] = "withdrawn" /\ phaseAge[kid[r]] < TTL + Timeout]_vars

\* That its key is not there is said of no token whose key has been published
\* for longer than the five seconds, and the fetch before them, in which it
\* could be missed.
NotFoundOnlyIfNew ==
  [][\A r \in Requests :
       Becomes(r, "key_not_found") /\ kid[r] \in Published =>
         phaseAge[kid[r]] < Recent + Timeout]_vars

\* As long as a fetch is under way, the keys in the cache are older than five
\* seconds: those who found them old, or lacking, at the same time and waited
\* for the lock did not all go on to fetch them one after the other.
OneFetchServesAll ==
  mu # NoOne => cachedJWKS = NoKeys \/ cachedAge >= Recent

\* Every request is answered, whatever the key service does.
EveryoneAnswered ==
  \A r \in Requests : pc[r] # "idle" ~> pc[r] \in Outcomes
=============================================================================
