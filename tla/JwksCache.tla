----------------------------- MODULE JwksCache -----------------------------
(***************************************************************************)
(* The verification-key cache of one trusted issuer, as concurrent requests *)
(* see it: IssuerState::get_decoding_keys and its callers in               *)
(* cli-framework-oidc/src/server/mod.rs, with the key selection of         *)
(* cli-framework-oidc/src/jwks.rs.                                         *)
(*                                                                         *)
(* One step is the code a task runs between two awaits.  The three tokio   *)
(* mutexes are variables: `gate` (refetch_gate), `cacheLock` (jwks_cache)  *)
(* and `lastLock` (last_forced_refetch).  The identity provider publishes  *)
(* key sets of its own accord and its answers travel through the network.  *)
(***************************************************************************)
EXTENDS Integers, FiniteSets

CONSTANTS
    Requests,     \* the tasks that validate a token
    Tokens,       \* the bearer tokens they may present
    KeySets,      \* the JWKS documents the identity provider may publish
    NoKid,        \* the absent `kid`
    Free,         \* the holder of an unlocked mutex
    TTL,          \* OidcValidationConfig::jwks_ttl
    MinRefetch,   \* OidcValidationConfig::min_refetch_interval
    MaxTime       \* bound on the clock (model checking only)

ASSUME ClockAssumption ==
    /\ TTL \in Nat \ {0}
    /\ MinRefetch \in Nat
    /\ MaxTime \in Nat

ASSUME FreeAssumption == Free \notin Requests

(* A published key is a `kid` and key material; a token names the kid of   *)
(* its header, the key that signed it, and why it is turned away before    *)
(* any key is looked up ("none" when it is not).                           *)
Keys == UNION KeySets

Rejections == {"MissingToken", "MalformedAuthorization", "Undecodable",
               "Malformed", "UnknownIssuer", "UnsupportedAlgorithm"}

Answers == Rejections \cup {"None", "Ok", "BadClaims", "InvalidSignature",
                            "UnknownKey", "JwksUnavailable"}

ASSUME TokenAssumption ==
    /\ Tokens # {}
    /\ \A t \in Tokens : t.defect \in Rejections \cup {"none"}

Never == -1   \* Option<Instant>::None

Steps == {"idle", "probe", "gate", "recheck", "uri", "limit", "limited",
          "fetch", "store", "mark", "stale", "done"}

VARIABLES
    now,          \* the monotonic clock behind Instant
    published,    \* what the identity provider serves now
    keys,         \* JwksCache::keys
    fetchedAt,    \* JwksCache::fetched_at
    lastRefetch,  \* IssuerState::last_forced_refetch
    uriKnown,     \* jwks_uri is configured, or the discovery cell is filled
    gate, cacheLock, lastLock,
    pc,           \* where each request is in get_decoding_keys
    token,        \* the token each request carries
    body,         \* the JWKS document each request's fetch returned
    answer,       \* the outcome of validate for each request
    lastStart     \* history: when the last JWKS fetch left

clockVars == <<now, published>>
cacheVars == <<keys, fetchedAt, lastRefetch, uriKnown>>
locks == <<gate, cacheLock, lastLock>>
reqVars == <<pc, token, body, answer>>
vars == <<clockVars, cacheVars, locks, reqVars, lastStart>>

TypeOK ==
    /\ now \in Nat
    /\ published \in KeySets
    /\ keys \in SUBSET Keys
    /\ fetchedAt \in Nat \cup {Never}
    /\ lastRefetch \in Nat \cup {Never}
    /\ lastStart \in Nat \cup {Never}
    /\ uriKnown \in BOOLEAN
    /\ gate \in Requests \cup {Free}
    /\ cacheLock \in Requests \cup {Free}
    /\ lastLock \in Requests \cup {Free}
    /\ pc \in [Requests -> Steps]
    /\ token \in [Requests -> Tokens]
    /\ body \in [Requests -> SUBSET Keys]
    /\ answer \in [Requests -> Answers]

Init ==
    /\ now = 0
    /\ published \in KeySets
    /\ keys = {} /\ fetchedAt = Never /\ lastRefetch = Never
    /\ uriKnown \in BOOLEAN
    /\ gate = Free /\ cacheLock = Free /\ lastLock = Free
    /\ pc = [r \in Requests |-> "idle"]
    /\ token = [r \in Requests |-> CHOOSE t \in Tokens : TRUE]
    /\ body = [r \in Requests |-> {}]
    /\ answer = [r \in Requests |-> "None"]
    /\ lastStart = Never

----------------------------------------------------------------------------
(* JwksCache::is_fresh. *)
IsFresh == fetchedAt # Never /\ now - fetchedAt < TTL

(* The keys filter_keys returns for a kid, when it returns KeyResult::Keys. *)
Matching(all, kid) ==
    IF kid = NoKid THEN IF Cardinality(all) = 1 THEN all ELSE {}
                   ELSE {k \in all : k.kid = kid}

(* filter_keys, as the outcome it leads validate to: no keys at all is     *)
(* KeyResult::Unavailable, no match is KeyResult::UnknownKid, otherwise    *)
(* each match is tried in turn by try_validate_jwt.                        *)
Verdict(all, t) ==
    LET matching == Matching(all, t.kid) IN
    IF all = {} THEN "JwksUnavailable"
    ELSE IF matching = {} THEN "UnknownKey"
    ELSE IF ~\E k \in matching : k.material = t.key THEN "InvalidSignature"
    ELSE IF t.claimsOk THEN "Ok" ELSE "BadClaims"

(* Mutant: the gate outlives the call, as a leaked guard would. *)
FinishKeepingGate(r, result) ==
    /\ answer' = [answer EXCEPT ![r] = result]
    /\ pc' = [pc EXCEPT ![r] = "done"]
    /\ UNCHANGED gate

(* get_decoding_keys returns: the guard on refetch_gate is dropped. *)
Finish(r, result) ==
    /\ answer' = [answer EXCEPT ![r] = result]
    /\ pc' = [pc EXCEPT ![r] = "done"]
    /\ gate' = IF gate = r THEN Free ELSE gate

Goto(r, step) ==
    /\ pc' = [pc EXCEPT ![r] = step]
    /\ UNCHANGED answer

----------------------------------------------------------------------------
(* A request arrives.  authorize_inner, validate_inner and the algorithm   *)
(* check turn a defective one away before any key is looked up.            *)
Arrive(r, t) ==
    /\ pc[r] \in {"idle", "done"}
    /\ token' = [token EXCEPT ![r] = t]
    /\ IF t.defect = "none"
       THEN pc' = [pc EXCEPT ![r] = "probe"] /\ answer' = [answer EXCEPT ![r] = "None"]
       ELSE pc' = [pc EXCEPT ![r] = "done"] /\ answer' = [answer EXCEPT ![r] = t.defect]
    /\ UNCHANGED <<clockVars, cacheVars, locks, body, lastStart>>

(* A fresh cache answers at once unless the kid is unknown to it. *)
CacheAnswers(r) == IsFresh /\ Verdict(keys, token[r]) # "UnknownKey"

(* The lock-free-of-gate path: read the cache, answer or queue for the gate. *)
Probe(r) ==
    /\ pc[r] = "probe"
    /\ cacheLock = Free
    /\ \/ CacheAnswers(r) /\ Finish(r, Verdict(keys, token[r]))
       \/ ~CacheAnswers(r) /\ Goto(r, "gate") /\ UNCHANGED gate
    /\ UNCHANGED <<clockVars, cacheVars, cacheLock, lastLock, token, body, lastStart>>

AcquireGate(r) ==
    /\ pc[r] = "gate"
    /\ gate = Free
    /\ gate' = r
    /\ Goto(r, "recheck")
    /\ UNCHANGED <<clockVars, cacheVars, cacheLock, lastLock, token, body, lastStart>>

(* Mutant: no second look, every waiter fetches in its turn. *)
RecheckOmitted(r) ==
    /\ pc[r] = "recheck"
    /\ cacheLock = Free
    /\ Goto(r, "uri")
    /\ UNCHANGED <<clockVars, cacheVars, locks, token, body, lastStart>>

(* The second look at the cache, under the gate. *)
Recheck(r) ==
    /\ pc[r] = "recheck"
    /\ cacheLock = Free
    /\ \/ CacheAnswers(r) /\ Finish(r, Verdict(keys, token[r]))
       \/ ~CacheAnswers(r) /\ Goto(r, "uri") /\ UNCHANGED gate
    /\ UNCHANGED <<clockVars, cacheVars, cacheLock, lastLock, token, body, lastStart>>

(* get_jwks_uri: configured or already discovered, or a discovery request  *)
(* that succeeds (the cell is filled for good) or fails.                   *)
GetJwksUri(r) ==
    /\ pc[r] = "uri"
    /\ uriKnown
    /\ Goto(r, "limit")
    /\ UNCHANGED <<clockVars, cacheVars, locks, token, body, lastStart>>

Discover(r) ==
    /\ pc[r] = "uri"
    /\ ~uriKnown
    /\ uriKnown' = TRUE
    /\ Goto(r, "limit")
    /\ UNCHANGED <<clockVars, keys, fetchedAt, lastRefetch, locks, token, body, lastStart>>

DiscoveryFails(r) ==
    /\ pc[r] = "uri"
    /\ ~uriKnown
    /\ Goto(r, "stale")
    /\ UNCHANGED <<clockVars, cacheVars, locks, token, body, lastStart>>

(* The rate limit.  Too early: last_forced_refetch stays locked while the  *)
(* task waits for jwks_cache.  Otherwise the fetch leaves.                 *)
TooEarly == lastRefetch # Never /\ now - lastRefetch < MinRefetch

(* Mutant: no rate limit. *)
LimitOmitted(r) ==
    /\ pc[r] = "limit"
    /\ lastLock = Free
    /\ Goto(r, "fetch")
    /\ lastStart' = now
    /\ UNCHANGED <<clockVars, cacheVars, locks, token, body>>

Limit(r) ==
    /\ pc[r] = "limit"
    /\ lastLock = Free
    /\ \/ /\ TooEarly
          /\ lastLock' = r
          /\ Goto(r, "limited")
          /\ UNCHANGED lastStart
       \/ /\ ~TooEarly
          /\ Goto(r, "fetch")
          /\ lastStart' = now
          /\ UNCHANGED lastLock
    /\ UNCHANGED <<clockVars, cacheVars, gate, cacheLock, token, body>>

Limited(r) ==
    /\ pc[r] = "limited"
    /\ cacheLock = Free
    /\ lastLock' = Free
    /\ Finish(r, Verdict(keys, token[r]))
    /\ UNCHANGED <<clockVars, cacheVars, cacheLock, token, body, lastStart>>

(* fetch_jwks: the answer holds what was published when it was served. *)
FetchJwks(r) ==
    /\ pc[r] = "fetch"
    /\ body' = [body EXCEPT ![r] = published]
    /\ Goto(r, "store")
    /\ UNCHANGED <<clockVars, cacheVars, locks, token, lastStart>>

FetchFails(r) ==
    /\ pc[r] = "fetch"
    /\ Goto(r, "stale")
    /\ UNCHANGED <<clockVars, cacheVars, locks, token, body, lastStart>>

(* The new keys go into the cache, which stays locked until the refetch    *)
(* time has been recorded as well.                                         *)
StoreKeys(r) ==
    /\ pc[r] = "store"
    /\ cacheLock = Free
    /\ cacheLock' = r
    /\ keys' = body[r]
    /\ fetchedAt' = now
    /\ Goto(r, "mark")
    /\ UNCHANGED <<clockVars, lastRefetch, uriKnown, gate, lastLock, token, body, lastStart>>

MarkRefetch(r) ==
    /\ pc[r] = "mark"
    /\ lastLock = Free
    /\ lastRefetch' = now
    /\ cacheLock' = Free
    /\ body' = [body EXCEPT ![r] = {}]
    /\ Finish(r, Verdict(keys, token[r]))
    /\ UNCHANGED <<clockVars, keys, fetchedAt, uriKnown, lastLock, token, lastStart>>

(* Mutant: a failed fetch is an outage although keys are cached. *)
ServeStaleRefused(r) ==
    /\ pc[r] = "stale"
    /\ cacheLock = Free
    /\ Finish(r, "JwksUnavailable")
    /\ UNCHANGED <<clockVars, cacheVars, cacheLock, lastLock, token, body, lastStart>>

(* Discovery or the fetch failed: answer from whatever keys are cached. *)
ServeStale(r) ==
    /\ pc[r] = "stale"
    /\ cacheLock = Free
    /\ Finish(r, Verdict(keys, token[r]))
    /\ UNCHANGED <<clockVars, cacheVars, cacheLock, lastLock, token, body, lastStart>>

(* The caller goes away: the future is dropped at an await, and with it    *)
(* every guard it holds (tokio releases them; external).                   *)
Cancel(r) ==
    /\ pc[r] \notin {"idle", "done"}
    /\ pc' = [pc EXCEPT ![r] = "idle"]
    /\ gate' = IF gate = r THEN Free ELSE gate
    /\ cacheLock' = IF cacheLock = r THEN Free ELSE cacheLock
    /\ lastLock' = IF lastLock = r THEN Free ELSE lastLock
    /\ body' = [body EXCEPT ![r] = {}]
    /\ UNCHANGED <<clockVars, cacheVars, token, answer, lastStart>>

(* The environment: time passes, the identity provider changes its keys. *)
Tick ==
    /\ now < MaxTime
    /\ now' = now + 1
    /\ UNCHANGED <<published, cacheVars, locks, reqVars, lastStart>>

Publish(ks) ==
    /\ published' = ks
    /\ UNCHANGED <<now, cacheVars, locks, reqVars, lastStart>>

----------------------------------------------------------------------------
Local(r) ==
    \/ Probe(r) \/ Recheck(r) \/ GetJwksUri(r) \/ Limit(r) \/ Limited(r)
    \/ StoreKeys(r) \/ MarkRefetch(r) \/ ServeStale(r)

Network(r) ==
    Discover(r) \/ DiscoveryFails(r) \/ FetchJwks(r) \/ FetchFails(r)

Next ==
    \/ \E r \in Requests :
          \/ \E t \in Tokens : Arrive(r, t)
          \/ Local(r) \/ AcquireGate(r) \/ Network(r) \/ Cancel(r)
    \/ Tick
    \/ \E ks \in KeySets : Publish(ks)

Spec == Init /\ [][Next]_vars

(* Tasks are scheduled, and a tokio mutex serves its waiters in order, so  *)
(* a step that waits for a lock is taken if the lock keeps becoming free.  *)
(* The HTTP client of http_client() has no timeout: nothing in the code    *)
(* makes a network step happen.                                            *)
TaskFairness ==
    \A r \in Requests : SF_vars(Local(r)) /\ SF_vars(AcquireGate(r))

FairSpec == Spec /\ TaskFairness

(* The same with an identity provider that answers, well or badly. *)
AnsweringSpec == FairSpec /\ \A r \in Requests : WF_vars(Network(r))

----------------------------------------------------------------------------
(* The request is between the gate and its answer. *)
InGate(r) == pc[r] \in {"recheck", "uri", "limit", "limited", "fetch", "store", "mark", "stale"}

(* ADR 0070, single flight: at most one JWKS fetch is in flight.           *)
SingleFlight ==
    \A r, s \in Requests : pc[r] \in {"fetch", "store"} /\ pc[s] \in {"fetch", "store"} => r = s

(* What makes SingleFlight inductive: only the holder of refetch_gate is   *)
(* past it, and the two inner locks are held exactly in the two windows    *)
(* that hold one while waiting for the other.                              *)
GateInv ==
    /\ \A r \in Requests : InGate(r) <=> gate = r
    /\ \A r \in Requests : pc[r] = "mark" <=> cacheLock = r
    /\ \A r \in Requests : pc[r] = "limited" <=> lastLock = r

(* Between the second look at the cache and the store, the cache still     *)
(* cannot answer, and past the rate limit the limit stays satisfied: only  *)
(* the holder of the gate changes either, and the clock only helps.        *)
RefetchInv ==
    \A r \in Requests :
        /\ pc[r] \in {"uri", "limit", "limited", "fetch", "store"} => ~CacheAnswers(r)
        /\ pc[r] \in {"fetch", "store"} => ~TooEarly

(* The inductive invariant of the proofs, checked by TLC as well: who may  *)
(* be past refetch_gate, and what stays true of the cache meanwhile.       *)
IInv == GateInv /\ RefetchInv

(* get_decoding_keys takes jwks_cache inside last_forced_refetch on one    *)
(* path and last_forced_refetch inside jwks_cache on the other.  The gate  *)
(* keeps the two orders from meeting: a task that holds one of them never  *)
(* waits for a task that holds the other.                                  *)
NoLockCycle ==
    ~\E r, s \in Requests : /\ pc[r] = "mark" /\ lastLock = s
                            /\ pc[s] = "limited" /\ cacheLock = r

(* A fetch is in flight only for a kid the cache could not answer: a       *)
(* request that waited at the gate behind another's fetch shares its       *)
(* result instead of fetching again.                                       *)
NoRedundantFetch ==
    \A r \in Requests : pc[r] \in {"fetch", "store"} => ~CacheAnswers(r)

(* Requests share one fetch: one is in flight at a time and only for a     *)
(* key the cache does not have, with the locks held as IInv says and no    *)
(* cycle of waits among them (refetch_gate and the second look at the      *)
(* cache in get_decoding_keys).                                            *)
FetchesAreShared == TypeOK /\ IInv /\ SingleFlight /\ NoLockCycle /\ NoRedundantFetch

(* Keys are stored at least min_refetch_interval after the refetch on      *)
(* record, however many requests raced to the rate limit.                  *)
StoresAreSpaced ==
    [][fetchedAt' # fetchedAt /\ lastRefetch # Never
         => fetchedAt' - lastRefetch >= MinRefetch]_vars

(* README of cli-framework-oidc: 503 only when no keys were ever fetched.  *)
(* A request that is told the JWKS is unavailable read an empty cache that *)
(* had never been filled.  (The provider publishes at least one usable key *)
(* in the passing run.)                                                    *)
Answers503(r) == answer[r] # "JwksUnavailable" /\ answer'[r] = "JwksUnavailable"
UnavailableOnlyBeforeFirstFetch ==
    [][\A r \in Requests : Answers503(r) => fetchedAt = Never]_vars

(* Every request that is not abandoned is answered. *)
EveryRequestAnswered ==
    \A r \in Requests : pc[r] = "probe" ~> pc[r] \in {"done", "idle"}

----------------------------------------------------------------------------
(* What the documents say and the code does not do.                        *)

(* ADR 0070: "at most one fetch occurs per min_refetch_interval".          *)
FetchesAreSpaced ==
    [][(\E r \in Requests : pc[r] = "limit" /\ pc'[r] = "fetch") /\ lastStart # Never
         => now - lastStart >= MinRefetch]_vars

(* ADR 0069: "on JWT signature validation failure with cached keys, JWKS   *)
(* is refetched once before returning 401".                                *)
SignatureFailureRefetches ==
    [][\A r \in Requests :
          pc[r] \in {"probe", "recheck"} /\ pc'[r] = "done"
            => answer'[r] # "InvalidSignature"]_vars
=============================================================================
