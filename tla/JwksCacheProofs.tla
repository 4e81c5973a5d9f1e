-------------------------- MODULE JwksCacheProofs --------------------------
(***************************************************************************)
(* Proofs about the verification-key cache: for any number of concurrent   *)
(* requests, any tokens and any key sets.                                  *)
(***************************************************************************)
EXTENDS JwksCache, TLAPS

LEMMA NeverIsInt == Never \in Int /\ Never \notin Nat
  BY DEF Never

LEMMA VerdictType ==
  ASSUME NEW all, NEW t
  PROVE  Verdict(all, t) \in Answers
  BY DEF Verdict, Answers, Rejections

(* Every variable keeps its type. *)
THEOREM TypeCorrect == Spec => []TypeOK
<1>1. Init => TypeOK
  BY ClockAssumption, TokenAssumption DEF Init, TypeOK, Steps, Answers, Keys, Never
<1>2. TypeOK /\ [Next]_vars => TypeOK'
  <2> SUFFICES ASSUME TypeOK, [Next]_vars PROVE TypeOK'
    OBVIOUS
  <2> USE DEF TypeOK
  <2>1. ASSUME NEW r \in Requests, NEW t \in Tokens, Arrive(r, t) PROVE TypeOK'
    BY <2>1, TokenAssumption DEF Arrive, Steps, Answers, clockVars, cacheVars, locks
  <2>2. ASSUME NEW r \in Requests, Local(r) PROVE TypeOK'
    <3>1. CASE Probe(r)
      BY <3>1, VerdictType DEF Probe, Finish, Goto, Steps, clockVars, cacheVars
    <3>2. CASE Recheck(r)
      BY <3>2, VerdictType DEF Recheck, Finish, Goto, Steps, clockVars, cacheVars
    <3>3. CASE GetJwksUri(r)
      BY <3>3 DEF GetJwksUri, Goto, Steps, clockVars, cacheVars, locks
    <3>4. CASE Limit(r)
      BY <3>4 DEF Limit, Goto, Steps, clockVars, cacheVars
    <3>5. CASE Limited(r)
      BY <3>5, VerdictType DEF Limited, Finish, Steps, clockVars, cacheVars
    <3>6. CASE StoreKeys(r)
      BY <3>6 DEF StoreKeys, Goto, Steps, clockVars
    <3>7. CASE MarkRefetch(r)
      BY <3>7, VerdictType DEF MarkRefetch, Finish, Steps, clockVars
    <3>8. CASE ServeStale(r)
      BY <3>8, VerdictType DEF ServeStale, Finish, Steps, clockVars, cacheVars
    <3>9. QED
      BY <2>2, <3>1, <3>2, <3>3, <3>4, <3>5, <3>6, <3>7, <3>8 DEF Local
  <2>3. ASSUME NEW r \in Requests, AcquireGate(r) PROVE TypeOK'
    BY <2>3 DEF AcquireGate, Goto, Steps, clockVars, cacheVars
  <2>4. ASSUME NEW r \in Requests, Network(r) PROVE TypeOK'
    <3>1. published \subseteq Keys
      BY DEF Keys
    <3>2. CASE Discover(r)
      BY <3>2 DEF Discover, Goto, Steps, clockVars, locks
    <3>3. CASE DiscoveryFails(r)
      BY <3>3 DEF DiscoveryFails, Goto, Steps, clockVars, cacheVars, locks
    <3>4. CASE FetchJwks(r)
      BY <3>1, <3>4 DEF FetchJwks, Goto, Steps, clockVars, cacheVars, locks
    <3>5. CASE FetchFails(r)
      BY <3>5 DEF FetchFails, Goto, Steps, clockVars, cacheVars, locks
    <3>6. QED
      BY <2>4, <3>2, <3>3, <3>4, <3>5 DEF Network
  <2>5. ASSUME NEW r \in Requests, Cancel(r) PROVE TypeOK'
    BY <2>5 DEF Cancel, Steps, clockVars, cacheVars
  <2>6. CASE Tick
    BY <2>6 DEF Tick, cacheVars, locks, reqVars
  <2>7. ASSUME NEW ks \in KeySets, Publish(ks) PROVE TypeOK'
    BY <2>7 DEF Publish, cacheVars, locks, reqVars
  <2>8. CASE UNCHANGED vars
    BY <2>8 DEF vars, clockVars, cacheVars, locks, reqVars
  <2>9. QED
    BY <2>1, <2>2, <2>3, <2>4, <2>5, <2>6, <2>7, <2>8 DEF Next
<1>3. QED
  BY <1>1, <1>2, PTL DEF Spec

----------------------------------------------------------------------------
(* Only the holder of refetch_gate is past it. *)
LEMMA GateInductive ==
  ASSUME TypeOK, GateInv, [Next]_vars
  PROVE  GateInv'
<1> USE FreeAssumption DEF TypeOK, GateInv, InGate, Steps
<1>1. ASSUME NEW r \in Requests, NEW t \in Tokens, Arrive(r, t) PROVE GateInv'
  BY <1>1 DEF Arrive, locks
<1>2. ASSUME NEW r \in Requests, Local(r) PROVE GateInv'
  <2>1. CASE Probe(r)
    BY <2>1 DEF Probe, Finish, Goto
  <2>2. CASE Recheck(r)
    BY <2>2 DEF Recheck, Finish, Goto
  <2>3. CASE GetJwksUri(r)
    BY <2>3 DEF GetJwksUri, Goto, locks
  <2>4. CASE Limit(r)
    BY <2>4 DEF Limit, Goto
  <2>5. CASE Limited(r)
    BY <2>5 DEF Limited, Finish
  <2>6. CASE StoreKeys(r)
    BY <2>6 DEF StoreKeys, Goto
  <2>7. CASE MarkRefetch(r)
    BY <2>7 DEF MarkRefetch, Finish
  <2>8. CASE ServeStale(r)
    BY <2>8 DEF ServeStale, Finish
  <2>9. QED
    BY <1>2, <2>1, <2>2, <2>3, <2>4, <2>5, <2>6, <2>7, <2>8 DEF Local
<1>3. ASSUME NEW r \in Requests, AcquireGate(r) PROVE GateInv'
  BY <1>3 DEF AcquireGate, Goto
<1>4. ASSUME NEW r \in Requests, Network(r) PROVE GateInv'
  BY <1>4 DEF Network, Discover, DiscoveryFails, FetchJwks, FetchFails, Goto, locks
<1>5. ASSUME NEW r \in Requests, Cancel(r) PROVE GateInv'
  BY <1>5 DEF Cancel
<1>6. CASE Tick
  BY <1>6 DEF Tick, locks, reqVars
<1>7. ASSUME NEW ks \in KeySets, Publish(ks) PROVE GateInv'
  BY <1>7 DEF Publish, locks, reqVars
<1>8. CASE UNCHANGED vars
  BY <1>8 DEF vars, locks, reqVars
<1>9. QED
  BY <1>1, <1>2, <1>3, <1>4, <1>5, <1>6, <1>7, <1>8 DEF Next

(* The arithmetic of an expiry: what has not expired later had not before. *)
LEMMA ElapsedOnlyGrows ==
  ASSUME NEW m \in Int, NEW n \in Int, NEW since \in Int, NEW limit \in Int, n >= m
  PROVE  n - since < limit => m - since < limit
OBVIOUS

(* A step that leaves the cache, the refetch time and the request's token  *)
(* alone keeps what RefetchInv says of a request that stays where it is;   *)
(* the clock may only move forward.                                        *)
LEMMA CacheStaysBlind ==
  ASSUME TypeOK, NEW r \in Requests, now' \in Nat, now' >= now,
         UNCHANGED <<keys, fetchedAt, lastRefetch>>, token'[r] = token[r]
  PROVE  /\ ~CacheAnswers(r) => ~CacheAnswers(r)'
         /\ ~TooEarly => ~TooEarly'
<1>0. /\ now \in Int /\ now' \in Int /\ fetchedAt \in Int /\ lastRefetch \in Int
      /\ TTL \in Int /\ MinRefetch \in Int /\ now' >= now
      /\ fetchedAt' = fetchedAt /\ lastRefetch' = lastRefetch
  BY ClockAssumption DEF TypeOK, Never
<1>1. IsFresh' => IsFresh
  <2>1. now' - fetchedAt < TTL => now - fetchedAt < TTL
    BY <1>0, ElapsedOnlyGrows
  <2>2. QED
    BY <1>0, <2>1 DEF IsFresh
<1>2. Verdict(keys, token[r])' = Verdict(keys, token[r])
  BY DEF Verdict, Matching
<1>3. TooEarly' => TooEarly
  <2>1. now' - lastRefetch < MinRefetch => now - lastRefetch < MinRefetch
    BY <1>0, ElapsedOnlyGrows
  <2>2. QED
    BY <1>0, <2>1 DEF TooEarly
<1>4. QED
  BY <1>1, <1>2, <1>3 DEF CacheAnswers

LEMMA RefetchInductive ==
  ASSUME TypeOK, GateInv, RefetchInv, [Next]_vars
  PROVE  RefetchInv'
<1> DEFINE Pre == {"uri", "limit", "limited", "fetch", "store"}
<1> DEFINE Out == {"fetch", "store"}
(* The steps of one request that leave the cache alone: the others stay    *)
(* where they are, and this one keeps or establishes its own part.         *)
<1>1. ASSUME now' \in Nat, now' >= now, UNCHANGED <<keys, fetchedAt, lastRefetch>>,
             \A s \in Requests :
                /\ pc'[s] \in Pre => token'[s] = token[s]
                /\ pc'[s] \in Pre => pc[s] \in Pre \/ ~CacheAnswers(s)
                /\ pc'[s] \in Out => pc[s] \in Out \/ ~TooEarly
      PROVE  RefetchInv'
  <2> SUFFICES ASSUME NEW s \in Requests
               PROVE  /\ pc'[s] \in Pre => ~CacheAnswers(s)'
                      /\ pc'[s] \in Out => ~TooEarly'
    BY DEF RefetchInv
  <2>1. CASE pc'[s] \in Pre
    BY <1>1, <2>1, CacheStaysBlind DEF RefetchInv
  <2>2. CASE pc'[s] \notin Pre
    BY <2>2
  <2>3. QED
    BY <2>1, <2>2
<1>2. ASSUME NEW r \in Requests, NEW t \in Tokens, Arrive(r, t) PROVE RefetchInv'
  BY <1>1, <1>2 DEF Arrive, TypeOK, clockVars, cacheVars
<1>3. ASSUME NEW r \in Requests, Local(r) PROVE RefetchInv'
  <2>1. CASE Probe(r)
    BY <1>1, <2>1 DEF Probe, Finish, Goto, TypeOK, clockVars, cacheVars
  <2>2. CASE Recheck(r)
    BY <1>1, <2>2 DEF Recheck, Finish, Goto, TypeOK, clockVars, cacheVars
  <2>3. CASE GetJwksUri(r)
    BY <1>1, <2>3 DEF GetJwksUri, Goto, TypeOK, clockVars, cacheVars
  <2>4. CASE Limit(r)
    BY <1>1, <2>4 DEF Limit, Goto, TypeOK, clockVars, cacheVars
  <2>5. CASE Limited(r)
    BY <1>1, <2>5 DEF Limited, Finish, TypeOK, clockVars, cacheVars
  <2>6. CASE StoreKeys(r)
    <3>1. \A s \in Requests : pc'[s] \notin Pre
      BY <2>6 DEF StoreKeys, Goto, TypeOK, GateInv, InGate
    <3>2. QED
      BY <3>1 DEF RefetchInv
  <2>7. CASE MarkRefetch(r)
    <3>1. \A s \in Requests : pc'[s] \notin Pre
      BY <2>7 DEF MarkRefetch, Finish, TypeOK, GateInv, InGate
    <3>2. QED
      BY <3>1 DEF RefetchInv
  <2>8. CASE ServeStale(r)
    BY <1>1, <2>8 DEF ServeStale, Finish, TypeOK, clockVars, cacheVars
  <2>9. QED
    BY <1>3, <2>1, <2>2, <2>3, <2>4, <2>5, <2>6, <2>7, <2>8 DEF Local
<1>4. ASSUME NEW r \in Requests, AcquireGate(r) PROVE RefetchInv'
  BY <1>1, <1>4 DEF AcquireGate, Goto, TypeOK, clockVars, cacheVars
<1>5. ASSUME NEW r \in Requests, Network(r) PROVE RefetchInv'
  BY <1>1, <1>5 DEF Network, Discover, DiscoveryFails, FetchJwks, FetchFails, Goto,
                    TypeOK, clockVars, cacheVars
<1>6. ASSUME NEW r \in Requests, Cancel(r) PROVE RefetchInv'
  BY <1>1, <1>6 DEF Cancel, TypeOK, clockVars, cacheVars
<1>7. CASE Tick
  BY <1>1, <1>7 DEF Tick, TypeOK, cacheVars, reqVars
<1>8. ASSUME NEW ks \in KeySets, Publish(ks) PROVE RefetchInv'
  BY <1>1, <1>8 DEF Publish, TypeOK, cacheVars, reqVars
<1>9. CASE UNCHANGED vars
  BY <1>1, <1>9 DEF vars, TypeOK, clockVars, cacheVars, reqVars
<1>10. QED
  BY <1>2, <1>3, <1>4, <1>5, <1>6, <1>7, <1>8, <1>9 DEF Next

(* IInv holds in every reachable state. *)
THEOREM InductiveInvariant == Spec => []IInv
<1>1. Init => IInv
  BY FreeAssumption DEF Init, IInv, GateInv, InGate, RefetchInv
<1>2. TypeOK /\ IInv /\ [Next]_vars => IInv'
  BY GateInductive, RefetchInductive DEF IInv
<1>3. QED
  BY <1>1, <1>2, TypeCorrect, PTL DEF Spec

(* ADR 0070, single flight: at most one JWKS fetch is in flight, whatever  *)
(* the number of requests.                                                 *)
THEOREM AtMostOneFetch == Spec => []SingleFlight
<1>1. IInv => SingleFlight
  BY DEF IInv, GateInv, InGate, SingleFlight
<1>2. QED
  BY <1>1, InductiveInvariant, PTL

(* The two opposite lock orders of get_decoding_keys never deadlock. *)
THEOREM LockOrdersNeverMeet == Spec => []NoLockCycle
<1>1. TypeOK /\ IInv => NoLockCycle
  BY FreeAssumption DEF IInv, GateInv, InGate, NoLockCycle, TypeOK
<1>2. QED
  BY <1>1, TypeCorrect, InductiveInvariant, PTL

(* A request waiting behind a fetch that brought its key does not fetch    *)
(* again.                                                                  *)
THEOREM WaitersShareTheFetch == Spec => []NoRedundantFetch
<1>1. IInv => NoRedundantFetch
  BY DEF IInv, RefetchInv, NoRedundantFetch
<1>2. QED
  BY <1>1, InductiveInvariant, PTL

(* All of it together: the requests share one fetch. *)
THEOREM RequestsShareFetches == Spec => []FetchesAreShared
BY TypeCorrect, InductiveInvariant, AtMostOneFetch, LockOrdersNeverMeet, WaitersShareTheFetch,
   PTL DEF FetchesAreShared

(* Keys are never stored within min_refetch_interval of the last recorded  *)
(* refetch.                                                                *)
THEOREM StoresKeepTheInterval == Spec => StoresAreSpaced
<1> DEFINE Spaced == fetchedAt' # fetchedAt /\ lastRefetch # Never
                       => fetchedAt' - lastRefetch >= MinRefetch
<1>1. TypeOK /\ IInv /\ [Next]_vars => [Spaced]_vars
  <2> SUFFICES ASSUME TypeOK, IInv, [Next]_vars, fetchedAt' # fetchedAt, lastRefetch # Never
               PROVE  fetchedAt' - lastRefetch >= MinRefetch
    OBVIOUS
  <2>1. PICK r \in Requests : StoreKeys(r)
    BY DEF Next, Arrive, Local, Probe, Recheck, GetJwksUri, Limit, Limited, MarkRefetch,
           ServeStale, AcquireGate, Network, Discover, DiscoveryFails, FetchJwks,
           FetchFails, Cancel, Tick, Publish, vars, clockVars, cacheVars
  <2>2. ~TooEarly
    BY <2>1 DEF StoreKeys, IInv, RefetchInv
  <2>3. QED
    BY <2>1, <2>2, ClockAssumption DEF StoreKeys, TooEarly, TypeOK, Never
<1>2. QED
  BY <1>1, TypeCorrect, InductiveInvariant, PTL DEF Spec, StoresAreSpaced

----------------------------------------------------------------------------
(* What is cached is never empty once it was filled, and neither is what a *)
(* fetch brings, as long as no key set of the provider is.                 *)
Filled == keys # {} \/ fetchedAt = Never
FilledInv ==
    /\ Filled
    /\ \A r \in Requests : pc[r] = "store" => body[r] # {}

LEMMA FilledInductive ==
  ASSUME {} \notin KeySets, TypeOK, FilledInv, [Next]_vars
  PROVE  FilledInv'
<1> USE DEF FilledInv, Filled
<1>1. ASSUME NEW r \in Requests, NEW t \in Tokens, Arrive(r, t) PROVE FilledInv'
  BY <1>1 DEF Arrive, TypeOK, clockVars, cacheVars
<1>2. ASSUME NEW r \in Requests, Local(r) PROVE FilledInv'
  <2>1. CASE Probe(r) \/ Recheck(r)
    BY <2>1 DEF Probe, Recheck, Finish, Goto, TypeOK, clockVars, cacheVars
  <2>2. CASE GetJwksUri(r) \/ Limit(r)
    BY <2>2 DEF GetJwksUri, Limit, Goto, TypeOK, clockVars, cacheVars
  <2>3. CASE Limited(r) \/ ServeStale(r)
    BY <2>3 DEF Limited, ServeStale, Finish, TypeOK, clockVars, cacheVars
  <2>4. CASE StoreKeys(r)
    BY <2>4 DEF StoreKeys, Goto, TypeOK
  <2>5. CASE MarkRefetch(r)
    BY <2>5 DEF MarkRefetch, Finish, TypeOK, clockVars
  <2>6. QED
    BY <1>2, <2>1, <2>2, <2>3, <2>4, <2>5 DEF Local
<1>3. ASSUME NEW r \in Requests, AcquireGate(r) PROVE FilledInv'
  BY <1>3 DEF AcquireGate, Goto, TypeOK, clockVars, cacheVars
<1>4. ASSUME NEW r \in Requests, Network(r) PROVE FilledInv'
  <2>1. CASE FetchJwks(r)
    <3>1. published # {}
      BY DEF TypeOK
    <3>2. QED
      BY <2>1, <3>1 DEF FetchJwks, Goto, TypeOK, clockVars, cacheVars
  <2>2. CASE Discover(r) \/ DiscoveryFails(r) \/ FetchFails(r)
    BY <2>2 DEF Discover, DiscoveryFails, FetchFails, Goto, TypeOK, clockVars, cacheVars
  <2>3. QED
    BY <1>4, <2>1, <2>2 DEF Network
<1>5. ASSUME NEW r \in Requests, Cancel(r) PROVE FilledInv'
  BY <1>5 DEF Cancel, TypeOK, clockVars, cacheVars
<1>6. CASE Tick \/ \E ks \in KeySets : Publish(ks)
  BY <1>6 DEF Tick, Publish, cacheVars, reqVars
<1>7. CASE UNCHANGED vars
  BY <1>7 DEF vars, cacheVars, reqVars
<1>8. QED
  BY <1>1, <1>2, <1>3, <1>4, <1>5, <1>6, <1>7 DEF Next

LEMMA KeysAnswer ==
  ASSUME NEW all, NEW t, Verdict(all, t) = "JwksUnavailable"
  PROVE  all = {}
  BY DEF Verdict

(* README of cli-framework-oidc: 503 only when no keys were ever fetched,  *)
(* for any number of requests and any outages of a provider whose key sets *)
(* have a key.                                                             *)
THEOREM OutageOnlyAtFirst ==
  ASSUME {} \notin KeySets
  PROVE  Spec => UnavailableOnlyBeforeFirstFetch
<1> DEFINE Early == \A r \in Requests : Answers503(r) => fetchedAt = Never
<1>1. Init => FilledInv
  BY DEF Init, FilledInv, Filled
<1>2. TypeOK /\ FilledInv /\ [Next]_vars => FilledInv'
  BY FilledInductive
<1>3. TypeOK /\ FilledInv /\ [Next]_vars => [Early]_vars
  <2> SUFFICES ASSUME TypeOK, FilledInv, Next, NEW r \in Requests, Answers503(r)
               PROVE  fetchedAt = Never
    OBVIOUS
  <2>1. PICK q \in Requests :
           \/ \E t \in Tokens : Arrive(q, t)
           \/ Local(q) \/ AcquireGate(q) \/ Network(q) \/ Cancel(q)
    BY DEF Next, Answers503, Tick, Publish, reqVars
  <2>2. ASSUME NEW t \in Tokens, Arrive(q, t) PROVE FALSE
    BY <2>2, TokenAssumption DEF Arrive, Answers503, Rejections, TypeOK
  <2>3. CASE AcquireGate(q) \/ Network(q) \/ Cancel(q)
    BY <2>3 DEF AcquireGate, Network, Discover, DiscoveryFails, FetchJwks, FetchFails, Cancel,
                Goto, Answers503
  <2>4. CASE Local(q)
    <3>1. CASE GetJwksUri(q) \/ Limit(q) \/ StoreKeys(q)
      BY <3>1 DEF GetJwksUri, Limit, StoreKeys, Goto, Answers503
    <3>2. CASE Probe(q) \/ Recheck(q) \/ Limited(q) \/ MarkRefetch(q) \/ ServeStale(q)
      <4>1. Goto(q, "gate") \/ Goto(q, "uri") \/ Finish(q, Verdict(keys, token[q]))
        BY <3>2 DEF Probe, Recheck, Limited, MarkRefetch, ServeStale
      <4>2. Finish(q, Verdict(keys, token[q]))
        BY <4>1 DEF Goto, Answers503
      <4>3. Verdict(keys, token[q]) = "JwksUnavailable"
        BY <4>2 DEF Finish, Answers503, TypeOK
      <4>4. QED
        BY <4>3, KeysAnswer DEF FilledInv, Filled
    <3>3. QED
      BY <2>4, <3>1, <3>2 DEF Local
  <2>5. QED
    BY <2>1, <2>2, <2>3, <2>4
<1>4. QED
  BY <1>1, <1>2, <1>3, TypeCorrect, PTL DEF Spec, UnavailableOnlyBeforeFirstFetch
=============================================================================
