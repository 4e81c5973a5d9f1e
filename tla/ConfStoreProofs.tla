-------------------------- MODULE ConfStoreProofs ---------------------------
(***************************************************************************)
(* Proofs about the configuration around the administrative API: for any   *)
(* number of replicas with any migrations, and any number of writers of a  *)
(* user's document with any number of repetitions.                         *)
(***************************************************************************)
EXTENDS ConfStore, FiniteSetTheorems, TLAPS

-----------------------------------------------------------------------------
(* The migrations.                                                         *)

HoldsLock == {"read", "apply", "ahead", "gap", "failed"}
MigrationSteps == HoldsLock \cup {"lock", "serving", "refused", "gap_refused", "start_failed"}

(* The schema is always a prefix of the versions in order; whoever is past *)
(* the lock holds it; and what the holder has read is still the version.   *)
MigrationsInv ==
  /\ schema \in Seq(Nat)
  /\ \A i \in DOMAIN schema : schema[i] = i
  /\ advisory \in Replicas \cup {NoSession}
  /\ replica \in [Replicas -> [pc : MigrationSteps, current : Nat]]
  /\ \A r \in Replicas :
       /\ replica[r].pc \in HoldsLock <=> advisory = r
       /\ replica[r].pc = "apply" => replica[r].current = Len(schema)
       /\ replica[r].pc \notin {"failed", "start_failed"}
       /\ replica[r].pc = "serving" => \A v \in Known[r] : v <= Len(schema)

LEMMA HighestIs ==
  ASSUME NEW S \in SUBSET Nat, NEW m \in S, \A v \in S : v <= m
  PROVE  Highest(S) = m
<1> DEFINE P(x) == x \in S /\ \A w \in S : w <= x
<1>1. P(m)
  OBVIOUS
<1>2. \A x : P(x) => x = m
  <2> SUFFICES ASSUME NEW x, P(x) PROVE x = m
    OBVIOUS
  <2>1. x \in Nat /\ m \in Nat /\ x <= m /\ m <= x
    OBVIOUS
  <2> QED
    BY <2>1
<1>3. Highest(S) = CHOOSE v \in S : \A w \in S : w <= v
  BY DEF Highest
<1>4. P(CHOOSE v \in S : \A w \in S : w <= v)
  BY <1>1
<1> QED
  BY <1>2, <1>3, <1>4

(* The version of a schema without gaps is the number of its rows. *)
LEMMA CurrentVersionIsLen ==
  ASSUME schema \in Seq(Nat), \A i \in DOMAIN schema : schema[i] = i
  PROVE  current_version = Len(schema)
<1> DEFINE S == {schema[i] : i \in DOMAIN schema}
<1>1. DOMAIN schema = 1 .. Len(schema) /\ Len(schema) \in Nat
  OBVIOUS
<1>2. S = 1 .. Len(schema)
  BY <1>1
<1>3. CASE Len(schema) = 0
  <2>1. S = {}
    BY <1>2, <1>3
  <2> QED
    BY <2>1, <1>3 DEF current_version, Highest
<1>4. CASE Len(schema) # 0
  <2>1. S \in SUBSET Nat /\ Len(schema) \in S /\ \A v \in S : v <= Len(schema)
    BY <1>1, <1>2, <1>4
  <2>2. Highest(S) = Len(schema)
    BY <2>1, HighestIs
  <2> QED
    BY <2>2 DEF current_version
<1> QED
  BY <1>3, <1>4

LEMMA MigrationsStep ==
  ASSUME MigrationsInv, MigrationsNext
  PROVE  MigrationsInv'
<1> USE DEF MigrationsInv, MigrationSteps, HoldsLock
<1>1. PICK r \in Replicas : pg_advisory_lock(r) \/ ReadVersion(r) \/ Apply(r) \/ pg_advisory_unlock(r) \/ Break(r)
  BY DEF MigrationsNext
<1>2. NoSession # r
  BY SessionAssumption
<1>3. current_version = Len(schema) /\ Len(schema) \in Nat
  BY CurrentVersionIsLen
<1>4. CASE pg_advisory_lock(r)
  BY <1>2, <1>4, SessionAssumption DEF pg_advisory_lock, AtMigration, Go
<1>5. CASE ReadVersion(r)
  BY <1>3, <1>5 DEF ReadVersion, AtMigration
<1>6. CASE Apply(r)
  <2> DEFINE v == CHOOSE w \in Missing(r) : \A x \in Missing(r) : w <= x
  <2>1. /\ replica[r].pc = "apply" /\ advisory = r /\ replica[r].current = Len(schema)
        /\ UNCHANGED <<advisory, breaks>>
    BY <1>6 DEF Apply, AtMigration
  <2>2. \/ Go(r, "gap") /\ UNCHANGED schema
        \/ /\ v = Len(schema) + 1
           /\ \/ (\E i \in DOMAIN schema : schema[i] = v) /\ Go(r, "failed") /\ UNCHANGED schema
              \/ schema' = Append(schema, v) /\ replica' = [replica EXCEPT ![r].current = v]
    BY <1>6, <2>1 DEF Apply
  <2>3. CASE Go(r, "gap") /\ UNCHANGED schema
    BY <2>1, <2>3 DEF Go
  <2>4. ASSUME v = Len(schema) + 1, \E i \in DOMAIN schema : schema[i] = v PROVE FALSE
    <3> HIDE DEF v
    <3>1. PICK i \in 1 .. Len(schema) : schema[i] = v
      BY <2>4
    <3> QED
      BY <2>4, <3>1, <1>3
  <2>5. CASE v = Len(schema) + 1 /\ schema' = Append(schema, v) /\ replica' = [replica EXCEPT ![r].current = v]
    <3> HIDE DEF v
    <3>1. /\ schema' \in Seq(Nat) /\ Len(schema') = Len(schema) + 1 /\ DOMAIN schema' = 1 .. Len(schema) + 1
          /\ \A i \in DOMAIN schema' : schema'[i] = i
      BY <1>3, <2>5
    <3>2. \A s \in Replicas \ {r} : replica'[s] = replica[s] /\ replica[s].pc # "apply"
      BY <2>1, <2>5
    <3>3. replica'[r] = [pc |-> "apply", current |-> v]
      BY <2>1, <2>5
    <3>4. \A s \in Replicas : replica[s].pc = "serving" => \A x \in Known[s] : x <= Len(schema')
      BY <3>1, <1>3, KnownAssumption
    <3>5. replica' \in [Replicas -> [pc : MigrationSteps, current : Nat]]
      BY <2>5, <1>3, <3>3
    <3> QED
      BY <2>1, <2>5, <3>1, <3>2, <3>3, <3>4, <3>5
  <2> QED
    BY <2>2, <2>3, <2>4, <2>5
<1>7. CASE pg_advisory_unlock(r)
  <2>1. CASE AtMigration(r, "apply") /\ Missing(r) = {} /\ Go(r, "serving")
    <3>1. \A x \in Known[r] : x <= Len(schema)
      BY <2>1, <1>3, KnownAssumption DEF Missing, AtMigration
    <3> QED
      BY <1>2, <1>7, <2>1, <3>1, SessionAssumption DEF pg_advisory_unlock, AtMigration, Go
  <2>2. CASE replica[r].pc \in {"ahead", "gap"} /\ \E pc \in {"refused", "gap_refused"} : Go(r, pc)
    BY <1>2, <1>7, <2>2, SessionAssumption DEF pg_advisory_unlock, Go
  <2> QED
    BY <1>7, <2>1, <2>2 DEF pg_advisory_unlock
<1>8. CASE Break(r)
  BY <1>2, <1>8, SessionAssumption DEF Break
<1> QED
  BY <1>1, <1>4, <1>5, <1>6, <1>7, <1>8

(* What the invariant means for a replica that runs. *)
LEMMA MigrationsInvSuffices == MigrationsInv => MigrationsApplyOnce
<1> SUFFICES ASSUME MigrationsInv PROVE MigrationsApplyOnce
  OBVIOUS
<1> USE DEF MigrationsInv
<1>1. current_version = Len(schema) /\ Len(schema) \in Nat
  BY CurrentVersionIsLen
<1>2. ASSUME NEW r \in Replicas, replica[r].pc = "serving" PROVE current_version >= Highest(Known[r])
  <2>1. CASE Known[r] = {}
    BY <1>1, <2>1 DEF Highest
  <2>2. ASSUME NEW top \in Known[r], \A v \in Known[r] : v <= top PROVE current_version >= Highest(Known[r])
    <3>1. Known[r] \in SUBSET Nat
      BY KnownAssumption
    <3>2. Highest(Known[r]) = top
      BY <2>2, <3>1, HighestIs
    <3> QED
      BY <1>1, <1>2, <3>1, <3>2
  <2> QED
    BY <2>1, <2>2, KnownAssumption
<1> QED
  BY <1>2 DEF MigrationsApplyOnce

(* Replicas of different binaries that start at once, and start again after *)
(* a broken connection, apply every migration once and in order            *)
(* (run_migrations, run_migrations_with): for any number of replicas and   *)
(* any lists of migrations, with gaps or without.                          *)
THEOREM MigrationsCorrect == Spec => []MigrationsApplyOnce
<1>1. Init => MigrationsInv
  <2> SUFFICES ASSUME MigrationsInit PROVE MigrationsInv
    BY DEF Init
  <2>1. schema \in Seq(Nat) /\ \A i \in DOMAIN schema : schema[i] = i
    <3>1. CASE schema = <<>>
      BY <3>1
    <3>2. CASE schema = <<1>>
      <4>1. <<1>> \in Seq(Nat) /\ DOMAIN <<1>> = {1} /\ <<1>>[1] = 1
        OBVIOUS
      <4> QED
        BY <3>2, <4>1
    <3> QED
      BY <3>1, <3>2 DEF MigrationsInit
  <2> QED
    BY <2>1, SessionAssumption DEF MigrationsInit, MigrationsInv, MigrationSteps, HoldsLock
<1>2. MigrationsInv /\ [Next]_vars => MigrationsInv'
  <2>1. ASSUME MigrationsInv, UNCHANGED migrations PROVE MigrationsInv'
    BY <2>1 DEF MigrationsInv, migrations
  <2> QED
    BY <2>1, MigrationsStep DEF Next, vars
<1> QED
  BY <1>1, <1>2, MigrationsInvSuffices, PTL DEF Spec

-----------------------------------------------------------------------------
(* The roaming document.                                                   *)

AttemptStates == {"none", "sent", "insert", "update", "over"} \cup Statuses
CallSteps == {"idle", "have", "again", "waiting", "done"}
Call == [pc : CallSteps, etag : Nat, n : Nat, tries : Nat, round : {1, 2},
         result : {"nothing", "Ok", "Conflict", "Failed"}]

RoamingTypes ==
  /\ table \in [version : Nat, doc : Writes \cup {None}]
  /\ holder \in {None} \cup (Writes \X Tries)
  /\ attempt \in [Writes -> [Tries -> AttemptStates]]
  /\ call \in [Writes -> Call]
  /\ stored \in SUBSET Writes
  /\ backend \in {"postgres", "memory"}

(* The client's side: how often it has tried, by round; what it has been   *)
(* told it has been told once.                                             *)
CallInv(w) ==
  /\ call[w].tries <= MaxAttempts + 1
  /\ call[w].pc \in {"idle", "have", "again"} => call[w].tries <= MaxAttempts
  /\ call[w].n <= IF call[w].round = 1 THEN call[w].tries ELSE call[w].tries + MaxAttempts + 1
  /\ call[w].pc \in {"idle", "have"} <=> call[w].n = 0
  /\ call[w].pc = "done" <=> call[w].result # "nothing"
  /\ call[w].pc # "idle" => call[w].etag <= table.version
  /\ call[w].result = "Ok" => w \in stored
  /\ call[w].result = "Conflict" => table.version > call[w].etag
  /\ w \in stored => call[w].n > 0 /\ table.version > call[w].etag

(* The service's side: no attempt is ahead of the client; only the holder  *)
(* of the row is about to write it, and from the version it compared; what *)
(* is on its way as an answer is so, and stays so.                         *)
AttemptInv(w, n) ==
  /\ n > call[w].n => attempt[w][n] = "none"
  /\ attempt[w][n] = "update" <=> holder = <<w, n>>
  /\ attempt[w][n] = "update" => table.version = call[w].etag
  /\ attempt[w][n] = "insert" => call[w].etag = 0
  /\ backend = "memory" => attempt[w][n] \notin {"insert", "update"}
  /\ attempt[w][n] = "200" => w \in stored
  /\ attempt[w][n] = "412" => table.version > call[w].etag

(* With one attempt, a write that is not through did not take effect. *)
OnceInv(w) ==
  /\ call[w].n = 1 /\ attempt[w][1] \in {"sent", "insert", "update", "412"} => w \notin stored
  /\ call[w].n = 1 /\ call[w].result = "Conflict" => attempt[w][1] = "over" /\ w \notin stored

RoamingInv ==
  /\ RoamingTypes
  /\ table.version <= 1 + Cardinality(stored)
  /\ \A w \in Writes : CallInv(w) /\ OnceInv(w) /\ \A n \in Tries : AttemptInv(w, n)

LEMMA TriesType == Tries \subseteq Nat \ {0} /\ 1 \in Tries
  BY MaxAttemptsAssumption DEF Tries

LEMMA RoamingStart == RoamingInit => RoamingInv
<1> SUFFICES ASSUME RoamingInit PROVE RoamingInv
  OBVIOUS
<1>1. Cardinality({}) = 0
  BY FS_EmptySet
<1>2. RoamingTypes
  BY DEF RoamingInit, RoamingTypes, Call, CallSteps, AttemptStates
<1>3. table.version <= 1 + Cardinality(stored)
  BY <1>1 DEF RoamingInit
<1>4. ASSUME NEW w \in Writes PROVE CallInv(w) /\ OnceInv(w)
  BY MaxAttemptsAssumption, TriesType DEF RoamingInit, CallInv, OnceInv
<1>5. ASSUME NEW w \in Writes, NEW n \in Tries PROVE AttemptInv(w, n)
  BY WritesAssumption DEF RoamingInit, AttemptInv
<1> QED
  BY <1>2, <1>3, <1>4, <1>5 DEF RoamingInv

(* The row changes only when a write is stored from the version it has. *)
LEMMA StoreCounts ==
  ASSUME RoamingInv, NEW w \in Writes, Store(w), table.version = call[w].etag
  PROVE  /\ w \notin stored
         /\ table' = [version |-> table.version + 1, doc |-> w]
         /\ stored' \in SUBSET Writes
         /\ table'.version <= 1 + Cardinality(stored')
<1> USE DEF RoamingInv, RoamingTypes
<1>1. w \notin stored
  BY DEF CallInv, Call
<1>2. IsFiniteSet(stored)
  BY WritesAssumption, FS_Subset
<1>3. Cardinality(stored') = Cardinality(stored) + 1 /\ Cardinality(stored) \in Nat
  BY <1>1, <1>2, FS_AddElement, FS_CardinalityType DEF Store
<1> QED
  BY <1>1, <1>3 DEF Store

LEMMA SetEffect ==
  ASSUME RoamingTypes, NEW w \in Writes, NEW n \in Tries, NEW st \in AttemptStates, Set(w, n, st)
  PROVE  /\ attempt' \in [Writes -> [Tries -> AttemptStates]]
         /\ attempt'[w][n] \in {st, "over"}
         /\ st \notin Statuses => attempt'[w][n] = st
         /\ \A u \in Writes, m \in Tries : u # w \/ m # n => attempt'[u][m] = attempt[u][m]
  BY DEF RoamingTypes, Set, AttemptStates, Statuses

LEMMA RetryBound ==
  ASSUME RoamingInv, NEW w \in Writes, call[w].pc \in {"have", "again"}
  PROVE  call[w].n + 1 \in Tries
<1>1. call[w] \in Call /\ CallInv(w)
  BY DEF RoamingInv, RoamingTypes
<1> QED
  BY <1>1, MaxAttemptsAssumption DEF CallInv, Call, Tries

(* What becomes of a call whose attempt ended. *)
LEMMA AfterEffect ==
  ASSUME NEW c \in Call, c.pc = "waiting", c.result = "nothing", NEW status \in Statuses \cup {"timeout"}
  PROVE  /\ After(c, status) \in Call
         /\ After(c, status).etag = c.etag /\ After(c, status).n = c.n
         /\ \/ /\ After(c, status).pc = "again" /\ After(c, status).result = "nothing"
               /\ \/ /\ After(c, status).tries = c.tries /\ After(c, status).round = c.round
                     /\ c.tries <= MaxAttempts
                  \/ After(c, status).tries = 0 /\ After(c, status).round = 2 /\ c.round = 1
            \/ /\ After(c, status).pc = "done"
               /\ After(c, status).tries = c.tries /\ After(c, status).round = c.round
               /\ After(c, status).result =
                    CASE status = "200" -> "Ok" [] status = "412" -> "Conflict" [] OTHER -> "Failed"
<1>1. CASE status = "200"
  <2>1. After(c, status) = [c EXCEPT !.pc = "done", !.result = "Ok"]
    BY <1>1 DEF After, is_retryable_http_error
  <2> QED
    BY <1>1, <2>1 DEF Call, CallSteps
<1>2. CASE status # "200" /\ is_retryable_http_error(status) /\ c.tries <= MaxAttempts
  <2>1. After(c, status) = [c EXCEPT !.pc = "again"]
    BY <1>2 DEF After, is_retryable_http_error
  <2> QED
    BY <1>2, <2>1 DEF Call, CallSteps
<1>3. CASE status # "200" /\ ~(is_retryable_http_error(status) /\ c.tries <= MaxAttempts)
  <2>1. CASE status = "401" /\ c.round = 1
    <3>1. After(c, status) = [c EXCEPT !.pc = "again", !.round = 2, !.tries = 0]
      BY <1>3, <2>1 DEF After, is_retryable_http_error
    <3>2. After(c, status) = [pc |-> "again", etag |-> c.etag, n |-> c.n, tries |-> 0, round |-> 2,
                              result |-> c.result]
      BY <3>1 DEF Call
    <3>3. After(c, status) \in Call
      BY <3>2 DEF Call, CallSteps
    <3> QED
      BY <2>1, <3>2, <3>3
  <2>2. CASE ~(status = "401" /\ c.round = 1)
    <3>1. After(c, status) = [c EXCEPT !.pc = "done", !.result = classify_put_error(status)]
      BY <1>3, <2>2 DEF After
    <3> QED
      BY <1>3, <3>1 DEF Call, CallSteps, classify_put_error
  <2> QED
    BY <2>1, <2>2
<1> QED
  BY <1>1, <1>2, <1>3

LEMMA RoamingGet ==
  ASSUME RoamingInv, NEW w \in Writes, get(w)
  PROVE  RoamingInv'
<1> USE DEF RoamingInv
<1>1. /\ call' = [call EXCEPT ![w].pc = "have", ![w].etag = table.version]
      /\ UNCHANGED <<table, holder, attempt, stored, backend>>
      /\ call[w].pc = "idle" /\ call[w].n = 0 /\ call[w] \in Call
  BY DEF get, CallInv, RoamingTypes
<1>2. RoamingTypes'
  BY <1>1 DEF RoamingTypes, Call, CallSteps
<1>3. ASSUME NEW u \in Writes PROVE CallInv(u)' /\ OnceInv(u)'
  BY <1>1 DEF RoamingTypes, Call, CallInv, OnceInv
<1>4. ASSUME NEW u \in Writes, NEW m \in Tries PROVE AttemptInv(u, m)'
  <2>1. CASE u = w
    <3>1. AttemptInv(w, m) /\ m > call[w].n
      BY <1>1, TriesType
    <3> QED
      BY <1>1, <2>1, <3>1 DEF AttemptInv, RoamingTypes, Call
  <2>2. CASE u # w
    <3>1. AttemptInv(u, m) /\ call'[u] = call[u]
      BY <1>1, <2>2 DEF RoamingTypes
    <3> QED
      BY <1>1, <2>2, <3>1 DEF AttemptInv
  <2> QED
    BY <2>1, <2>2
<1> QED
  BY <1>1, <1>2, <1>3, <1>4

LEMMA RoamingPut ==
  ASSUME RoamingInv, NEW w \in Writes, put(w)
  PROVE  RoamingInv'
<1> USE DEF RoamingInv
<1> DEFINE n == call[w].n + 1
<1>1. /\ call' = [call EXCEPT ![w].pc = "waiting", ![w].n = @ + 1, ![w].tries = @ + 1]
      /\ Set(w, n, "sent")
      /\ UNCHANGED <<table, holder, stored, backend>>
      /\ call[w].pc \in {"have", "again"} /\ call[w] \in Call /\ n \in Tries
  BY RetryBound DEF put, CallInv, RoamingTypes
<1>2. /\ attempt' \in [Writes -> [Tries -> AttemptStates]]
      /\ attempt'[w][n] = "sent"
      /\ \A u \in Writes, m \in Tries : u # w \/ m # n => attempt'[u][m] = attempt[u][m]
  BY <1>1, SetEffect DEF AttemptStates, Statuses
<1>3. /\ call'[w].pc = "waiting" /\ call'[w].n = n /\ call'[w].tries = call[w].tries + 1
      /\ call'[w].etag = call[w].etag /\ call'[w].round = call[w].round /\ call'[w].result = call[w].result
      /\ \A u \in Writes \ {w} : call'[u] = call[u]
      /\ n \in Nat /\ call[w].n \in Nat /\ call[w].tries \in Nat
  BY <1>1 DEF RoamingTypes, Call
<1>4. RoamingTypes'
  <2>1. \A c \in Call : [c EXCEPT !.pc = "waiting", !.n = @ + 1, !.tries = @ + 1] \in Call
    <3> SUFFICES ASSUME NEW c \in Call
                 PROVE  [c EXCEPT !.pc = "waiting", !.n = @ + 1, !.tries = @ + 1] \in Call
      OBVIOUS
    <3>1. \A k, t \in Nat : [c EXCEPT !.pc = "waiting", !.n = k, !.tries = t] \in Call
      BY DEF Call, CallSteps
    <3>2. c.n + 1 \in Nat /\ c.tries + 1 \in Nat
      BY DEF Call
    <3>3. [c EXCEPT !.pc = "waiting", !.n = c.n + 1, !.tries = c.tries + 1] \in Call
      BY <3>1, <3>2
    <3> QED
      BY <3>3, Zenon
  <2>2. call' \in [Writes -> Call]
    BY <1>1, <2>1 DEF RoamingTypes
  <2> QED
    BY <1>1, <1>2, <2>2 DEF RoamingTypes
<1>5. ASSUME NEW u \in Writes PROVE CallInv(u)'
  <2>1. CASE u = w
    BY <1>1, <1>3, <2>1, MaxAttemptsAssumption DEF CallInv
  <2>2. CASE u # w
    <3>1. CallInv(u) /\ call'[u] = call[u]
      BY <1>3, <2>2
    <3> QED
      BY <1>1, <3>1 DEF CallInv
  <2> QED
    BY <2>1, <2>2
<1>6. ASSUME NEW u \in Writes PROVE OnceInv(u)'
  <2>1. CASE u = w
    <3>1. ASSUME call'[w].n = 1 PROVE w \notin stored /\ call[w].result = "nothing"
      BY <1>1, <1>3, <3>1 DEF CallInv
    <3> QED
      BY <1>1, <1>3, <2>1, <3>1 DEF OnceInv
  <2>2. CASE u # w
    BY <1>1, <1>2, <1>3, <2>2, TriesType, ZenonT(60) DEF OnceInv
  <2> QED
    BY <2>1, <2>2
<1>7. ASSUME NEW u \in Writes, NEW m \in Tries PROVE AttemptInv(u, m)'
  <2>1. AttemptInv(u, m) /\ AttemptInv(w, n)
    BY <1>1
  <2>2. CASE u = w /\ m = n
    <3>1. attempt[w][n] = "none"
      BY <1>3, <2>1 DEF AttemptInv
    <3> QED
      BY <1>1, <1>2, <1>3, <2>1, <2>2, <3>1 DEF AttemptInv
  <2>3. CASE u = w /\ m # n
    <3>1. attempt'[w][m] = attempt[w][m] /\ m \in Nat
      BY <1>2, <2>3, TriesType
    <3> QED
      BY <1>1, <1>3, <2>1, <2>3, <3>1 DEF AttemptInv
  <2>4. CASE u # w
    <3>1. call'[u] = call[u] /\ attempt'[u][m] = attempt[u][m]
      BY <1>2, <1>3, <2>4
    <3> QED
      BY <1>1, <2>1, <3>1 DEF AttemptInv
  <2> QED
    BY <2>2, <2>3, <2>4
<1> QED
  BY <1>1, <1>4, <1>5, <1>6, <1>7

(* An attempt has ended for the client, with an answer or without one. *)
LEMMA RoamingEnds ==
  ASSUME RoamingInv, NEW w \in Writes, call[w].pc = "waiting",
         NEW status \in Statuses \cup {"timeout"},
         call' = [call EXCEPT ![w] = After(@, status)],
         attempt' \in [Writes -> [Tries -> AttemptStates]],
         status \in Statuses => attempt[w][call[w].n] = status /\ attempt'[w][call[w].n] = "over",
         \A u \in Writes, m \in Tries :
           \/ attempt'[u][m] = attempt[u][m]
           \/ attempt'[u][m] = "over" /\ attempt[u][m] \notin {"none", "update"},
         UNCHANGED <<table, holder, stored, backend>>
  PROVE  RoamingInv'
<1> USE DEF RoamingInv
<1>1. call[w] \in Call /\ CallInv(w) /\ OnceInv(w) /\ call[w].n > 0 /\ call[w].result = "nothing"
  BY DEF RoamingTypes, CallInv, Call
<1>2. call[w].n \in Tries
  BY <1>1, MaxAttemptsAssumption DEF CallInv, Call, Tries
<1>3. call'[w] = After(call[w], status) /\ \A u \in Writes \ {w} : call'[u] = call[u]
  BY DEF RoamingTypes
<1>4. /\ call'[w] \in Call /\ call'[w].etag = call[w].etag /\ call'[w].n = call[w].n
      /\ \/ /\ call'[w].pc = "again" /\ call'[w].result = "nothing"
            /\ \/ call'[w].tries = call[w].tries /\ call'[w].round = call[w].round /\ call[w].tries <= MaxAttempts
               \/ call'[w].tries = 0 /\ call'[w].round = 2 /\ call[w].round = 1
         \/ /\ call'[w].pc = "done" /\ call'[w].tries = call[w].tries /\ call'[w].round = call[w].round
            /\ call'[w].result = CASE status = "200" -> "Ok" [] status = "412" -> "Conflict" [] OTHER -> "Failed"
  BY <1>1, <1>3, AfterEffect
<1>5. RoamingTypes'
  <2>1. call' \in [Writes -> Call]
    BY <1>3, <1>4 DEF RoamingTypes
  <2> QED
    BY <2>1 DEF RoamingTypes
<1>6. status = "412" => table.version > call[w].etag
  BY <1>1, <1>2 DEF AttemptInv, Statuses
<1>7. status = "200" => w \in stored
  BY <1>1, <1>2 DEF AttemptInv, Statuses
<1>8. ASSUME NEW u \in Writes PROVE CallInv(u)'
  <2>1. CASE u = w
    BY <1>1, <1>4, <1>6, <1>7, <2>1, MaxAttemptsAssumption DEF CallInv, Call
  <2>2. CASE u # w
    <3>1. CallInv(u) /\ call'[u] = call[u]
      BY <1>3, <2>2
    <3> QED
      BY <3>1 DEF CallInv
  <2> QED
    BY <2>1, <2>2
<1>9. ASSUME NEW u \in Writes PROVE OnceInv(u)'
  <2>1. OnceInv(u) /\ (attempt'[u][1] = attempt[u][1] \/ attempt'[u][1] = "over")
    BY TriesType
  <2>2. CASE u = w
    <3>1. CASE call'[w].result = "Conflict" /\ call[w].n = 1
      <4>1. status = "412"
        BY <1>4, <3>1
      <4> QED
        BY <1>1, <1>4, <2>1, <2>2, <3>1, <4>1 DEF OnceInv, Statuses
    <3>2. CASE ~(call'[w].result = "Conflict" /\ call[w].n = 1)
      BY <1>4, <2>1, <2>2, <3>2 DEF OnceInv
    <3> QED
      BY <3>1, <3>2
  <2>3. CASE u # w
    <3>1. call'[u] = call[u]
      BY <1>3, <2>3
    <3> QED
      BY <2>1, <3>1 DEF OnceInv
  <2> QED
    BY <2>2, <2>3
<1>10. ASSUME NEW u \in Writes, NEW m \in Tries PROVE AttemptInv(u, m)'
  <2>1. AttemptInv(u, m) /\ call'[u].n = call[u].n /\ call'[u].etag = call[u].etag
    BY <1>3, <1>4
  <2>2. \/ attempt'[u][m] = attempt[u][m]
        \/ attempt'[u][m] = "over" /\ attempt[u][m] \notin {"none", "update"}
    OBVIOUS
  <2> QED
    BY <2>1, <2>2 DEF AttemptInv
<1> QED
  BY <1>5, <1>8, <1>9, <1>10

(* The service works on an attempt and stores nothing. *)
LEMMA RoamingServes ==
  ASSUME RoamingInv, NEW w \in Writes, NEW n \in Tries, NEW st \in AttemptStates \ {"none", "200", "sent"},
         attempt[w][n] \in {"sent", "insert", "update"}, Set(w, n, st),
         st = "412" => table.version > call[w].etag,
         st = "insert" => call[w].etag = 0 /\ backend = "postgres" /\ attempt[w][n] = "sent",
         st = "update" => /\ table.version = call[w].etag /\ backend = "postgres"
                          /\ holder = None /\ holder' = <<w, n>>,
         st # "update" => holder' = IF attempt[w][n] = "update" THEN None ELSE holder,
         UNCHANGED <<table, call, stored, backend>>
  PROVE  RoamingInv'
<1> USE DEF RoamingInv
<1>1. /\ attempt' \in [Writes -> [Tries -> AttemptStates]]
      /\ attempt'[w][n] \in {st, "over"}
      /\ st \notin Statuses => attempt'[w][n] = st
      /\ \A u \in Writes, m \in Tries : u # w \/ m # n => attempt'[u][m] = attempt[u][m]
  BY SetEffect
<1>2. RoamingTypes'
  BY <1>1 DEF RoamingTypes
<1>3. ASSUME NEW u \in Writes PROVE CallInv(u)'
  BY DEF CallInv
<1>4. ASSUME NEW u \in Writes PROVE OnceInv(u)'
  <2>1. OnceInv(u) /\ CallInv(u)
    OBVIOUS
  <2>2. CASE u = w /\ n = 1
    <3>1. call[w].n = 1 => w \notin stored
      BY <2>1, <2>2 DEF OnceInv
    <3>2. call[w].n = 1 => call[w].result # "Conflict"
      BY <2>1, <2>2 DEF OnceInv
    <3> QED
      BY <2>1, <2>2, <3>1, <3>2 DEF OnceInv
  <2>3. CASE ~(u = w /\ n = 1)
    <3>1. attempt'[u][1] = attempt[u][1]
      BY <1>1, <2>3, TriesType
    <3> QED
      BY <2>1, <3>1 DEF OnceInv
  <2> QED
    BY <2>2, <2>3
<1>5. ASSUME NEW u \in Writes, NEW m \in Tries PROVE AttemptInv(u, m)'
  <2>1. AttemptInv(u, m) /\ AttemptInv(w, n) /\ <<u, m>> # None
    BY WritesAssumption
  <2>2. CASE u = w /\ m = n
    <3>1. attempt'[u][m] = "update" <=> holder' = <<u, m>>
      BY <1>1, <2>1, <2>2 DEF AttemptInv, Statuses
    <3> QED
      BY <1>1, <2>1, <2>2, <3>1 DEF AttemptInv
  <2>3. CASE u # w \/ m # n
    <3>1. attempt'[u][m] = attempt[u][m] /\ <<u, m>> # <<w, n>>
      BY <1>1, <2>3
    <3>2. attempt[u][m] = "update" <=> holder' = <<u, m>>
      BY <2>1, <3>1 DEF AttemptInv
    <3> QED
      BY <2>1, <3>1, <3>2 DEF AttemptInv
  <2> QED
    BY <2>2, <2>3
<1> QED
  BY <1>2, <1>3, <1>4, <1>5

(* The service stores the write of an attempt. *)
LEMMA RoamingStores ==
  ASSUME RoamingInv, NEW w \in Writes, NEW n \in Tries, NEW st \in {"200", "500"},
         \/ attempt[w][n] = "update"
         \/ attempt[w][n] = "sent" /\ backend = "memory",
         table.version = call[w].etag, Store(w), Set(w, n, st), holder' = None,
         UNCHANGED <<call, backend>>
  PROVE  RoamingInv'
<1> USE DEF RoamingInv
<1>1. /\ attempt' \in [Writes -> [Tries -> AttemptStates]]
      /\ attempt'[w][n] \in {st, "over"}
      /\ \A u \in Writes, m \in Tries : u # w \/ m # n => attempt'[u][m] = attempt[u][m]
  BY SetEffect DEF AttemptStates, Statuses
<1>2. /\ w \notin stored /\ stored' = stored \cup {w}
      /\ table' = [version |-> table.version + 1, doc |-> w]
      /\ stored' \in SUBSET Writes
      /\ table'.version <= 1 + Cardinality(stored')
  BY StoreCounts DEF Store
<1>3. table.version \in Nat /\ table'.version = table.version + 1
  BY <1>2 DEF RoamingTypes
<1>4. RoamingTypes'
  BY <1>1, <1>2, <1>3 DEF RoamingTypes
<1>5. call[w].n > 0 /\ call[w].pc \notin {"idle", "have"} /\ call[w].n >= n
  BY TriesType DEF AttemptInv, CallInv, RoamingTypes, Call
<1>6. ASSUME NEW u \in Writes PROVE CallInv(u)'
  <2>1. CallInv(u) /\ call[u] \in Call
    BY DEF RoamingTypes
  <2> QED
    BY <1>2, <1>3, <1>5, <2>1 DEF CallInv, Call
<1>7. ASSUME NEW u \in Writes PROVE OnceInv(u)'
  <2>1. OnceInv(u) /\ CallInv(u)
    OBVIOUS
  <2>2. CASE u = w
    <3>1. CASE call[w].n = 1
      <4>1. n = 1
        BY <1>5, <3>1, TriesType
      <4>2. call[w].result # "Conflict"
        BY <2>1, <2>2, <3>1, <4>1 DEF OnceInv
      <4> QED
        BY <1>1, <2>2, <4>1, <4>2 DEF OnceInv
    <3>2. CASE call[w].n # 1
      BY <2>2, <3>2 DEF OnceInv
    <3> QED
      BY <3>1, <3>2
  <2>3. CASE u # w
    <3>1. attempt'[u][1] = attempt[u][1] /\ (u \in stored' <=> u \in stored)
      BY <1>1, <1>2, <2>3, TriesType
    <3> QED
      BY <2>1, <3>1 DEF OnceInv
  <2> QED
    BY <2>2, <2>3
<1>8. ASSUME NEW u \in Writes, NEW m \in Tries PROVE AttemptInv(u, m)'
  <2>1. AttemptInv(u, m) /\ AttemptInv(w, n) /\ <<u, m>> # None /\ call[u] \in Call
    BY WritesAssumption DEF RoamingTypes
  <2>2. CASE u = w /\ m = n
    BY <1>1, <1>2, <1>3, <1>5, <2>1, <2>2 DEF AttemptInv
  <2>3. CASE u # w \/ m # n
    <3>1. attempt'[u][m] = attempt[u][m] /\ <<u, m>> # <<w, n>>
      BY <1>1, <2>3
    <3>2. attempt[u][m] # "update"
      BY <2>1, <3>1 DEF AttemptInv
    <3>3. u \in stored => u \in stored'
      BY <1>2
    <3>4. holder' # <<u, m>>
      BY <2>1
    <3>5. table.version > call[u].etag => table'.version > call[u].etag
      BY <1>3, <2>1 DEF Call
    <3> QED
      BY <2>1, <3>1, <3>2, <3>3, <3>4, <3>5 DEF AttemptInv
  <2> QED
    BY <2>2, <2>3
<1> QED
  BY <1>2, <1>4, <1>6, <1>7, <1>8

(* What each step of the roaming side is, in the terms of the lemmas above. *)
Ends(w, status) ==
  /\ call[w].pc = "waiting"
  /\ call' = [call EXCEPT ![w] = After(@, status)]
  /\ attempt' \in [Writes -> [Tries -> AttemptStates]]
  /\ status \in Statuses => attempt[w][call[w].n] = status /\ attempt'[w][call[w].n] = "over"
  /\ \A u \in Writes, m \in Tries :
       \/ attempt'[u][m] = attempt[u][m]
       \/ attempt'[u][m] = "over" /\ attempt[u][m] \notin {"none", "update"}
  /\ UNCHANGED <<table, holder, stored, backend>>

LEMMA ReceiveEnds ==
  ASSUME RoamingInv, NEW w \in Writes, Receive(w) \/ Timeout(w)
  PROVE  \E status \in Statuses \cup {"timeout"} : Ends(w, status)
<1> DEFINE n == call[w].n
<1>1. RoamingTypes /\ call[w] \in Call /\ CallInv(w) /\ call[w].pc = "waiting"
  BY DEF RoamingInv, RoamingTypes, Receive, Timeout
<1>2. n \in Tries
  BY <1>1, MaxAttemptsAssumption DEF CallInv, Call, Tries
<1>3. ASSUME Set(w, n, "over"), attempt[w][n] \notin {"none", "update"}
      PROVE  /\ attempt' \in [Writes -> [Tries -> AttemptStates]]
             /\ attempt'[w][n] = "over"
             /\ \A u \in Writes, m \in Tries :
                  \/ attempt'[u][m] = attempt[u][m]
                  \/ attempt'[u][m] = "over" /\ attempt[u][m] \notin {"none", "update"}
  <2>1. "over" \in AttemptStates /\ "over" \notin Statuses
    BY DEF AttemptStates, Statuses
  <2> QED
    <3>1. /\ attempt' \in [Writes -> [Tries -> AttemptStates]]
          /\ attempt'[w][n] = "over"
          /\ \A u \in Writes, m \in Tries : u # w \/ m # n => attempt'[u][m] = attempt[u][m]
      BY <1>1, <1>2, <1>3, <2>1, SetEffect
    <3> QED
      BY <1>3, <3>1
<1>4. CASE Receive(w)
  <2> DEFINE status == attempt[w][n]
  <2>1. /\ status \in Statuses /\ Set(w, n, "over")
        /\ call' = [call EXCEPT ![w] = After(@, status)]
        /\ UNCHANGED <<table, holder, stored, backend>>
    BY <1>4 DEF Receive
  <2>2. status \notin {"none", "update"}
    BY <2>1 DEF Statuses
  <2>3. Ends(w, status)
    BY <1>1, <1>3, <2>1, <2>2 DEF Ends
  <2> QED
    BY <2>1, <2>3
<1>5. CASE Timeout(w)
  <2> SUFFICES Ends(w, "timeout")
    OBVIOUS
  <2>1. "timeout" \notin Statuses
    BY DEF Statuses
  <2>2. /\ call' = [call EXCEPT ![w] = After(@, "timeout")]
        /\ UNCHANGED <<table, holder, stored, backend>>
    BY <1>5 DEF Timeout
  <2>3. \/ Set(w, n, "over") /\ attempt[w][n] \notin {"none", "update"}
        \/ Set(w, n, "sent") /\ attempt[w][n] = "sent"
        \/ UNCHANGED attempt
    BY <1>5 DEF Timeout, Statuses
  <2>4. CASE Set(w, n, "over") /\ attempt[w][n] \notin {"none", "update"}
    BY <1>1, <1>3, <2>1, <2>2, <2>4 DEF Ends
  <2>5. CASE Set(w, n, "sent") /\ attempt[w][n] = "sent"
    <3>1. "sent" \in AttemptStates /\ "sent" \notin Statuses
      BY DEF AttemptStates, Statuses
    <3>2. /\ attempt' \in [Writes -> [Tries -> AttemptStates]]
          /\ \A u \in Writes, m \in Tries : attempt'[u][m] = attempt[u][m]
      BY <1>1, <1>2, <2>5, <3>1, SetEffect
    <3> QED
      BY <1>1, <2>1, <2>2, <3>2 DEF Ends
  <2>6. CASE UNCHANGED attempt
    BY <1>1, <2>1, <2>2, <2>6 DEF RoamingTypes, Ends
  <2> QED
    BY <2>3, <2>4, <2>5, <2>6
<1> QED
  BY <1>4, <1>5

Serves(w, n, st) ==
  /\ attempt[w][n] \in {"sent", "insert", "update"} /\ Set(w, n, st)
  /\ st = "412" => table.version > call[w].etag
  /\ st = "insert" => call[w].etag = 0 /\ backend = "postgres" /\ attempt[w][n] = "sent"
  /\ st = "update" => /\ table.version = call[w].etag /\ backend = "postgres"
                      /\ holder = None /\ holder' = <<w, n>>
  /\ st # "update" => holder' = IF attempt[w][n] = "update" THEN None ELSE holder
  /\ UNCHANGED <<table, call, stored, backend>>

Stores(w, n, st) ==
  /\ \/ attempt[w][n] = "update"
     \/ attempt[w][n] = "sent" /\ backend = "memory"
  /\ table.version = call[w].etag /\ Store(w) /\ Set(w, n, st) /\ holder' = None
  /\ UNCHANGED <<call, backend>>

LEMMA ServiceStep ==
  ASSUME RoamingInv, NEW w \in Writes, NEW n \in Tries,
         Refuse(w, n) \/ PutInMemory(w, n) \/ SelectForUpdate(w, n) \/ Insert(w, n) \/ Commit(w, n)
  PROVE  \/ \E st \in AttemptStates \ {"none", "200", "sent"} : Serves(w, n, st)
         \/ \E st \in {"200", "500"} : Stores(w, n, st)
<1> USE DEF AttemptStates, Statuses
<1>1. /\ AttemptInv(w, n) /\ CallInv(w) /\ RoamingTypes /\ call[w].etag \in Nat /\ table.version \in Nat
      /\ call[w].n \in Nat
  BY DEF RoamingInv, RoamingTypes, Call
<1>2. attempt[w][n] \in {"sent", "insert"} => holder # <<w, n>> /\ call[w].etag <= table.version
  <2>1. attempt[w][n] # "none" => call[w].n >= n /\ n > 0
    BY <1>1, TriesType DEF AttemptInv
  <2>2. attempt[w][n] # "none" => call[w].pc # "idle"
    BY <1>1, <2>1 DEF CallInv, Tries
  <2> QED
    BY <1>1, <2>2 DEF AttemptInv, CallInv
<1>3. CASE Refuse(w, n)
  <2>1. PICK status \in {"401", "400", "500"} : Set(w, n, status)
    BY <1>3 DEF Refuse
  <2>2. Serves(w, n, status)
    BY <1>3, <2>1 DEF Refuse, Serves
  <2> QED
    BY <2>2
<1>4. CASE PutInMemory(w, n)
  <2>1. CASE table.version # call[w].etag
    <3>1. Serves(w, n, "412")
      BY <1>1, <1>2, <1>4, <2>1 DEF PutInMemory, Serves
    <3> QED
      BY <3>1
  <2>2. CASE table.version = call[w].etag
    <3>1. holder = None
      <4>1. ASSUME NEW u \in Writes, NEW m \in Tries, holder = <<u, m>> PROVE FALSE
        BY <1>4, <4>1 DEF RoamingInv, AttemptInv, PutInMemory
      <4> QED
        BY <1>1, <4>1 DEF RoamingTypes
    <3>2. Stores(w, n, "200")
      BY <1>4, <2>2, <3>1 DEF PutInMemory, Stores
    <3> QED
      BY <3>2
  <2> QED
    BY <2>1, <2>2
<1>5. CASE SelectForUpdate(w, n)
  <2>1. CASE table.version # call[w].etag
    <3>1. Serves(w, n, "412")
      BY <1>1, <1>2, <1>5, <2>1 DEF SelectForUpdate, Serves
    <3> QED
      BY <3>1
  <2>2. CASE table.version = call[w].etag /\ table.version = 0
    <3>1. Serves(w, n, "insert")
      BY <1>5, <2>2 DEF SelectForUpdate, Serves
    <3> QED
      BY <3>1
  <2>3. CASE table.version = call[w].etag /\ table.version # 0
    <3>1. Serves(w, n, "update")
      BY <1>1, <1>5, <2>3 DEF SelectForUpdate, Serves
    <3> QED
      BY <3>1
  <2> QED
    BY <2>1, <2>2, <2>3
<1>6. CASE Insert(w, n)
  <2>1. call[w].etag = 0 /\ backend = "postgres"
    BY <1>1, <1>6 DEF Insert, AttemptInv, RoamingTypes
  <2>2. CASE table.version > 0
    <3>1. Serves(w, n, "412")
      BY <1>6, <2>1, <2>2 DEF Insert, Serves
    <3> QED
      BY <3>1
  <2>3. CASE ~(table.version > 0)
    <3>1. Serves(w, n, "update")
      BY <1>1, <1>6, <2>1, <2>3 DEF Insert, Serves
    <3> QED
      BY <3>1
  <2> QED
    BY <2>2, <2>3
<1>7. CASE Commit(w, n)
  <2>1. table.version = call[w].etag /\ attempt[w][n] = "update"
    BY <1>1, <1>7 DEF Commit, AttemptInv
  <2>4. holder' = None /\ UNCHANGED <<call, backend>>
    BY <1>7 DEF Commit
  <2>2. ASSUME Set(w, n, "500"), UNCHANGED <<table, stored>> PROVE Serves(w, n, "500")
    BY <1>7, <2>1, <2>2 DEF Commit, Serves
  <2>3. ASSUME NEW st \in {"200", "500"}, Set(w, n, st), Store(w) PROVE Stores(w, n, st)
    BY <2>1, <2>3, <2>4 DEF Stores
  <2> QED
    BY <1>7, <2>2, <2>3 DEF Commit
<1> QED
  BY <1>3, <1>4, <1>5, <1>6, <1>7

LEMMA RoamingStep ==
  ASSUME RoamingInv, RoamingNext
  PROVE  RoamingInv'
<1>1. PICK w \in Writes :
        \/ get(w) \/ put(w) \/ Receive(w) \/ Timeout(w)
        \/ \E n \in Tries : \/ Refuse(w, n) \/ PutInMemory(w, n) \/ SelectForUpdate(w, n)
                            \/ Insert(w, n) \/ Commit(w, n)
  BY DEF RoamingNext
<1>2. CASE get(w)
  BY <1>2, RoamingGet
<1>3. CASE put(w)
  BY <1>3, RoamingPut
<1>4. CASE Receive(w) \/ Timeout(w)
  BY <1>4, ReceiveEnds, RoamingEnds DEF Ends
<1>5. ASSUME NEW n \in Tries,
             Refuse(w, n) \/ PutInMemory(w, n) \/ SelectForUpdate(w, n) \/ Insert(w, n) \/ Commit(w, n)
      PROVE  RoamingInv'
  <2>1. CASE \E st \in AttemptStates \ {"none", "200", "sent"} : Serves(w, n, st)
    BY <2>1, RoamingServes DEF Serves
  <2>2. CASE \E st \in {"200", "500"} : Stores(w, n, st)
    BY <2>2, RoamingStores DEF Stores
  <2> QED
    BY <1>5, <2>1, <2>2, ServiceStep
<1> QED
  BY <1>1, <1>2, <1>3, <1>4, <1>5

LEMMA RoamingInvariant == Spec => []RoamingInv
<1>1. Init => RoamingInv
  BY RoamingStart DEF Init
<1>2. RoamingInv /\ [Next]_vars => RoamingInv'
  <2>1. ASSUME RoamingInv, UNCHANGED roaming PROVE RoamingInv'
    BY <2>1 DEF RoamingInv, roaming, RoamingTypes, CallInv, OnceInv, AttemptInv
  <2> QED
    BY <2>1, RoamingStep DEF Next, vars
<1> QED
  BY <1>1, <1>2, PTL DEF Spec

(* A call as the abstract specification sees it. *)
AsWrite(c) == [asked |-> c.n > 0, from |-> IF c.n > 0 THEN c.etag ELSE 0, told |-> c.result]

LEMMA DocumentStep ==
  ASSUME RoamingInv, RoamingNext
  PROVE  [Document!Next]_(Document!vars)
<1> DEFINE abs == [w \in Writes |-> AsWrite(call[w])]
<1> DEFINE stays == UNCHANGED <<table, stored>> /\ abs' = abs
<1>1. ASSUME stays PROVE [Document!Next]_(Document!vars)
  BY <1>1 DEF Document!vars, AsWrite
<1> USE DEF RoamingInv
<1>2. PICK w \in Writes :
        \/ get(w) \/ put(w) \/ Receive(w) \/ Timeout(w)
        \/ \E n \in Tries : \/ Refuse(w, n) \/ PutInMemory(w, n) \/ SelectForUpdate(w, n)
                            \/ Insert(w, n) \/ Commit(w, n)
  BY DEF RoamingNext
<1>3. call[w] \in Call /\ CallInv(w)
  BY DEF RoamingTypes
<1>4. ASSUME UNCHANGED <<table, stored>>, \A u \in Writes : AsWrite(call'[u]) = AsWrite(call[u]) PROVE stays
  BY <1>4
<1>5. CASE get(w)
  <2>1. \A u \in Writes : AsWrite(call'[u]) = AsWrite(call[u])
    BY <1>3, <1>5 DEF get, AsWrite, CallInv, RoamingTypes, Call
  <2> QED
    BY <1>1, <1>4, <1>5, <2>1 DEF get
<1>6. CASE put(w)
  <2>1. /\ call'[w].n = call[w].n + 1 /\ call'[w].etag = call[w].etag /\ call'[w].result = call[w].result
        /\ \A u \in Writes \ {w} : call'[u] = call[u]
        /\ UNCHANGED <<table, stored>>
    BY <1>3, <1>6 DEF put, RoamingTypes, Call
  <2>2. CASE call[w].n = 0
    <3>1. Document!Ask(w)
      <4>1. /\ ~AsWrite(call[w]).asked /\ AsWrite(call'[w]).asked
            /\ AsWrite(call'[w]).from = call[w].etag /\ AsWrite(call'[w]).told = AsWrite(call[w]).told
        <5>1. call'[w].n = 1
          BY <2>1, <2>2
        <5>2. ~(call[w].n > 0) /\ call'[w].n > 0
          BY <2>2, <5>1
        <5> QED
          BY <2>1, <5>2 DEF AsWrite
      <4>2. call[w].etag \in 0 .. table.version
        BY <1>3, <1>6 DEF put, CallInv, RoamingTypes, Call
      <4>3. abs' = [abs EXCEPT ![w].asked = TRUE, ![w].from = call[w].etag]
        BY <2>1, <4>1 DEF AsWrite
      <4> QED
        BY <2>1, <4>1, <4>2, <4>3 DEF Document!Ask, AsWrite
    <3> QED
      BY <3>1 DEF Document!Next
  <2>3. CASE call[w].n # 0
    <3>1. AsWrite(call'[w]) = AsWrite(call[w])
      BY <1>3, <2>1, <2>3 DEF AsWrite, Call
    <3>2. \A u \in Writes : AsWrite(call'[u]) = AsWrite(call[u])
      BY <2>1, <3>1
    <3> QED
      BY <1>1, <1>4, <2>1, <3>2
  <2> QED
    BY <2>2, <2>3
<1>7. CASE Receive(w) \/ Timeout(w)
  <2>1. PICK status \in Statuses \cup {"timeout"} : Ends(w, status)
    BY <1>7, ReceiveEnds
  <2>2. /\ call'[w] = After(call[w], status) /\ call[w].pc = "waiting" /\ UNCHANGED <<table, stored>>
        /\ \A u \in Writes \ {w} : call'[u] = call[u]
    BY <2>1 DEF Ends, RoamingTypes
  <2>3. call[w].result = "nothing" /\ call[w].n > 0 /\ call[w].n \in Tries
    BY <1>3, <2>2, MaxAttemptsAssumption DEF CallInv, Call, Tries
  <2>4. /\ call'[w].n = call[w].n /\ call'[w].etag = call[w].etag
        /\ \/ call'[w].result = "nothing"
           \/ call'[w].result = CASE status = "200" -> "Ok" [] status = "412" -> "Conflict" [] OTHER -> "Failed"
    BY <1>3, <2>2, <2>3, AfterEffect
  <2>5. CASE call'[w].result = "nothing"
    <3>1. \A u \in Writes : AsWrite(call'[u]) = AsWrite(call[u])
      BY <2>2, <2>3, <2>4, <2>5 DEF AsWrite
    <3> QED
      BY <1>1, <1>4, <2>2, <3>1
  <2>6. CASE call'[w].result = CASE status = "200" -> "Ok" [] status = "412" -> "Conflict" [] OTHER -> "Failed"
    <3> DEFINE told == call'[w].result
    <3>1. told \in {"Ok", "Conflict", "Failed"}
      BY <2>6
    <3>2. status \in {"200", "412"} => attempt[w][call[w].n] = status
      BY <2>1 DEF Ends, Statuses
    <3>3. told = "Ok" => w \in stored
      BY <2>3, <2>6, <3>2 DEF AttemptInv
    <3>4. told = "Conflict" => table.version > call[w].etag
      BY <2>3, <2>6, <3>2 DEF AttemptInv
    <3>5. abs' = [abs EXCEPT ![w].told = told]
      BY <2>2, <2>4 DEF AsWrite
    <3>6. AsWrite(call[w]).asked /\ AsWrite(call[w]).told = "nothing" /\ AsWrite(call[w]).from = call[w].etag
      BY <2>3 DEF AsWrite
    <3>7. Document!Tell(w)
      BY <2>2, <3>1, <3>3, <3>4, <3>5, <3>6 DEF Document!Tell, AsWrite
    <3> QED
      BY <3>7 DEF Document!Next
  <2> QED
    BY <2>4, <2>5, <2>6
<1>8. ASSUME NEW n \in Tries,
             Refuse(w, n) \/ PutInMemory(w, n) \/ SelectForUpdate(w, n) \/ Insert(w, n) \/ Commit(w, n)
      PROVE  [Document!Next]_(Document!vars)
  <2>1. ASSUME NEW st, Serves(w, n, st) PROVE stays
    BY <1>4, <2>1 DEF Serves
  <2>2. ASSUME NEW st, Stores(w, n, st) PROVE Document!TakeEffect(w)
    <3>1. /\ table.version = call[w].etag /\ Store(w) /\ UNCHANGED call
          /\ attempt[w][n] \in {"sent", "update"}
      BY <2>2 DEF Stores
    <3>2. /\ w \notin stored /\ table' = [version |-> table.version + 1, doc |-> w]
          /\ stored' = stored \cup {w}
      BY <3>1, StoreCounts DEF Store
    <3>3. call[w].n > 0
      BY <1>3, <3>1, TriesType DEF AttemptInv, Call
    <3>4. AsWrite(call[w]).asked /\ AsWrite(call[w]).from = table.version /\ abs' = abs
      BY <3>1, <3>3 DEF AsWrite
    <3> QED
      BY <3>2, <3>4 DEF Document!TakeEffect, AsWrite
  <2> QED
    BY <1>1, <1>8, <2>1, <2>2, ServiceStep DEF Document!Next
<1> QED
  BY <1>2, <1>5, <1>6, <1>7, <1>8

(* The retried, delayed and repeated requests, the transaction and the     *)
(* answers that are lost implement writes that take effect at most once,   *)
(* on the version they were made from (RoamingConfigClient::put down to    *)
(* PgUserConfigStore::put): for any number of writers and repetitions.     *)
THEOREM DocumentImplemented == Spec => DocumentRefined
<1>1. Init => Document!Init
  <2> SUFFICES ASSUME RoamingInit PROVE Document!Init
    BY DEF Init
  <2>1. table.doc = None /\ table.version \in {0, 1} /\ stored = {}
    BY DEF RoamingInit
  <2>2. \A w \in Writes : AsWrite(call[w]) = [asked |-> FALSE, from |-> 0, told |-> "nothing"]
    <3> SUFFICES ASSUME NEW w \in Writes
                 PROVE  AsWrite(call[w]) = [asked |-> FALSE, from |-> 0, told |-> "nothing"]
      OBVIOUS
    <3>1. call[w].n = 0 /\ call[w].result = "nothing"
      BY DEF RoamingInit
    <3>2. (call[w].n > 0) = FALSE
      BY <3>1
    <3>3. (IF call[w].n > 0 THEN call[w].etag ELSE 0) = 0
      BY <3>2
    <3> QED
      BY <3>1, <3>2, <3>3, Zenon DEF AsWrite
  <2> QED
    BY <2>1, <2>2 DEF Document!Init, AsWrite
<1>2. RoamingInv /\ [Next]_vars => [Document!Next]_(Document!vars)
  <2>1. ASSUME UNCHANGED roaming PROVE [Document!Next]_(Document!vars)
    BY <2>1 DEF roaming, Document!vars
  <2> QED
    BY <2>1, DocumentStep DEF Next, vars
<1> QED
  BY <1>1, <1>2, RoamingInvariant, PTL DEF Spec, DocumentRefined, Document!Spec

-----------------------------------------------------------------------------
(* The managed configuration.                                              *)

PolicyTrees == {NoTrees} \cup {policy_trees(v) : v \in DOMAIN Policies}
FoldOf(d, x) == fold_into_json(Manifest, d, x.enforced, x.recommended)
Values == Documents \cup {FoldOf(d, x) : d \in Documents, x \in PolicyTrees}
Versions == DOMAIN Policies \cup {0}
Entries == {e \in [there : BOOLEAN, policy : Versions, etag : Versions, at : Nat] :
              e.there => e.policy = e.etag /\ e.policy # 0}
Saving == {"create", "sync", "rename", "commit"}
Refreshing == {"ask", "asked", "fold", "swap"}
ThreadStates == [op : {"idle", "save", "reload", "refresh"},
                 pc : Saving \cup Refreshing \cup {"", "set", "notify"},
                 doc : Values, entry : Entries, trees : PolicyTrees, alone : BOOLEAN]

ManagedTypes ==
  /\ file \in StartFiles \cup {Whole(CurrentVersion, d) : d \in Docs}
  /\ tmp \in [Threads -> {Empty, Torn} \cup {Whole(CurrentVersion, d) : d \in Docs}]
  /\ current \in Values
  /\ wlock \in Threads \cup {Free}
  /\ cache \in Entries
  /\ served \in [policy : Versions, last : Versions, now : Nat]
  /\ th \in [Threads -> ThreadStates]
  /\ run \in [up : BOOLEAN, given : Values]
  /\ settled \in BOOLEAN
  /\ basis \in PolicyTrees

(* Where a thread is, and what it has in hand there; a thread that is alone *)
(* has in hand what the file says.                                          *)
ThreadInv(t) ==
  /\ th[t].op = "idle" <=> th[t].pc = ""
  /\ th[t].op = "save" <=> th[t].pc \in Saving
  /\ th[t].op = "save" <=> wlock = t
  /\ th[t].pc = "set" => th[t].op = "reload"
  /\ th[t].pc \in Refreshing => th[t].op = "refresh"
  /\ th[t].op = "save" => th[t].doc \in Docs /\ th[t].trees = NoTrees
  /\ th[t].pc = "rename" => tmp[t] = Whole(CurrentVersion, th[t].doc)
  /\ th[t].pc = "set" => th[t].doc \in Documents /\ th[t].trees = NoTrees
  /\ th[t].op # "idle" => run.up
  /\ th[t].op # "idle" /\ th[t].alone =>
       /\ \A u \in Threads \ {t} : th[u].op = "idle"
       /\ th[t].pc \in {"commit", "set"} => th[t].doc = load(file).doc
       /\ th[t].pc = "swap" => th[t].doc = FoldOf(load(file).doc, th[t].trees)
       /\ th[t].pc = "notify" => current = FoldOf(load(file).doc, th[t].trees)

(* Unless a save or a publication is half done, a settled process agrees   *)
(* with its file.                                                          *)
AgreesInv ==
  settled /\ run.up /\ (\A t \in Threads : th[t].pc \notin {"commit", "notify"}) =>
    current = FoldOf(load(file).doc, basis)

ManagedInv == ManagedTypes /\ AgreesInv /\ \A t \in Threads : ThreadInv(t)

(* The flat form of a whole document has every leaf, with its value.       *)
LEMMA FlatHasLeaves ==
  ASSUME NEW d \in Documents, NEW p \in DOMAIN Manifest
  PROVE  /\ p \in DOMAIN flatten_to_paths(d)
         /\ \A k \in DOMAIN d : p = <<k>> => flatten_to_paths(d)[p] = d[k].value
         /\ \A k \in DOMAIN d : d[k].section =>
              \A l \in DOMAIN d[k].entries : p = <<k, l>> => flatten_to_paths(d)[p] = d[k].entries[l]
<1> DEFINE plain == {k \in DOMAIN d : ~d[k].section}
           inner == UNION {{<<k, l>> : l \in DOMAIN d[k].entries} : k \in {j \in DOMAIN d : d[j].section}}
           top == [q \in {Segments(k) : k \in plain} |-> d[CHOOSE k \in plain : Segments(k) = q].value]
           nested == [q \in inner |-> d[q[1]].entries[q[2]]]
<1>1. flatten_to_paths(d) = Over(nested, top)
  BY DEF flatten_to_paths
<1>2. \A k \in plain : Segments(k) = <<k>>
  BY DocumentsAssumption DEF Segments
<1>3. DOMAIN top = {<<k>> : k \in plain} /\ DOMAIN nested = inner
  BY <1>2
<1>4. \A k \in plain : top[<<k>>] = d[k].value
  <2> SUFFICES ASSUME NEW k \in plain PROVE top[<<k>>] = d[k].value
    OBVIOUS
  <2>1. \A j \in plain : Segments(j) = <<k>> => j = k
    BY <1>2
  <2>2. (CHOOSE j \in plain : Segments(j) = <<k>>) = k
    BY <1>2, <2>1
  <2>3. <<k>> \in {Segments(j) : j \in plain}
    BY <1>2
  <2> QED
    BY <2>2, <2>3
<1>5. \A k \in DOMAIN d : d[k].section => \A l \in DOMAIN d[k].entries :
        <<k, l>> \in inner /\ <<k, l>> \notin DOMAIN top /\ nested[<<k, l>>] = d[k].entries[l]
  <2> SUFFICES ASSUME NEW k \in DOMAIN d, NEW l \in DOMAIN d[k].entries, d[k].section
               PROVE  <<k, l>> \in inner /\ <<k, l>> \notin DOMAIN top /\ nested[<<k, l>>] = d[k].entries[l]
    OBVIOUS
  <2>1. <<k, l>> \in inner
    OBVIOUS
  <2>2. \A j : <<j>> # <<k, l>>
    OBVIOUS
  <2> QED
    BY <1>3, <2>1, <2>2
<1>6. \/ \E k \in DOMAIN d : p = <<k>> /\ ~d[k].section
      \/ \E k \in DOMAIN d : d[k].section /\ \E l \in DOMAIN d[k].entries : p = <<k, l>>
  BY DocumentsAssumption
<1>7. ASSUME NEW k \in DOMAIN d, p = <<k>>, ~d[k].section
      PROVE  p \in DOMAIN top /\ top[p] = d[k].value
  BY <1>3, <1>4, <1>7
<1> HIDE DEF top, nested, inner, plain
<1>8. \A q : q \in DOMAIN top => q \in DOMAIN Over(nested, top) /\ Over(nested, top)[q] = top[q]
  BY DEF Over
<1>9. \A q : q \in DOMAIN nested /\ q \notin DOMAIN top =>
        q \in DOMAIN Over(nested, top) /\ Over(nested, top)[q] = nested[q]
  BY DEF Over
<1>10. CASE \E k \in DOMAIN d : p = <<k>> /\ ~d[k].section
  <2>1. PICK k \in DOMAIN d : p = <<k>> /\ ~d[k].section
    BY <1>10
  <2>2. \A j, l : p # <<j, l>>
    BY <2>1
  <2>3. \A j : p = <<j>> => j = k
    BY <2>1
  <2> QED
    BY <1>1, <1>7, <1>8, <2>1, <2>2, <2>3
<1>11. CASE \E k \in DOMAIN d : d[k].section /\ \E l \in DOMAIN d[k].entries : p = <<k, l>>
  <2>1. PICK k \in DOMAIN d : d[k].section /\ \E l \in DOMAIN d[k].entries : p = <<k, l>>
    BY <1>11
  <2>2. PICK l \in DOMAIN d[k].entries : p = <<k, l>>
    BY <2>1
  <2>3. \A j : p # <<j>>
    BY <2>2
  <2>4. \A j, m : p = <<j, m>> => j = k /\ m = l
    BY <2>2
  <2> QED
    BY <1>1, <1>3, <1>5, <1>9, <2>1, <2>2, <2>3, <2>4
<1> QED
  BY <1>6, <1>10, <1>11

(* Without a policy the file decides every leaf it has.                    *)
LEMMA FileDecides ==
  ASSUME NEW d, NEW p \in DOMAIN Manifest, p \in DOMAIN flatten_to_paths(d)
  PROVE  resolve(Manifest, [ResolutionInput EXCEPT !.recommended = Nothing, !.enforced = Nothing,
                              !.config_file = flatten_to_paths(d)]).leaf[p].value = flatten_to_paths(d)[p]
<1> DEFINE input == [ResolutionInput EXCEPT !.recommended = Nothing, !.enforced = Nothing,
                                            !.config_file = flatten_to_paths(d)]
<1>1. /\ input.enforced = Nothing /\ input.recommended = Nothing /\ input.config_file = flatten_to_paths(d)
      /\ input.environment = Nothing /\ input.flags = Nothing /\ input.builder_overrides = Nothing
  BY DEF ResolutionInput
<1>2. p \notin DOMAIN Nothing
  BY DEF Nothing
<1>3. \A found : Local(found, input, p) = Found(flatten_to_paths(d)[p], "ConfigFile")
  BY <1>1, <1>2 DEF Local, Replace
<1> HIDE DEF input
<1>4. resolve(Manifest, input).leaf[p] = Found(flatten_to_paths(d)[p], "ConfigFile")
  BY <1>1, <1>2, <1>3 DEF resolve
<1> QED
  BY <1>4 DEF input, Found

(* What is written back has the manifest's sections and leaves.            *)
LEMMA Unflattened ==
  ASSUME NEW d \in Documents, NEW flat, DOMAIN flat = DOMAIN Manifest
  PROVE  /\ DOMAIN unflatten_from_paths(Manifest, flat) \subseteq DOMAIN d
         /\ \A k \in DOMAIN unflatten_from_paths(Manifest, flat) :
              \/ /\ d[k].section
                 /\ \E held \in SUBSET DOMAIN d[k].entries :
                      /\ \A l \in held : <<k, l>> \in DOMAIN Manifest
                      /\ unflatten_from_paths(Manifest, flat)[k] = Section([l \in held |-> flat[<<k, l>>]])
              \/ /\ ~d[k].section /\ <<k>> \in DOMAIN Manifest
                 /\ unflatten_from_paths(Manifest, flat)[k] = Leaf(flat[<<k>>])
<1> DEFINE sections == {p[1] : p \in {q \in DOMAIN Manifest : Len(q) = 2}}
           leaves == {p[1] : p \in {q \in DOMAIN Manifest \cap DOMAIN flat : Len(q) = 1}}
           held(s) == {p[2] : p \in {q \in DOMAIN Manifest \cap DOMAIN flat : Len(q) = 2 /\ q[1] = s}}
           out == unflatten_from_paths(Manifest, flat)
<1>1. /\ DOMAIN out = sections \cup leaves
      /\ \A k \in sections \cup leaves :
           out[k] = IF k \in sections THEN Section([l \in held(k) |-> flat[<<k, l>>]]) ELSE Leaf(flat[<<k>>])
  BY DEF unflatten_from_paths
<1>2. \A p \in DOMAIN Manifest :
        \/ \E k \in DOMAIN d : p = <<k>> /\ ~d[k].section
        \/ \E k \in DOMAIN d : d[k].section /\ \E l \in DOMAIN d[k].entries : p = <<k, l>>
  BY DocumentsAssumption
<1>3. ASSUME NEW p \in DOMAIN Manifest, Len(p) = 2
      PROVE  p[1] \in DOMAIN d /\ d[p[1]].section /\ p[2] \in DOMAIN d[p[1]].entries /\ p = <<p[1], p[2]>>
  <2>1. ~(\E k \in DOMAIN d : p = <<k>> /\ ~d[k].section)
    BY <1>3
  <2>2. PICK k \in DOMAIN d : d[k].section /\ \E l \in DOMAIN d[k].entries : p = <<k, l>>
    BY <1>2, <2>1
  <2> QED
    BY <2>2
<1>4. ASSUME NEW p \in DOMAIN Manifest, Len(p) = 1
      PROVE  p[1] \in DOMAIN d /\ ~d[p[1]].section /\ p = <<p[1]>>
  <2>1. ~(\E k \in DOMAIN d : d[k].section /\ \E l \in DOMAIN d[k].entries : p = <<k, l>>)
    BY <1>4
  <2>2. PICK k \in DOMAIN d : p = <<k>> /\ ~d[k].section
    BY <1>2, <2>1
  <2> QED
    BY <2>2
<1>5. \A k \in sections : k \in DOMAIN d /\ d[k].section
  BY <1>3
<1>6. \A k \in leaves : k \in DOMAIN d /\ ~d[k].section /\ <<k>> \in DOMAIN Manifest
  BY <1>4
<1>7. \A k \in sections : held(k) \in SUBSET DOMAIN d[k].entries /\ \A l \in held(k) : <<k, l>> \in DOMAIN Manifest
  BY <1>3
<1> HIDE DEF sections, leaves, held
<1> QED
  BY <1>1, <1>5, <1>6, <1>7

(* A document keeps its keys, whatever is folded into it ...               *)
LEMMA FoldKeepsKeys ==
  ASSUME NEW d \in Documents, NEW enforced, NEW recommended
  PROVE  DOMAIN fold_into_json(Manifest, d, enforced, recommended) = DOMAIN Default
<1>1. PICK flat : /\ DOMAIN flat = DOMAIN Manifest
                  /\ fold_into_json(Manifest, d, enforced, recommended) =
                       merge_json_objects(d, unflatten_from_paths(Manifest, flat))
  BY DEF fold_into_json
<1>2. DOMAIN unflatten_from_paths(Manifest, flat) \subseteq DOMAIN d
  BY <1>1, Unflattened
<1>3. DOMAIN d = DOMAIN Default
  BY DocumentsAssumption
<1> QED
  BY <1>1, <1>2, <1>3 DEF merge_json_objects

LEMMA SectionOrLeaf ==
  /\ \A x : Section(x).section /\ Section(x).entries = x
  /\ \A v : ~Leaf(v).section /\ Leaf(v).value = v
  BY DEF Section, Leaf

(* ... and stays as it is when the policy says nothing.                    *)
LEMMA FoldNothing ==
  ASSUME NEW d \in Documents
  PROVE  FoldOf(d, NoTrees) = d
<1> DEFINE input == [ResolutionInput EXCEPT !.recommended = Nothing, !.enforced = Nothing,
                                            !.config_file = flatten_to_paths(d)]
           flat == [p \in DOMAIN Manifest |-> resolve(Manifest, input).leaf[p].value]
           out == unflatten_from_paths(Manifest, flat)
<1>1. FoldOf(d, NoTrees) = merge_json_objects(d, out)
  BY DEF FoldOf, NoTrees, fold_into_json
<1>2. \A p \in DOMAIN Manifest : flat[p] = flatten_to_paths(d)[p]
  <2> SUFFICES ASSUME NEW p \in DOMAIN Manifest PROVE flat[p] = flatten_to_paths(d)[p]
    OBVIOUS
  <2>1. p \in DOMAIN flatten_to_paths(d)
    BY FlatHasLeaves
  <2>2. resolve(Manifest, input).leaf[p].value = flatten_to_paths(d)[p]
    BY <2>1, FileDecides
  <2> QED
    BY <2>2
<1> HIDE DEF input
<1> HIDE DEF flat
<1>3. DOMAIN flat = DOMAIN Manifest
  BY DEF flat
<1> HIDE DEF out
<1>4. DOMAIN out \subseteq DOMAIN d
  BY <1>3, Unflattened DEF out
<1>5. ASSUME NEW k \in DOMAIN out
      PROVE  (IF out[k].section /\ d[k].section THEN Section(Over(d[k].entries, out[k].entries)) ELSE out[k]) = d[k]
  <2>0. d[k] \in {Leaf(d[k].value), Section([l \in DOMAIN d[k].entries |-> d[k].entries[l]])}
    BY <1>4, <1>5, DocumentsAssumption
  <2>1. CASE d[k].section
    <3>1. PICK held \in SUBSET DOMAIN d[k].entries :
            /\ \A l \in held : <<k, l>> \in DOMAIN Manifest
            /\ out[k] = Section([l \in held |-> flat[<<k, l>>]])
      BY <1>3, <1>5, <2>1, Unflattened DEF out
    <3>2. out[k].section /\ out[k].entries = [l \in held |-> flat[<<k, l>>]]
      BY <3>1, SectionOrLeaf
    <3>3. \A l \in held : flat[<<k, l>>] = d[k].entries[l]
      BY <1>2, <1>4, <1>5, <2>1, <3>1, FlatHasLeaves
    <3>4. Over(d[k].entries, out[k].entries) = [l \in DOMAIN d[k].entries |-> d[k].entries[l]]
      BY <3>2, <3>3 DEF Over
    <3>5. d[k] = Section([l \in DOMAIN d[k].entries |-> d[k].entries[l]])
      BY <2>0, <2>1, SectionOrLeaf
    <3> QED
      BY <2>1, <3>2, <3>4, <3>5
  <2>2. CASE ~d[k].section
    <3>1. <<k>> \in DOMAIN Manifest /\ out[k] = Leaf(flat[<<k>>])
      BY <1>3, <1>5, <2>2, Unflattened DEF out
    <3>2. flat[<<k>>] = d[k].value
      BY <1>2, <1>4, <1>5, <3>1, FlatHasLeaves
    <3>3. d[k] = Leaf(d[k].value)
      BY <2>0, <2>2, SectionOrLeaf
    <3> QED
      BY <2>2, <3>1, <3>2, <3>3
  <2> QED
    BY <2>1, <2>2
<1>6. merge_json_objects(d, out) = [k \in DOMAIN d |-> d[k]]
  BY <1>4, <1>5 DEF merge_json_objects
<1>7. d = [k \in DOMAIN d |-> d[k]]
  BY DocumentsAssumption
<1> QED
  BY <1>1, <1>6, <1>7

LEMMA NoTreesIsTrees ==
  /\ NoTrees \in PolicyTrees
  /\ \A d \in Documents : d \in Values /\ FoldOf(d, NoTrees) = d
  /\ \A d \in Documents, x \in PolicyTrees : FoldOf(d, x) \in Values
  /\ Default \in Documents /\ Docs \subseteq Documents
  BY FoldNothing DEF PolicyTrees, Values, Documents

LEMMA ValuesHaveKeys ==
  ASSUME NEW d \in Values
  PROVE  DOMAIN d = DOMAIN Default
<1>1. \A e \in Documents : DOMAIN e = DOMAIN Default
  BY DocumentsAssumption
<1> QED
  BY <1>1, FoldKeepsKeys DEF Values, FoldOf

LEMMA WholeLoads ==
  \A d : load(Whole(CurrentVersion, d)).ok /\ load(Whole(CurrentVersion, d)).doc = d
  BY DEF load, Whole, CurrentVersion

LEMMA FileLoads ==
  ASSUME NEW f \in StartFiles \cup {Whole(CurrentVersion, d) : d \in Docs}
  PROVE  load(f).doc \in Documents
  BY WholeLoads DEF Documents

(* Whoever is alone stays alone in a step of another; so a step of a thread *)
(* that is at work leaves the others as right as they were.                 *)
LEMMA OthersStay ==
  ASSUME ManagedInv, NEW t \in Threads, th[t].op # "idle", NEW u \in Threads \ {t},
         th'[u] = th[u], wlock' = u <=> wlock = u, tmp'[u] = tmp[u], run' = run
  PROVE  ThreadInv(u)'
<1>1. ThreadInv(u)
  BY DEF ManagedInv
<1>2. ~(th[u].op # "idle" /\ th[u].alone)
  BY <1>1 DEF ThreadInv
<1> QED
  BY <1>1, <1>2 DEF ThreadInv

LEMMA AgreesStays ==
  ASSUME ManagedInv, NEW t \in Threads, th[t].pc \notin {"commit", "notify"},
         \A u \in Threads \ {t} : th'[u].pc = th[u].pc,
         UNCHANGED <<file, current, settled, run, basis>>
  PROVE  AgreesInv'
  BY DEF ManagedInv, AgreesInv

LEMMA FinishAgrees ==
  ASSUME ManagedInv, NEW t \in Threads, Finish(t), UNCHANGED <<file, run>>,
         th[t].alone => current' = FoldOf(load(file).doc, th[t].trees)
  PROVE  AgreesInv'
  BY DEF AgreesInv, Finish

LEMMA IdleIsFine ==
  ASSUME NEW t \in Threads, th'[t] = Idle, wlock' # t
  PROVE  ThreadInv(t)'
<1>1. Idle.op = "idle" /\ Idle.pc = ""
  BY DEF Idle
<1> QED
  BY <1>1 DEF ThreadInv, Saving, Refreshing

LEMMA IdleState == Idle \in ThreadStates
<1>1. NoEntry \in Entries
  BY DEF NoEntry, Entries, Versions
<1> QED
  BY <1>1, NoTreesIsTrees DEF Idle, ThreadStates

(* A thread begins.                                                        *)
LEMMA Begins ==
  ASSUME ManagedInv, NEW t \in Threads, NEW d \in Values,
         NEW op \in {"save", "reload", "refresh"},
         NEW pc \in {"create", "set", "ask"}, Begin(t, op, pc, d),
         op = "save" <=> pc = "create", op = "reload" <=> pc = "set",
         op = "save" => wlock = Free /\ d \in Docs,
         op = "reload" => d = load(file).doc,
         wlock' = IF op = "save" THEN t ELSE wlock,
         UNCHANGED <<file, tmp, current, seen, cache, served, run, settled, basis>>
  PROVE  ManagedInv'
<1> DEFINE others == {u \in Threads \ {t} : th[u].op # "idle"}
           calm == \A u \in others : op = "save" /\ th[u].op = "save"
<1>1. ManagedTypes /\ AgreesInv /\ ThreadInv(t) /\ th[t].op = "idle" /\ run.up
  BY DEF ManagedInv, Begin
<1>2. th' = [u \in Threads |->
               IF u = t THEN [Idle EXCEPT !.op = op, !.pc = pc, !.doc = d, !.alone = calm]
               ELSE [th[u] EXCEPT !.alone = @ /\ (calm \/ u \notin others)]]
  BY DEF Begin
<1>3. calm => others = {}
  <2>1. ASSUME calm, NEW u \in others PROVE FALSE
    <3>1. wlock = Free /\ th[u].op = "save" /\ ThreadInv(u)
      BY <2>1 DEF ManagedInv
    <3> QED
      BY <3>1, FreeAssumption DEF ThreadInv
  <2> QED
    BY <2>1
<1>4. \A u \in Threads \ {t} :
        /\ th'[u].op = th[u].op /\ th'[u].pc = th[u].pc /\ th'[u].doc = th[u].doc
        /\ th'[u].trees = th[u].trees /\ th'[u].entry = th[u].entry
        /\ th'[u].alone \in BOOLEAN
        /\ th'[u].alone => th[u].op = "idle"
  <2> SUFFICES ASSUME NEW u \in Threads \ {t}
               PROVE  /\ th'[u].op = th[u].op /\ th'[u].pc = th[u].pc /\ th'[u].doc = th[u].doc
                      /\ th'[u].trees = th[u].trees /\ th'[u].entry = th[u].entry
                      /\ th'[u].alone \in BOOLEAN
                      /\ th'[u].alone => th[u].op = "idle"
    OBVIOUS
  <2>1. th'[u] = [th[u] EXCEPT !.alone = th[u].alone /\ (calm \/ u \notin others)] /\ th[u] \in ThreadStates
    BY <1>1, <1>2 DEF ManagedTypes
  <2> HIDE DEF calm, others
  <2>2. th'[u].alone = (th[u].alone /\ (calm \/ u \notin others))
    BY <2>1 DEF ThreadStates
  <2>3. th'[u].alone => u \notin others
    BY <1>3, <2>2 DEF others
  <2>4. th'[u].alone \in BOOLEAN
    BY <2>2
  <2> QED
    BY <2>1, <2>3, <2>4 DEF ThreadStates, others
<1>5. /\ th'[t].op = op /\ th'[t].pc = pc /\ th'[t].doc = d /\ th'[t].trees = NoTrees
      /\ th'[t].entry = NoEntry /\ th'[t].alone \in BOOLEAN
      /\ th'[t].alone => \A u \in Threads \ {t} : th[u].op = "idle"
  <2>1. th'[t] = [Idle EXCEPT !.op = op, !.pc = pc, !.doc = d, !.alone = calm]
    BY <1>2
  <2>2. th'[t].alone = calm
    BY <2>1 DEF Idle
  <2> QED
    BY <1>3, <2>1, <2>2 DEF Idle
<1>6. ManagedTypes'
  <2>1. NoEntry \in Entries /\ NoTrees \in PolicyTrees
    BY NoTreesIsTrees DEF NoEntry, Entries, Versions
  <2>2. th'[t] = [op |-> op, pc |-> pc, doc |-> d, entry |-> NoEntry, trees |-> NoTrees, alone |-> th'[t].alone]
    BY <1>2, <1>5 DEF Idle
  <2>3. th'[t] \in ThreadStates
    BY <1>5, <2>1, <2>2 DEF ThreadStates, Saving, Refreshing
  <2>4. \A u \in Threads \ {t} : th'[u] \in ThreadStates
    <3> SUFFICES ASSUME NEW u \in Threads \ {t} PROVE th'[u] \in ThreadStates
      OBVIOUS
    <3>1. th[u] \in ThreadStates
      BY <1>1 DEF ManagedTypes
    <3>2. th'[u] = [th[u] EXCEPT !.alone = th'[u].alone]
      BY <1>2, <3>1 DEF ThreadStates
    <3> HIDE <1>2
    <3> QED
      BY <1>4, <3>1, <3>2 DEF ThreadStates
  <2>5. th' \in [Threads -> ThreadStates]
    BY <1>2, <2>3, <2>4
  <2>6. wlock' \in Threads \cup {Free}
    BY <1>1 DEF ManagedTypes
  <2> QED
    BY <1>1, <2>5, <2>6 DEF ManagedTypes
<1>7. ThreadInv(t)'
  <2>1. load(file).doc \in Documents
    BY <1>1, FileLoads DEF ManagedTypes
  <2>2. wlock # t
    BY <1>1 DEF ThreadInv
  <2> QED
    BY <1>1, <1>4, <1>5, <2>1, <2>2 DEF ThreadInv, Saving, Refreshing
<1>8. ASSUME NEW u \in Threads \ {t} PROVE ThreadInv(u)'
  <2>1. ThreadInv(u)
    BY DEF ManagedInv
  <2>2. wlock' = u <=> wlock = u
    BY <1>8, <2>1, FreeAssumption DEF ThreadInv
  <2> QED
    BY <1>1, <1>4, <2>1, <2>2 DEF ThreadInv
<1>9. AgreesInv'
  BY <1>1, <1>4, AgreesStays DEF ThreadInv
<1> QED
  BY <1>6, <1>7, <1>8, <1>9 DEF ManagedInv

(* A thread that works on: its own state, what it leaves alone, and whether *)
(* it has ended.                                                            *)
LEMMA WorksOn ==
  ASSUME ManagedInv, NEW t \in Threads, th[t].op # "idle",
         NEW x \in ThreadStates, th' = [th EXCEPT ![t] = x],
         ManagedTypes', ThreadInv(t)', AgreesInv',
         \A u \in Threads \ {t} : tmp'[u] = tmp[u] /\ (wlock' = u <=> wlock = u),
         run' = run
  PROVE  ManagedInv'
<1>1. \A u \in Threads \ {t} : th'[u] = th[u]
  BY DEF ManagedInv, ManagedTypes
<1>2. \A u \in Threads \ {t} : ThreadInv(u)'
  BY <1>1, OthersStay
<1> QED
  BY <1>2 DEF ManagedInv

LEMMA StepState ==
  ASSUME ManagedTypes, NEW t \in Threads, NEW pc \in Saving \cup Refreshing \cup {"", "set", "notify"}, Step(t, pc)
  PROVE  /\ th' = [th EXCEPT ![t] = [th[t] EXCEPT !.pc = pc]]
         /\ [th[t] EXCEPT !.pc = pc] \in ThreadStates
         /\ th'[t].op = th[t].op /\ th'[t].pc = pc /\ th'[t].doc = th[t].doc
         /\ th'[t].trees = th[t].trees /\ th'[t].alone = th[t].alone
         /\ \A u \in Threads \ {t} : th'[u] = th[u]
<1>1. th[t] \in ThreadStates
  BY DEF ManagedTypes
<1>2. th' = [th EXCEPT ![t] = [th[t] EXCEPT !.pc = pc]]
  BY DEF Step
<1>3. [th[t] EXCEPT !.pc = pc] \in ThreadStates
  BY <1>1 DEF ThreadStates
<1>4. th'[t] = [th[t] EXCEPT !.pc = pc] /\ \A u \in Threads \ {t} : th'[u] = th[u]
  BY <1>2 DEF ManagedTypes
<1>5. th'[t].op = th[t].op /\ th'[t].pc = pc /\ th'[t].doc = th[t].doc
      /\ th'[t].trees = th[t].trees /\ th'[t].alone = th[t].alone
  BY <1>1, <1>4 DEF ThreadStates
<1> QED
  BY <1>2, <1>3, <1>4, <1>5

(* A step that fails, or that ends, puts the thread to rest.                *)
LEMMA RestState ==
  ASSUME ManagedTypes, NEW t \in Threads, Fail(t) \/ Finish(t)
  PROVE  th' = [th EXCEPT ![t] = Idle] /\ th'[t] = Idle /\ \A u \in Threads \ {t} : th'[u] = th[u]
  BY DEF ManagedTypes, Fail, Finish

LEMMA SaveSteps ==
  ASSUME ManagedInv, NEW t \in Threads, write(t) \/ sync_all(t) \/ rename(t) \/ WriteFails(t) \/ SaveCommits(t)
  PROVE  ManagedInv'
<1>1. /\ ManagedTypes /\ AgreesInv /\ ThreadInv(t) /\ th[t] \in ThreadStates
      /\ th[t].op = "save" /\ wlock = t /\ th[t].doc \in Docs /\ th[t].trees = NoTrees
  BY DEF ManagedInv, ManagedTypes, ThreadInv, write, sync_all, rename, WriteFails, SaveCommits, At, Saving
<1>2. Free \notin Threads
  BY FreeAssumption
<1>3. CASE write(t)
  <2>1. Step(t, "sync") /\ th[t].pc = "create" /\ tmp' = [tmp EXCEPT ![t] = Torn]
        /\ UNCHANGED <<file, current, wlock, seen, cache, served, run, settled, basis, left>>
    BY <1>3 DEF write, At
  <2>2. /\ th' = [th EXCEPT ![t] = [th[t] EXCEPT !.pc = "sync"]] /\ [th[t] EXCEPT !.pc = "sync"] \in ThreadStates
        /\ th'[t].op = "save" /\ th'[t].pc = "sync" /\ th'[t].doc = th[t].doc
        /\ th'[t].trees = th[t].trees /\ th'[t].alone = th[t].alone
        /\ \A u \in Threads \ {t} : th'[u] = th[u]
    BY <1>1, <2>1, StepState DEF Saving
  <2>3. ManagedTypes'
    BY <1>1, <2>1, <2>2 DEF ManagedTypes
  <2>4. ThreadInv(t)'
    BY <1>1, <2>1, <2>2 DEF ThreadInv, Saving, Refreshing
  <2>5. AgreesInv'
    BY <2>1, <2>2, AgreesStays
  <2> QED
    BY <1>1, <2>1, <2>2, <2>3, <2>4, <2>5, WorksOn DEF ManagedTypes
<1>4. CASE sync_all(t)
  <2>1. Step(t, "rename") /\ th[t].pc = "sync" /\ tmp' = [tmp EXCEPT ![t] = Whole(CurrentVersion, th[t].doc)]
        /\ UNCHANGED <<file, current, wlock, seen, cache, served, run, settled, basis, left>>
    BY <1>4 DEF sync_all, At
  <2>2. /\ th' = [th EXCEPT ![t] = [th[t] EXCEPT !.pc = "rename"]] /\ [th[t] EXCEPT !.pc = "rename"] \in ThreadStates
        /\ th'[t].op = "save" /\ th'[t].pc = "rename" /\ th'[t].doc = th[t].doc
        /\ th'[t].trees = th[t].trees /\ th'[t].alone = th[t].alone
        /\ \A u \in Threads \ {t} : th'[u] = th[u]
    BY <1>1, <2>1, StepState DEF Saving
  <2>3. ManagedTypes'
    BY <1>1, <2>1, <2>2 DEF ManagedTypes
  <2>4. ThreadInv(t)'
    BY <1>1, <2>1, <2>2 DEF ThreadInv, Saving, Refreshing, ManagedTypes
  <2>5. AgreesInv'
    BY <2>1, <2>2, AgreesStays
  <2> QED
    BY <1>1, <2>1, <2>2, <2>3, <2>4, <2>5, WorksOn DEF ManagedTypes
<1>5. CASE rename(t)
  <2>1. Step(t, "commit") /\ th[t].pc = "rename" /\ file' = tmp[t] /\ tmp' = [tmp EXCEPT ![t] = Empty]
        /\ UNCHANGED <<current, wlock, seen, cache, served, run, settled, basis, left>>
    BY <1>5 DEF rename, At
  <2>2. /\ th' = [th EXCEPT ![t] = [th[t] EXCEPT !.pc = "commit"]] /\ [th[t] EXCEPT !.pc = "commit"] \in ThreadStates
        /\ th'[t].op = "save" /\ th'[t].pc = "commit" /\ th'[t].doc = th[t].doc
        /\ th'[t].trees = th[t].trees /\ th'[t].alone = th[t].alone
        /\ \A u \in Threads \ {t} : th'[u] = th[u]
    BY <1>1, <2>1, StepState DEF Saving
  <2>3. file' = Whole(CurrentVersion, th[t].doc) /\ load(file').doc = th[t].doc
    BY <1>1, <2>1, WholeLoads DEF ThreadInv
  <2>4. ManagedTypes'
    BY <1>1, <2>1, <2>2, <2>3 DEF ManagedTypes
  <2>5. ThreadInv(t)'
    BY <1>1, <2>1, <2>2, <2>3 DEF ThreadInv, Saving, Refreshing
  <2>6. AgreesInv'
    BY <2>2 DEF AgreesInv
  <2> QED
    BY <1>1, <2>1, <2>2, <2>4, <2>5, <2>6, WorksOn DEF ManagedTypes
<1>6. CASE WriteFails(t)
  <2>1. Fail(t) /\ th[t].pc \in {"create", "sync", "rename"} /\ tmp' = [tmp EXCEPT ![t] = Empty] /\ wlock' = Free
        /\ UNCHANGED <<file, current, seen, cache, served, run, settled, basis, left>>
    BY <1>6 DEF WriteFails
  <2>2. th' = [th EXCEPT ![t] = Idle] /\ th'[t] = Idle /\ \A u \in Threads \ {t} : th'[u] = th[u]
    BY <1>1, <2>1, RestState
  <2>3. ManagedTypes'
    BY <1>1, <2>1, <2>2, IdleState DEF ManagedTypes
  <2>4. ThreadInv(t)'
    BY <1>2, <2>1, <2>2, IdleIsFine
  <2>5. AgreesInv'
    BY <2>1, <2>2, AgreesStays
  <2> QED
    BY <1>1, <1>2, <2>1, <2>2, <2>3, <2>4, <2>5, IdleState, WorksOn DEF ManagedTypes
<1>7. CASE SaveCommits(t)
  <2>1. Finish(t) /\ th[t].pc = "commit" /\ current' = th[t].doc /\ wlock' = Free
        /\ UNCHANGED <<file, tmp, seen, cache, served, run, left>>
    BY <1>7 DEF SaveCommits, At
  <2>2. th' = [th EXCEPT ![t] = Idle] /\ th'[t] = Idle /\ \A u \in Threads \ {t} : th'[u] = th[u]
    BY <1>1, <2>1, RestState
  <2>3. th[t].doc \in Documents /\ FoldOf(th[t].doc, NoTrees) = th[t].doc /\ th[t].doc \in Values
    BY <1>1, NoTreesIsTrees
  <2>4. ManagedTypes'
    <3>1. settled' \in BOOLEAN /\ basis' \in PolicyTrees
      BY <1>1, <2>1 DEF Finish, ThreadStates
    <3>2. th' \in [Threads -> ThreadStates]
      BY <1>1, <2>2, IdleState DEF ManagedTypes
    <3> QED
      BY <1>1, <2>1, <2>3, <3>1, <3>2 DEF ManagedTypes
  <2>5. ThreadInv(t)'
    BY <1>2, <2>1, <2>2, IdleIsFine
  <2>6. th[t].alone => current' = FoldOf(load(file).doc, th[t].trees)
    BY <1>1, <2>1, <2>3 DEF ThreadInv
  <2>7. AgreesInv'
    BY <2>1, <2>6, FinishAgrees
  <2>8. \A u \in Threads \ {t} : tmp'[u] = tmp[u] /\ (wlock' = u <=> wlock = u)
    BY <1>1, <1>2, <2>1
  <2> QED
    BY <1>1, <2>1, <2>2, <2>4, <2>5, <2>7, <2>8, IdleState, WorksOn
<1> QED
  BY <1>3, <1>4, <1>5, <1>6, <1>7

(* Current is set, by a reload or a refresh, and the subscribers hear.      *)
LEMMA PublishSteps ==
  ASSUME ManagedInv, NEW t \in Threads, ReloadSets(t) \/ set_current_and_notify(t) \/ Notify(t)
  PROVE  ManagedInv'
<1>1. /\ ManagedTypes /\ AgreesInv /\ ThreadInv(t) /\ th[t] \in ThreadStates
      /\ th[t].pc \in {"set", "swap", "notify"} /\ th[t].op # "idle" /\ th[t].op # "save" /\ wlock # t
  BY DEF ManagedInv, ManagedTypes, ThreadInv, ReloadSets, set_current_and_notify, Notify, At, Saving
<1>2. load(file).doc \in Documents
  BY <1>1, FileLoads DEF ManagedTypes
<1>3. CASE ReloadSets(t) \/ set_current_and_notify(t)
  <2>1. Step(t, "notify") /\ th[t].pc \in {"set", "swap"} /\ current' = th[t].doc
        /\ UNCHANGED <<file, tmp, wlock, seen, cache, served, run, settled, basis, left>>
    BY <1>3 DEF ReloadSets, set_current_and_notify, At
  <2>2. /\ th' = [th EXCEPT ![t] = [th[t] EXCEPT !.pc = "notify"]] /\ [th[t] EXCEPT !.pc = "notify"] \in ThreadStates
        /\ th'[t].op = th[t].op /\ th'[t].pc = "notify" /\ th'[t].doc = th[t].doc
        /\ th'[t].trees = th[t].trees /\ th'[t].alone = th[t].alone
        /\ \A u \in Threads \ {t} : th'[u] = th[u]
    BY <1>1, <2>1, StepState DEF Saving
  <2>3. ManagedTypes'
    BY <1>1, <2>1, <2>2 DEF ManagedTypes, ThreadStates
  <2>4. th[t].alone => current' = FoldOf(load(file).doc, th[t].trees)
    BY <1>1, <1>2, <2>1, NoTreesIsTrees DEF ThreadInv
  <2>5. ThreadInv(t)'
    BY <1>1, <2>1, <2>2, <2>4 DEF ThreadInv, Saving, Refreshing
  <2>6. AgreesInv'
    BY <2>2 DEF AgreesInv
  <2> QED
    BY <1>1, <2>1, <2>2, <2>3, <2>5, <2>6, WorksOn
<1>4. CASE Notify(t)
  <2>1. Finish(t) /\ th[t].pc = "notify" /\ UNCHANGED <<file, tmp, current, wlock, cache, served, run, left>>
    BY <1>4 DEF Notify, At
  <2>2. th' = [th EXCEPT ![t] = Idle] /\ th'[t] = Idle /\ \A u \in Threads \ {t} : th'[u] = th[u]
    BY <1>1, <2>1, RestState
  <2>3. ManagedTypes'
    <3>1. settled' \in BOOLEAN /\ basis' \in PolicyTrees
      BY <1>1, <2>1 DEF Finish, ThreadStates
    <3>2. th' \in [Threads -> ThreadStates]
      BY <1>1, <2>2, IdleState DEF ManagedTypes
    <3> QED
      BY <1>1, <2>1, <3>1, <3>2 DEF ManagedTypes
  <2>4. ThreadInv(t)'
    BY <1>1, <2>1, <2>2, IdleIsFine
  <2>5. th[t].alone => current' = FoldOf(load(file).doc, th[t].trees)
    BY <1>1, <2>1 DEF ThreadInv
  <2>6. AgreesInv'
    BY <2>1, <2>5, FinishAgrees
  <2> QED
    BY <1>1, <2>1, <2>2, <2>3, <2>4, <2>6, IdleState, WorksOn
<1> QED
  BY <1>3, <1>4

LEMMA EntryHasPolicy ==
  ASSUME NEW e \in Entries, e.there
  PROVE  e.policy \in DOMAIN Policies /\ policy_trees(e.policy) \in PolicyTrees
  BY DEF Entries, Versions, PolicyTrees

(* A fetch that ends gives the trees of one policy, or none, and leaves a   *)
(* cache whose entry is a policy with its own etag.                         *)
LEMMA FetchGives ==
  ASSUME ManagedTypes, NEW t \in Threads, Fetch(t)
  PROVE  \/ \E trees \in PolicyTrees, e \in Entries : Answered(t, trees, e)
         \/ Fail(t) /\ UNCHANGED cache
<1> DEFINE e == th[t].entry
<1>1. /\ e \in Entries /\ cache \in Entries /\ served.policy \in Versions /\ served.now \in Nat
      /\ NoTrees \in PolicyTrees /\ NoEntry \in Entries
  BY NoTreesIsTrees DEF ManagedTypes, ThreadStates, NoEntry, Entries, Versions
<1>2. CASE NotModified(t)
  <2>1. e.there /\ Answered(t, policy_trees(e.policy), [e EXCEPT !.at = served.now])
    BY <1>2 DEF NotModified
  <2>2. [e EXCEPT !.at = served.now] \in Entries
    BY <1>1, <2>1 DEF Entries
  <2>3. [e EXCEPT !.at = served.now].policy = e.policy
    BY <1>1 DEF Entries
  <2> QED
    BY <1>1, <2>1, <2>2, EntryHasPolicy
<1>3. CASE Served(t)
  <2>1. /\ served.policy \in DOMAIN Policies
        /\ Answered(t, policy_trees(served.policy),
                    [there |-> TRUE, policy |-> served.policy, etag |-> served.policy, at |-> served.now])
    BY <1>1, <1>3 DEF Served, Versions
  <2>2. policy_trees(served.policy) \in PolicyTrees
    BY <2>1 DEF PolicyTrees
  <2>3. served.policy # 0
    BY <1>3 DEF Served
  <2>4. [there |-> TRUE, policy |-> served.policy, etag |-> served.policy, at |-> served.now] \in Entries
    BY <1>1, <2>3 DEF Entries
  <2> QED
    BY <2>1, <2>2, <2>4
<1>4. CASE Denied(t) \/ Unmanaged(t) \/ ClientError(t)
  BY <1>1, <1>4 DEF Denied, Unmanaged, ClientError
<1>5. CASE fall_back_to_cache(t)
  <2>1. CASE e.there /\ Answered(t, policy_trees(e.policy), cache)
    BY <1>1, <2>1, EntryHasPolicy
  <2>2. CASE Fail(t) /\ UNCHANGED cache
    BY <2>2
  <2> QED
    BY <1>5, <2>1, <2>2 DEF fall_back_to_cache
<1> QED
  BY <1>2, <1>3, <1>4, <1>5 DEF Fetch

LEMMA RefreshSteps ==
  ASSUME ManagedInv, NEW t \in Threads, ReadCache(t) \/ Fetch(t) \/ Fold(t)
  PROVE  ManagedInv'
<1>1. /\ ManagedTypes /\ AgreesInv /\ ThreadInv(t) /\ th[t] \in ThreadStates
      /\ th[t].pc \in {"ask", "asked", "fold"} /\ th[t].op = "refresh" /\ wlock # t /\ run.up
  BY DEF ManagedInv, ManagedTypes, ThreadInv, ReadCache, Fetch, Fold, At, NotModified, Served, Denied,
         Unmanaged, ClientError, fall_back_to_cache, Refreshing
<1>2. UNCHANGED <<file, tmp, current, wlock, seen, served, run, settled, basis, left>>
  BY DEF ReadCache, Fetch, Fold
<1>3. load(file).doc \in Documents
  BY <1>1, FileLoads DEF ManagedTypes
<1>4. ASSUME NEW x \in ThreadStates, th' = [th EXCEPT ![t] = x], x.op = "refresh", x.pc \in {"asked", "fold", "swap"},
             x.alone = th[t].alone, cache' \in Entries,
             x.pc = "swap" => x.doc = FoldOf(load(file).doc, x.trees)
      PROVE  ManagedInv'
  <2>1. th'[t] = x /\ \A u \in Threads \ {t} : th'[u] = th[u]
    BY <1>1, <1>4 DEF ManagedTypes
  <2>2. ManagedTypes'
    BY <1>1, <1>2, <1>4 DEF ManagedTypes
  <2>3. ThreadInv(t)'
    BY <1>1, <1>2, <1>4, <2>1 DEF ThreadInv, Saving, Refreshing
  <2>4. AgreesInv'
    BY <1>1, <1>2, <2>1, AgreesStays
  <2> QED
    BY <1>1, <1>2, <1>4, <2>2, <2>3, <2>4, WorksOn
<1>5. ASSUME Fail(t), UNCHANGED cache PROVE ManagedInv'
  <2>1. th' = [th EXCEPT ![t] = Idle] /\ th'[t] = Idle /\ \A u \in Threads \ {t} : th'[u] = th[u]
    BY <1>1, <1>5, RestState
  <2>2. ManagedTypes'
    BY <1>1, <1>2, <1>5, <2>1, IdleState DEF ManagedTypes
  <2>3. ThreadInv(t)'
    BY <1>1, <1>2, <2>1, IdleIsFine
  <2>4. AgreesInv'
    BY <1>1, <1>2, <2>1, AgreesStays
  <2> QED
    BY <1>1, <1>2, <2>1, <2>2, <2>3, <2>4, IdleState, WorksOn
<1>6. CASE ReadCache(t)
  <2> DEFINE x == [th[t] EXCEPT !.pc = "asked", !.entry = cache]
  <2>1. th' = [th EXCEPT ![t] = x] /\ UNCHANGED cache
    BY <1>6 DEF ReadCache
  <2>2. cache \in Entries
    BY <1>1 DEF ManagedTypes
  <2>3. x \in ThreadStates /\ x.op = "refresh" /\ x.pc = "asked" /\ x.alone = th[t].alone
    BY <1>1, <2>2 DEF ThreadStates, Refreshing
  <2> HIDE DEF x
  <2> QED
    BY <1>4, <2>1, <2>2, <2>3
<1>7. CASE Fetch(t)
  <2>1. CASE Fail(t) /\ UNCHANGED cache
    BY <1>5, <2>1
  <2>2. ASSUME NEW trees \in PolicyTrees, NEW e \in Entries, Answered(t, trees, e) PROVE ManagedInv'
    <3> DEFINE x == [th[t] EXCEPT !.pc = "fold", !.trees = trees]
    <3>1. th' = [th EXCEPT ![t] = x] /\ cache' = e
      BY <2>2 DEF Answered
    <3>2. x \in ThreadStates /\ x.op = "refresh" /\ x.pc = "fold" /\ x.alone = th[t].alone
      BY <1>1 DEF ThreadStates, Refreshing
    <3> HIDE DEF x
    <3> QED
      BY <1>4, <3>1, <3>2
  <2> QED
    BY <1>1, <1>7, <2>1, <2>2, FetchGives
<1>8. CASE Fold(t)
  <2>1. CASE load(file).ok
    <3> DEFINE d == FoldOf(load(file).doc, th[t].trees)
               x == [th[t] EXCEPT !.pc = "swap", !.doc = d]
    <3>1. th' = [th EXCEPT ![t] = x] /\ UNCHANGED cache
      BY <1>8, <2>1 DEF Fold, FoldOf
    <3>2. d \in Values /\ cache \in Entries
      BY <1>1, <1>3, NoTreesIsTrees DEF ManagedTypes, ThreadStates
    <3> HIDE DEF d
    <3>3. x \in ThreadStates /\ x.op = "refresh" /\ x.pc = "swap" /\ x.alone = th[t].alone
          /\ x.doc = d /\ x.trees = th[t].trees
      BY <1>1, <3>2 DEF ThreadStates, Refreshing
    <3> HIDE DEF x
    <3>4. x.doc = FoldOf(load(file).doc, x.trees)
      BY <3>3 DEF d
    <3> QED
      BY <1>4, <3>1, <3>2, <3>3, <3>4
  <2>2. CASE ~load(file).ok
    BY <1>5, <1>8, <2>2 DEF Fold
  <2> QED
    BY <2>1, <2>2
<1> QED
  BY <1>6, <1>7, <1>8

LEMMA BeginSteps ==
  ASSUME ManagedInv, NEW t \in Threads, save(t) \/ reload(t) \/ refresh(t)
  PROVE  ManagedInv'
<1>1. Docs \subseteq Values /\ Default \in Values
  BY NoTreesIsTrees
<1>2. CASE save(t)
  <2>1. PICK d \in Docs : Begin(t, "save", "create", d)
    BY <1>2 DEF save
  <2>2. d \in Values /\ wlock = Free /\ wlock' = t
        /\ UNCHANGED <<file, tmp, current, seen, cache, served, run, settled, basis>>
    BY <1>1, <1>2 DEF save
  <2> QED
    BY <2>1, <2>2, Begins
<1>3. CASE reload(t)
  <2>1. /\ Begin(t, "reload", "set", load(file).doc)
        /\ UNCHANGED <<file, tmp, current, wlock, seen, cache, served, run, settled, basis>>
    BY <1>3 DEF reload
  <2>2. load(file).doc \in Values
    BY FileLoads, NoTreesIsTrees DEF ManagedInv, ManagedTypes
  <2> QED
    BY <2>1, <2>2, Begins
<1>4. CASE refresh(t)
  <2>1. /\ Begin(t, "refresh", "ask", Default)
        /\ UNCHANGED <<file, tmp, current, wlock, seen, cache, served, run, settled, basis>>
    BY <1>4 DEF refresh
  <2> QED
    BY <1>1, <2>1, Begins
<1> QED
  BY <1>2, <1>3, <1>4

LEMMA CrashStep ==
  ASSUME ManagedInv, Crash
  PROVE  ManagedInv'
<1>1. ManagedTypes'
  <2>1. ManagedTypes /\ NoTrees \in PolicyTrees /\ Default \in Values
    BY NoTreesIsTrees DEF ManagedInv
  <2> QED
    BY <2>1, IdleState DEF Crash, ManagedTypes
<1>2. AgreesInv'
  BY DEF AgreesInv, Crash
<1>3. ASSUME NEW t \in Threads PROVE ThreadInv(t)'
  <2>1. th'[t] = Idle /\ wlock' # t
    BY FreeAssumption DEF Crash
  <2> QED
    BY <2>1, IdleIsFine
<1> QED
  BY <1>1, <1>2, <1>3 DEF ManagedInv

LEMMA RestartStep ==
  ASSUME ManagedInv, Restart
  PROVE  ManagedInv'
<1>1. /\ ManagedTypes /\ ~run.up /\ build
      /\ UNCHANGED <<file, tmp, wlock, cache, served, th>>
  BY DEF ManagedInv, Restart
<1>2. load(file).doc \in Documents
  BY <1>1, FileLoads DEF ManagedTypes
<1>3. /\ load(file).doc \in Values /\ FoldOf(load(file).doc, NoTrees) = load(file).doc
      /\ NoTrees \in PolicyTrees
  BY <1>2, NoTreesIsTrees
<1>4. run'.up = TRUE /\ run' \in [up : BOOLEAN, given : Values]
  <2> DEFINE trees == IF cache.there THEN policy_trees(cache.policy) ELSE NoTrees
  <2>1. run' = [up |-> TRUE, given |-> FoldOf(load(file).doc, trees)]
    BY <1>1 DEF build, FoldOf
  <2>2. cache \in Entries
    BY <1>1 DEF ManagedTypes
  <2>3. trees \in PolicyTrees
    BY <1>3, <2>2, EntryHasPolicy
  <2> HIDE DEF trees
  <2>4. FoldOf(load(file).doc, trees) \in Values
    BY <1>2, <2>3, NoTreesIsTrees
  <2> QED
    BY <2>1, <2>4
<1>5. current' = load(file).doc /\ basis' = NoTrees /\ settled' = TRUE
  BY <1>1 DEF build
<1>6. ManagedTypes'
  BY <1>1, <1>3, <1>4, <1>5 DEF ManagedTypes
<1>7. AgreesInv'
  BY <1>1, <1>3, <1>5 DEF AgreesInv
<1>8. ASSUME NEW t \in Threads PROVE ThreadInv(t)'
  <2>1. ThreadInv(t)
    BY DEF ManagedInv
  <2> QED
    BY <1>1, <2>1 DEF ThreadInv, Saving, Refreshing
<1> QED
  BY <1>6, <1>7, <1>8 DEF ManagedInv

LEMMA OtherSavesStep ==
  ASSUME ManagedInv, OtherSaves
  PROVE  ManagedInv'
<1>1. /\ ManagedTypes /\ \E d \in Docs : file' = Whole(CurrentVersion, d)
      /\ settled' = FALSE /\ UNCHANGED <<tmp, current, wlock, seen, cache, served, run, basis>>
      /\ th' = [t \in Threads |-> [th[t] EXCEPT !.alone = th[t].alone /\ th[t].op = "idle"]]
  BY DEF ManagedInv, OtherSaves
<1>2. ASSUME NEW t \in Threads
      PROVE  /\ th'[t].op = th[t].op /\ th'[t].pc = th[t].pc /\ th'[t].doc = th[t].doc
             /\ th'[t].trees = th[t].trees /\ th'[t] \in ThreadStates
             /\ th'[t].alone => th[t].op = "idle"
  <2>1. th[t] \in ThreadStates
    BY <1>1 DEF ManagedTypes
  <2>2. th'[t] = [th[t] EXCEPT !.alone = th[t].alone /\ th[t].op = "idle"]
    BY <1>1
  <2>3. th'[t].alone = (th[t].alone /\ th[t].op = "idle")
    BY <2>1, <2>2 DEF ThreadStates
  <2>4. (th[t].alone /\ th[t].op = "idle") \in BOOLEAN
    OBVIOUS
  <2>5. th'[t] \in ThreadStates
    BY <2>1, <2>2, <2>4 DEF ThreadStates
  <2> QED
    BY <2>1, <2>2, <2>3, <2>5 DEF ThreadStates
<1>3. ManagedTypes'
  <2>1. th' \in [Threads -> ThreadStates]
    BY <1>1, <1>2
  <2> QED
    BY <1>1, <2>1 DEF ManagedTypes
<1>4. AgreesInv'
  BY <1>1 DEF AgreesInv
<1>5. ASSUME NEW t \in Threads PROVE ThreadInv(t)'
  <2>1. ThreadInv(t)
    BY DEF ManagedInv
  <2> QED
    BY <1>1, <1>2, <2>1 DEF ThreadInv
<1> QED
  BY <1>3, <1>4, <1>5 DEF ManagedInv

LEMMA ServiceChanges ==
  ASSUME ManagedInv, Publish \/ Tick
  PROVE  ManagedInv'
<1>1. UNCHANGED <<file, tmp, current, wlock, seen, cache, th, run, settled, basis>>
  BY DEF Publish, Tick
<1>2. served' \in [policy : Versions, last : Versions, now : Nat]
  <2>1. served \in [policy : Versions, last : Versions, now : Nat]
    BY DEF ManagedInv, ManagedTypes
  <2>2. CASE Publish
    <3>1. PICK v \in Versions : served' = [served EXCEPT !.policy = v, !.last = IF v = 0 THEN @ ELSE v]
      BY <2>2 DEF Publish, Versions
    <3>2. (IF v = 0 THEN served.last ELSE v) \in Versions
      BY <2>1
    <3> QED
      BY <2>1, <3>1, <3>2
  <2>3. CASE Tick
    <3>1. served' = [served EXCEPT !.now = served.now + 1] /\ served.now + 1 \in Nat
      BY <2>1, <2>3 DEF Tick
    <3> QED
      BY <2>1, <3>1
  <2> QED
    BY <2>2, <2>3
<1> QED
  BY <1>1, <1>2 DEF ManagedInv, ManagedTypes, AgreesInv, ThreadInv

LEMMA ManagedInvariant == Spec => []ManagedInv
<1>1. Init => ManagedInv
  <2> SUFFICES ASSUME ManagedInit PROVE ManagedInv
    BY DEF Init
  <2>1. NoTrees \in PolicyTrees /\ Default \in Values
    BY NoTreesIsTrees
  <2>2. NoEntry \in Entries /\ served \in [policy : Versions, last : Versions, now : Nat]
    BY DEF ManagedInit, NoEntry, Entries, Versions
  <2>3. ManagedTypes
    BY <2>1, <2>2, IdleState DEF ManagedInit, ManagedTypes
  <2>4. \A t \in Threads : th[t].op = "idle" /\ th[t].pc = "" /\ wlock # t
    BY FreeAssumption DEF ManagedInit, Idle
  <2>5. \A t \in Threads : ThreadInv(t)
    BY <2>4 DEF ThreadInv, Saving, Refreshing
  <2>6. AgreesInv
    BY DEF ManagedInit, AgreesInv
  <2> QED
    BY <2>3, <2>5, <2>6 DEF ManagedInv
<1>2. ManagedInv /\ [Next]_vars => ManagedInv'
  <2>1. ASSUME ManagedInv, UNCHANGED managed PROVE ManagedInv'
    BY <2>1 DEF ManagedInv, managed, ManagedTypes, AgreesInv, ThreadInv
  <2>2. ASSUME ManagedInv, ManagedNext PROVE ManagedInv'
    BY <2>2, SaveSteps, PublishSteps, RefreshSteps, BeginSteps, CrashStep, RestartStep, OtherSavesStep,
       ServiceChanges DEF ManagedNext
  <2> QED
    BY <2>1, <2>2 DEF Next, vars
<1> QED
  BY <1>1, <1>2, PTL DEF Spec

(* The running value, the file and the cached policy stay right beside each *)
(* other (ConfigStore, FileBackend, PolicyClient), and with one attempt a   *)
(* refused roaming write was refused for somebody else's sake               *)
(* (RoamingClient): for any number of threads and writers, any documents,   *)
(* policies and number of repetitions.                                      *)
THEOREM ValuesCorrect == Spec => []ValuesAreRight
<1>1. ManagedInv => SettledIsRight
  <2> SUFFICES ASSUME ManagedInv, settled, Quiet, run.up
               PROVE  current = FoldOf(load(file).doc, basis)
    BY DEF SettledIsRight, FoldOf
  <2>1. \A t \in Threads : th[t].pc = ""
    BY DEF ManagedInv, ThreadInv, Quiet
  <2> QED
    BY <2>1 DEF ManagedInv, AgreesInv
<1>2. ManagedInv => FileIsWhole
  <2> SUFFICES ASSUME ManagedInv PROVE FileIsWhole
    OBVIOUS
  <2>1. CASE file \in StartFiles
    BY <2>1, StartFilesAssumption DEF FileIsWhole
  <2>2. CASE \E d \in Docs : file = Whole(CurrentVersion, d)
    <3>1. PICK d \in Docs : file = Whole(CurrentVersion, d)
      BY <2>2
    <3>2. load(file).ok
      BY <3>1, WholeLoads
    <3>3. file.state = "whole"
      BY <3>1 DEF Whole
    <3> QED
      BY <3>2, <3>3 DEF FileIsWhole
  <2> QED
    BY <2>1, <2>2 DEF ManagedInv, ManagedTypes
<1>3. ManagedInv => CachePairsEtag
  BY DEF ManagedInv, ManagedTypes, Entries, CachePairsEtag
<1>4. RoamingInv => ConflictIsSomebodyElse
  <2> SUFFICES ASSUME RoamingInv, NEW w \in Writes, call[w].result = "Conflict", w \in stored
               PROVE  call[w].n > 1
    BY DEF ConflictIsSomebodyElse
  <2>1. call[w].n \in Nat /\ call[w].n > 0 /\ call[w].n # 1
    BY DEF RoamingInv, RoamingTypes, Call, CallInv, OnceInv
  <2> QED
    BY <2>1
<1>5. ManagedInv /\ RoamingInv => TypeOK
  <2> SUFFICES ASSUME ManagedInv, RoamingInv PROVE TypeOK
    OBVIOUS
  <2>1. ManagedTypes /\ RoamingTypes
    BY DEF ManagedInv, RoamingInv
  <2>2. file.state \in {"whole", "empty", "torn"}
    BY <2>1, StartFilesAssumption DEF ManagedTypes, Whole
  <2>3. DOMAIN current = DOMAIN Default
    BY <2>1, ValuesHaveKeys DEF ManagedTypes
  <2>4. cache.policy \in DOMAIN Policies \cup {0}
    BY <2>1 DEF ManagedTypes, Entries, Versions
  <2>5. \A t \in Threads : th[t].op \in {"idle", "save", "reload", "refresh"}
    BY <2>1 DEF ManagedTypes, ThreadStates
  <2>6. table.version \in 0 .. 1 + Cardinality(Writes)
    <3>1. IsFiniteSet(Writes) /\ stored \subseteq Writes
      BY <2>1, WritesAssumption DEF RoamingTypes
    <3>2. /\ Cardinality(stored) <= Cardinality(Writes) /\ Cardinality(stored) \in Nat
          /\ Cardinality(Writes) \in Nat
      BY <3>1, FS_Subset, FS_CardinalityType
    <3> QED
      BY <2>1, <3>2 DEF RoamingInv, RoamingTypes
  <2>7. \A w \in Writes : call[w].n \in 0 .. 2 * (MaxAttempts + 1)
    BY <2>1, MaxAttemptsAssumption DEF RoamingInv, CallInv, RoamingTypes, Call
  <2> QED
    BY <2>1, <2>2, <2>3, <2>4, <2>5, <2>6, <2>7 DEF TypeOK, ManagedTypes, RoamingTypes
<1> QED
  BY <1>1, <1>2, <1>3, <1>4, <1>5, ManagedInvariant, RoamingInvariant, PTL DEF ValuesAreRight
=============================================================================
