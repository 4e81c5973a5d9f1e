------------------------------ MODULE Roaming -------------------------------
(***************************************************************************)
(* Writes of a user's document (managed/roaming_client.rs) through the     *)
(* retrying client (auth/mod.rs, http_retry/client.rs,                     *)
(* retry/executor_async.rs) to the service (service/router.rs) over        *)
(* PostgreSQL (service/postgres/mod.rs) or memory                          *)
(* (service/memory_store.rs). Every write is one call of put by some       *)
(* client after its get. An attempt whose answer does not come in time is  *)
(* repeated while the service may still be working on it.                  *)
(***************************************************************************)
EXTENDS Integers, FiniteSets

CONSTANTS
  Writes, None,
  MaxAttempts    \* RetryPolicy::max_attempts: repetitions after the first try

ASSUME MaxAttemptsAssumption == MaxAttempts \in Nat

VARIABLES
  table,    \* the user's row: its version, 0 without a row, and its document,
            \* None for the one it had at first
  holder,   \* the transaction that holds the row, or has inserted it
  attempt,  \* per write, the state of every attempt at the service
  call,     \* per write, the client's side
  stored,   \* the writes that took effect (history)
  backend   \* PgUserConfigStore or InMemoryUserConfigStore

roaming == <<table, holder, attempt, call, stored, backend>>

\* A round is one execute_with_retry of the inner client; a second follows a 401.
Tries == 1 .. 2 * (MaxAttempts + 1)

\* None is nobody's transaction.
ASSUME WritesAssumption == IsFiniteSet(Writes) /\ None \notin Writes \X Tries

RoamingInit ==
  /\ \E v \in {0, 1} : table = [version |-> v, doc |-> None]
  /\ holder = None
  /\ attempt = [w \in Writes |-> [n \in Tries |-> "none"]]
  /\ call = [w \in Writes |-> [pc |-> "idle", etag |-> 0, n |-> 0, tries |-> 0,
                               round |-> 1, result |-> "nothing"]]
  /\ stored = {}
  /\ backend \in {"postgres", "memory"}

Statuses == {"200", "412", "500", "401", "400"}
\* An answer nobody waits for any more is as good as none.
Set(w, n, st) ==
  attempt' = [attempt EXCEPT ![w][n] =
                IF st \in Statuses /\ (call[w].n # n \/ call[w].pc # "waiting") THEN "over" ELSE st]

-----------------------------------------------------------------------------
(* The client.                                                             *)

\* RoamingConfigClient::get, get_user_config and the stores' get: the version
\* of the row is the etag, 0 without a row.
get(w) ==
  /\ call[w].pc = "idle"
  /\ call' = [call EXCEPT ![w].pc = "have", ![w].etag = table.version]
  /\ UNCHANGED <<table, holder, attempt, stored, backend>>

\* put, and each repetition by execute: the same request is sent once more.
put(w) ==
  /\ call[w].pc \in {"have", "again"}
  /\ call' = [call EXCEPT ![w].pc = "waiting", ![w].n = @ + 1, ![w].tries = @ + 1]
  /\ Set(w, call[w].n + 1, "sent")
  /\ UNCHANGED <<table, holder, stored, backend>>

\* classify_put_error.
classify_put_error(status) == IF status = "412" THEN "Conflict" ELSE "Failed"

\* is_retryable_http_error over what an attempt ended with.
is_retryable_http_error(status) == status \in {"500", "timeout"}

\* AsyncRetryExecutor::execute and AuthenticatedHttpClient::execute_with_retry:
\* what follows an attempt that ended with this status.
After(c, status) ==
  CASE status = "200" -> [c EXCEPT !.pc = "done", !.result = "Ok"]
    [] is_retryable_http_error(status) /\ c.tries <= MaxAttempts -> [c EXCEPT !.pc = "again"]
    [] status = "401" /\ c.round = 1 -> [c EXCEPT !.pc = "again", !.round = 2, !.tries = 0]
    [] OTHER -> [c EXCEPT !.pc = "done", !.result = classify_put_error(status)]

\* RetryPolicy::delay_for_attempt, in milliseconds: the wait before the next
\* try. Exponential doubles at most ten times.
delay_for_attempt(policy, attempt_no) ==
  LET limited(d) == IF d > policy.max THEN policy.max ELSE d
  IN IF attempt_no >= policy.max_attempts THEN 0
     ELSE CASE policy.strategy = "None" -> 0
            [] policy.strategy = "Fixed" -> policy.initial
            [] policy.strategy = "Exponential" ->
                 limited(policy.initial * 2 ^ (IF attempt_no > 10 THEN 10 ELSE attempt_no))
            [] policy.strategy = "Linear" -> limited(policy.initial + policy.increment * attempt_no)

Receive(w) ==
  /\ call[w].pc = "waiting"
  /\ attempt[w][call[w].n] \in Statuses
  /\ call' = [call EXCEPT ![w] = After(@, attempt[w][call[w].n])]
  /\ Set(w, call[w].n, "over")
  /\ UNCHANGED <<table, holder, stored, backend>>

\* The connection fails or the time is up: the attempt may never have reached
\* the service, or may be under way there, or its answer is lost.
Timeout(w) ==
  /\ call[w].pc = "waiting"
  /\ call' = [call EXCEPT ![w] = After(@, "timeout")]
  /\ IF attempt[w][call[w].n] = "sent"
     THEN \E st \in {"sent", "over"} : Set(w, call[w].n, st)
     ELSE IF attempt[w][call[w].n] \in Statuses THEN Set(w, call[w].n, "over")
     ELSE UNCHANGED attempt
  /\ UNCHANGED <<table, holder, stored, backend>>

-----------------------------------------------------------------------------
(* The service.                                                            *)

\* put_user_config before the store: the caller, If-Match, the size, the
\* manifest and the fields. 400 stands for every refusal that is final, 500
\* for every one that is not, 429 included.
Refuse(w, n) ==
  /\ attempt[w][n] = "sent"
  /\ \E status \in {"401", "400", "500"} : Set(w, n, status)
  /\ UNCHANGED <<table, holder, call, stored, backend>>

Store(w) ==
  /\ table' = [version |-> call[w].etag + 1, doc |-> w]
  /\ stored' = stored \cup {w}

\* InMemoryUserConfigStore::put: under the mutex.
PutInMemory(w, n) ==
  /\ backend = "memory" /\ attempt[w][n] = "sent"
  /\ IF table.version # call[w].etag
     THEN Set(w, n, "412") /\ UNCHANGED <<table, stored>>
     ELSE Set(w, n, "200") /\ Store(w)
  /\ UNCHANGED <<holder, call, backend>>

\* Mutant: the version is looked at without the row's lock.
SelectUnlocked(w, n) ==
  /\ backend = "postgres" /\ attempt[w][n] = "sent"
  /\ IF table.version # call[w].etag
     THEN Set(w, n, "412")
     ELSE Set(w, n, IF table.version = 0 THEN "insert" ELSE "update")
  /\ UNCHANGED <<table, holder, call, stored, backend>>

\* PgUserConfigStore::put, SELECT ... FOR UPDATE and the comparison. A row is
\* waited for and held; without a row there is nothing to hold.
SelectForUpdate(w, n) ==
  /\ backend = "postgres" /\ attempt[w][n] = "sent"
  /\ table.version > 0 => holder = None
  /\ IF table.version # call[w].etag
     THEN Set(w, n, "412") /\ UNCHANGED holder
     ELSE IF table.version = 0 THEN Set(w, n, "insert") /\ UNCHANGED holder
     ELSE Set(w, n, "update") /\ holder' = <<w, n>>
  /\ UNCHANGED <<table, call, stored, backend>>

\* Its INSERT: it waits for another transaction's insert of the key, and fails
\* on the key when that one commits; the loser answers Conflict.
Insert(w, n) ==
  /\ attempt[w][n] = "insert" /\ holder = None
  /\ IF table.version > 0
     THEN Set(w, n, "412") /\ UNCHANGED holder
     ELSE Set(w, n, "update") /\ holder' = <<w, n>>
  /\ UNCHANGED <<table, call, stored, backend>>

\* Its COMMIT. The transaction may fail instead, and a commit that took effect
\* may be reported as failed.
Commit(w, n) ==
  /\ attempt[w][n] = "update"
  /\ holder' = None
  /\ \/ Set(w, n, "200") /\ Store(w)
     \/ Set(w, n, "500") /\ Store(w)
     \/ Set(w, n, "500") /\ UNCHANGED <<table, stored>>
  /\ UNCHANGED <<call, backend>>

RoamingNext ==
  \E w \in Writes :
    \/ get(w) \/ put(w) \/ Receive(w) \/ Timeout(w)
    \/ \E n \in Tries : \/ Refuse(w, n) \/ PutInMemory(w, n) \/ SelectForUpdate(w, n)
                        \/ Insert(w, n) \/ Commit(w, n)

-----------------------------------------------------------------------------
(* Properties.                                                             *)

\* How the calls read as writes of a UserDocument: a write is asked for with
\* its first request.
Document == INSTANCE UserDocument WITH
  doc <- table.doc, version <- table.version, done <- stored,
  write <- [w \in Writes |-> [asked |-> call[w].n > 0,
                              from |-> IF call[w].n > 0 THEN call[w].etag ELSE 0,
                              told |-> call[w].result]]

\* The retried, delayed and repeated requests, the transaction and the answers
\* that are lost amount to writes that take effect at most once, on the version
\* they were made from (RoamingConfigClient::put down to PgUserConfigStore::put).
DocumentRefined == Document!Spec

\* A client is told Conflict for a write of its own that took effect only when
\* the request was repeated: with one attempt, Conflict means somebody else
\* wrote (roaming_client.rs, put and classify_put_error).
ConflictIsSomebodyElse ==
  \A w \in Writes : call[w].result = "Conflict" /\ w \in stored => call[w].n > 1
=============================================================================
