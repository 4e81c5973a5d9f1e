----------------------------- MODULE TokenCache -----------------------------
(***************************************************************************)
(* The token cache of OidcClient as several processes share it: token(),   *)
(* login(), logout() and invalidate() of cli-framework-oidc/src/client,    *)
(* and the retry after a 401 of AuthenticatedHttpClient (src/auth/mod.rs). *)
(*                                                                         *)
(* All grants of an application live in one secret, replaced as a whole    *)
(* under an advisory file lock; reads take no lock.  A legacy secret is    *)
(* read when the namespaced one does not exist and deleted by the first    *)
(* write.  Access and refresh tokens are numbered in the order of issue.   *)
(***************************************************************************)
EXTENDS Naturals, FiniteSets

CONSTANTS
    Procs,        \* the processes (CLI invocations) on this host
    Grants,       \* the cache keys: issuer, client, flow and scopes
    Interactive,  \* the grants whose flow needs a human
    Ops,          \* the operations the processes run
    Free,         \* the holder of an unlocked lock file
    StoreFails,   \* the secret store and the lock file may fail
    MaxIssued,    \* bound on the token responses (model checking only)
    MaxStarts     \* bound on the operations begun (model checking only)

ASSUME GrantAssumption == Interactive \subseteq Grants /\ Grants # {}
ASSUME OpsAssumption == Ops \subseteq {"token", "send", "login", "logout"}
ASSUME FaultAssumption == StoreFails \in BOOLEAN
ASSUME FreeAssumption == Free \notin Procs
ASSUME BoundAssumption == MaxIssued \in Nat /\ MaxStarts \in Nat

None == 0
Ids == 1 .. MaxIssued
MaybeId == Ids \cup {None}

(* CacheEntry and CacheFile; an entry that is missing holds neither token. *)
Entry == [access : MaybeId, refresh : MaybeId]
NoEntry == [access |-> None, refresh |-> None]
File == [Grants -> Entry]
EmptyFile == [g \in Grants |-> NoEntry]
Absent == [g \in {} |-> NoEntry]   \* SecretError::NotFound

Outcomes == {"ok", "NotAuthenticated", "Provider", "Unauthorized"}
Steps == {"idle", "read", "readLegacy", "refresh", "acquire", "lock", "load",
                   "loadLegacy", "put", "clean", "reread", "send"}

(* What an operation keeps while it runs. *)
Jobs == [op : {"token", "send", "login", "logout"},
         grant : Grants,
         doing : {"refresh", "acquire", "invalidate", "logout"},  \* why it writes
         cache : File,          \* the CacheFile loaded under the lock
         held : Entry,          \* the entry read_entry gave
         resp : Entry,          \* the token response to be stored
         bearer : MaybeId,      \* the access token the request carries
         rejected : MaybeId,    \* the access token that met a 401
         discovered : BOOLEAN,  \* the discovery cell is filled
         faulted : BOOLEAN]     \* the store or the lock failed it

Job(o, g) ==
    [op |-> o, grant |-> g, doing |-> IF o = "logout" THEN "logout" ELSE "acquire",
     cache |-> EmptyFile, held |-> NoEntry, resp |-> NoEntry, bearer |-> None,
     rejected |-> None, discovered |-> FALSE, faulted |-> FALSE]

NoJob == Job("token", CHOOSE g \in Grants : TRUE)

VARIABLES
    primary, legacy,  \* the two secrets of the store
    lock,             \* the lock file's holder
    issued,           \* how many token responses the provider has made
    valid,            \* the refresh tokens the provider accepts
    age,              \* of each access token: fresh, inside refresh_skew, expired
    pc, job,          \* each process's step and its data
    started,          \* how many operations have begun
    outcome,          \* how the last operation to end did end
    dead              \* history: refresh tokens spent for a response that was
                      \* lost before it was stored

storeVars == <<primary, legacy>>
idpVars == <<issued, valid, age>>
vars == <<storeVars, lock, idpVars, pc, job, started, outcome, dead>>

TypeOK ==
    /\ primary \in File \cup {Absent} /\ legacy \in File \cup {Absent}
    /\ lock \in Procs \cup {Free}
    /\ issued \in 0 .. MaxIssued /\ valid \subseteq Ids /\ dead \subseteq Ids
    /\ age \in [Ids -> {"fresh", "near", "expired"}]
    /\ pc \in [Procs -> Steps]
    /\ job \in [Procs -> Jobs]
    /\ outcome \in Outcomes /\ started \in 0 .. MaxStarts

(* A first start, or one after an upgrade from the flat legacy secret with *)
(* a grant logged in.                                                      *)
Init ==
    /\ primary = Absent
    /\ \/ legacy = Absent /\ issued = 0 /\ valid = {}
       \/ /\ issued = 1 /\ issued \in Ids /\ valid = {1}
          /\ \E g \in Grants : legacy = [EmptyFile EXCEPT ![g] = [access |-> 1, refresh |-> 1]]
    /\ lock = Free
    /\ age = [i \in Ids |-> "fresh"]
    /\ pc = [p \in Procs |-> "idle"]
    /\ job = [p \in Procs |-> NoJob]
    /\ outcome = "ok" /\ started = 0
    /\ dead = {}

----------------------------------------------------------------------------
(* How the operation of process p goes on, with its data j.                *)
Goto(p, step, j) ==
    /\ pc' = [pc EXCEPT ![p] = step]
    /\ job' = [job EXCEPT ![p] = j]
    /\ UNCHANGED <<outcome, started>>

(* It is over, and its data are dropped. *)
Return(p, end) ==
    /\ pc' = [pc EXCEPT ![p] = "idle"]
    /\ job' = [job EXCEPT ![p] = NoJob]
    /\ outcome' = end
    /\ UNCHANGED started

(* token() yields an access token: to its caller, or to the request of     *)
(* AuthenticatedHttpClient.                                                *)
Yield(p, token, j) ==
    IF j.op = "send" THEN Goto(p, "send", [j EXCEPT !.bearer = token]) ELSE Return(p, "ok")

(* No refresh, or it failed: client credentials are acquired afresh, an    *)
(* interactive grant falls back to the access token it read if that has    *)
(* not expired yet.                                                        *)
FallBack(p, j) ==
    \/ j.grant \notin Interactive /\ Goto(p, "acquire", j)
    \/ /\ j.grant \in Interactive
       /\ IF j.held.access # None /\ age[j.held.access] # "expired"
          THEN Yield(p, j.held.access, j)
          ELSE Return(p, "NotAuthenticated")

(* get_or_refresh_token, once read_entry has answered. *)
Settle(p, j) ==
    LET fresh == j.held.access # None /\ age[j.held.access] = "fresh" IN
    \/ fresh /\ Yield(p, j.held.access, j)
    \/ ~fresh /\ j.held.refresh # None /\ Goto(p, "refresh", j)
    \/ ~fresh /\ j.held.refresh = None /\ FallBack(p, j)

(* The second read_entry, after a refresh or an acquisition was stored.    *)
(* Without an access token there (another process logged out or            *)
(* invalidated it, or the read failed) a refresh counts as failed: on to   *)
(* the fallback, with the entry the first read gave.                       *)
SettleStored(p, entry, j) ==
    \/ entry.access # None /\ Yield(p, entry.access, j)
    \/ entry.access = None /\ j.doing = "refresh" /\ FallBack(p, j)
    \/ entry.access = None /\ j.doing # "refresh" /\ Return(p, "NotAuthenticated")

----------------------------------------------------------------------------
(* One operation begins: `auth token` and `auth status`, an authenticated  *)
(* request, `auth login`, `auth logout`.                                   *)
Start(p, o, g) ==
    /\ pc[p] = "idle"
    /\ started < MaxStarts
    /\ started' = started + 1
    /\ pc' = [pc EXCEPT ![p] = CASE o \in {"token", "send"} -> "read"
                                 [] o = "login" -> "acquire"
                                 [] o = "logout" -> "lock"]
    /\ job' = [job EXCEPT ![p] = Job(o, g)]
    /\ UNCHANGED <<storeVars, lock, idpVars, outcome, dead>>

(* read_cache without the lock: the namespaced secret, then the legacy one. *)
Read(p) ==
    /\ pc[p] = "read"
    /\ \/ primary # Absent /\ Settle(p, [job[p] EXCEPT !.held = primary[job[p].grant]])
       \/ primary = Absent /\ Goto(p, "readLegacy", job[p])
    /\ UNCHANGED <<storeVars, lock, idpVars, dead>>

ReadLegacy(p) ==
    /\ pc[p] = "readLegacy"
    /\ Settle(p, [job[p] EXCEPT !.held = IF legacy # Absent THEN legacy[job[p].grant]
                                                           ELSE NoEntry])
    /\ UNCHANGED <<storeVars, lock, idpVars, dead>>

(* The read after a store finds the namespaced secret: none is deleted. *)
Reread(p) ==
    /\ pc[p] = "reread"
    /\ SettleStored(p, primary[job[p].grant], job[p])
    /\ UNCHANGED <<storeVars, lock, idpVars, dead>>

(* A read that fails, or a secret that does not parse, counts as empty. *)
ReadFails(p) ==
    /\ StoreFails
    /\ LET j == [job[p] EXCEPT !.faulted = TRUE] IN
       \/ pc[p] \in {"read", "readLegacy"} /\ Settle(p, [j EXCEPT !.held = NoEntry])
       \/ pc[p] = "reread" /\ SettleStored(p, NoEntry, j)
    /\ UNCHANGED <<storeVars, lock, idpVars, dead>>

----------------------------------------------------------------------------
(* The provider makes token response number issued + 1, with a refresh     *)
(* token, which replaces the one it was asked with, or without one.        *)
Issue(spent, withRefresh) ==
    /\ issued + 1 \in Ids
    /\ issued' = issued + 1
    /\ valid' = IF withRefresh THEN (valid \ {spent}) \cup {issued + 1} ELSE valid
    /\ UNCHANGED age

Received(p, withRefresh, why) ==
    [job[p] EXCEPT !.resp = [access |-> issued + 1,
                             refresh |-> IF withRefresh THEN issued + 1 ELSE None],
                   !.doing = why, !.discovered = TRUE]

(* do_refresh up to its token response.  A provider that rotates refresh   *)
(* tokens accepts each of them once.                                       *)
RefreshGranted(p, rotate) ==
    /\ pc[p] = "refresh"
    /\ job[p].held.refresh \in valid
    /\ Issue(job[p].held.refresh, rotate)
    /\ Goto(p, "lock", Received(p, rotate, "refresh"))
    /\ UNCHANGED <<storeVars, lock, dead>>

(* The same, but the response is lost on its way. *)
RefreshLost(p) ==
    /\ pc[p] = "refresh"
    /\ job[p].held.refresh \in valid
    /\ Issue(job[p].held.refresh, TRUE)
    /\ dead' = dead \cup {job[p].held.refresh}
    /\ FallBack(p, [job[p] EXCEPT !.discovered = TRUE])
    /\ UNCHANGED <<storeVars, lock>>

(* Refused by the provider (spent or revoked), unreachable, or a response  *)
(* without a bearer token: a warning, and on to the fallback.              *)
RefreshFails(p) ==
    /\ pc[p] = "refresh"
    /\ FallBack(p, [job[p] EXCEPT !.discovered = TRUE])
    /\ UNCHANGED <<storeVars, lock, idpVars, dead>>

(* do_interactive_login: the user completes a device-code or a browser     *)
(* flow; or the client-credentials grant, asked for by login() or by       *)
(* token() itself.                                                         *)
Acquired(p, withRefresh) ==
    /\ pc[p] = "acquire"
    /\ Issue(None, withRefresh)
    /\ Goto(p, "lock", Received(p, withRefresh, "acquire"))
    /\ UNCHANGED <<storeVars, lock, dead>>

InteractiveLogin(p, withRefresh) == job[p].grant \in Interactive /\ Acquired(p, withRefresh)

ClientCredentials(p, withRefresh) == job[p].grant \notin Interactive /\ Acquired(p, withRefresh)

(* Discovery fails before it ever succeeded, or the flow itself fails. *)
ProviderFails(p) ==
    /\ \/ pc[p] = "acquire"
       \/ pc[p] = "refresh" /\ ~job[p].discovered
    /\ Return(p, "Provider")
    /\ UNCHANGED <<storeVars, lock, idpVars, dead>>

----------------------------------------------------------------------------
(* store_token_response, invalidate and logout: one write under the lock.  *)

TakeLock(p) ==
    /\ pc[p] = "lock"
    /\ lock = Free
    /\ lock' = p
    /\ Goto(p, "load", job[p])
    /\ UNCHANGED <<storeVars, idpVars, dead>>

Load(p) ==
    /\ pc[p] = "load"
    /\ \/ primary # Absent /\ Goto(p, "put", [job[p] EXCEPT !.cache = primary])
       \/ primary = Absent /\ Goto(p, "loadLegacy", job[p])
    /\ UNCHANGED <<storeVars, lock, idpVars, dead>>

(* Mutant: the write forgets the legacy secret it is about to delete. *)
LoadLegacyIgnored(p) ==
    /\ pc[p] = "loadLegacy"
    /\ Goto(p, "put", [job[p] EXCEPT !.cache = EmptyFile])
    /\ UNCHANGED <<storeVars, lock, idpVars, dead>>

LoadLegacy(p) ==
    /\ pc[p] = "loadLegacy"
    /\ Goto(p, "put", [job[p] EXCEPT !.cache = IF legacy # Absent THEN legacy ELSE EmptyFile])
    /\ UNCHANGED <<storeVars, lock, idpVars, dead>>

LoadFails(p) ==
    /\ StoreFails
    /\ pc[p] \in {"load", "loadLegacy"}
    /\ Goto(p, "put", [job[p] EXCEPT !.cache = EmptyFile, !.faulted = TRUE])
    /\ UNCHANGED <<storeVars, lock, idpVars, dead>>

(* Mutants: the old refresh token is kept although a new one came; an      *)
(* invalidation that keeps the access token.                               *)
UpdatedKeepingRefresh(j) ==
    [access |-> j.resp.access,
     refresh |-> IF j.cache[j.grant].refresh # None THEN j.cache[j.grant].refresh ELSE j.resp.refresh]
UpdatedKeepingAccess(j) ==
    IF j.doing = "invalidate" THEN j.cache[j.grant]
    ELSE [access |-> j.resp.access, refresh |-> j.resp.refresh]

(* The entry the write leaves for the process's own grant. *)
Updated(j) ==
    LET old == j.cache[j.grant] IN
    CASE j.doing \in {"refresh", "acquire"} ->
            [access |-> j.resp.access,
             refresh |-> IF j.resp.refresh # None THEN j.resp.refresh ELSE old.refresh]
      [] j.doing = "invalidate" -> [old EXCEPT !.access = None]
      [] j.doing = "logout" -> NoEntry

Put(p) ==
    /\ pc[p] = "put"
    /\ primary' = [job[p].cache EXCEPT ![job[p].grant] = Updated(job[p])]
    /\ Goto(p, "clean", [job[p] EXCEPT !.cache = EmptyFile])
    /\ UNCHANGED <<legacy, lock, idpVars, dead>>

(* The legacy secret is deleted (a failure to do so is only logged), the   *)
(* lock released, and the operation goes on; a refresh still holds the     *)
(* entry it began with.                                                    *)
Clean(p) ==
    /\ pc[p] = "clean"
    /\ legacy' \in {Absent, legacy}
    /\ lock' = Free
    /\ LET j == [job[p] EXCEPT !.resp = NoEntry,
                               !.held = IF job[p].doing = "refresh" THEN @ ELSE NoEntry] IN
       \/ j.doing = "invalidate" /\ Goto(p, "read", j)
       \/ j.doing = "logout" /\ Return(p, "ok")
       \/ /\ j.doing \in {"refresh", "acquire"}
          /\ IF j.op = "login" THEN Return(p, "ok") ELSE Goto(p, "reread", j)
    /\ UNCHANGED <<primary, idpVars, dead>>

(* A response that will never be stored: the refresh token spent for it is *)
(* gone with it.                                                           *)
Forget(j) ==
    dead' = IF j.doing = "refresh" /\ j.resp.refresh # None
            THEN dead \cup {j.held.refresh} ELSE dead

(* The lock cannot be taken or the write fails.  invalidate logs it and    *)
(* returns; logout fails without the lock but reports success when only    *)
(* the write failed; a refresh falls back, an acquisition fails.           *)
WriteFails(p) ==
    /\ StoreFails
    /\ pc[p] \in {"lock", "put"}
    /\ lock' = IF pc[p] = "put" THEN Free ELSE lock
    /\ Forget(job[p])
    /\ LET j == [job[p] EXCEPT !.faulted = TRUE, !.cache = EmptyFile, !.resp = NoEntry] IN
       \/ j.doing = "invalidate" /\ Goto(p, "read", j)
       \/ j.doing = "logout" /\ Return(p, IF pc[p] = "put" THEN "ok" ELSE "Provider")
       \/ j.doing = "refresh" /\ FallBack(p, j)
       \/ j.doing = "acquire" /\ Return(p, "Provider")
    /\ UNCHANGED <<storeVars, idpVars>>

----------------------------------------------------------------------------
(* AuthenticatedHttpClient: the request is answered; the first 401         *)
(* invalidates the token and asks for another one, the second is returned. *)
Accepted(p) ==
    /\ pc[p] = "send"
    /\ Return(p, "ok")
    /\ UNCHANGED <<storeVars, lock, idpVars, dead>>

Rejected(p) ==
    /\ pc[p] = "send"
    /\ \/ /\ job[p].rejected = None
          /\ Goto(p, "lock", [job[p] EXCEPT !.rejected = job[p].bearer, !.doing = "invalidate",
                                           !.held = NoEntry])
       \/ job[p].rejected # None /\ Return(p, "Unauthorized")
    /\ UNCHANGED <<storeVars, lock, idpVars, dead>>

(* The process is killed: the operating system drops its file lock. *)
Crash(p) ==
    /\ pc[p] # "idle"
    /\ Return(p, "Provider")
    /\ lock' = IF lock = p THEN Free ELSE lock
    /\ IF pc[p] \in {"lock", "load", "loadLegacy", "put"} THEN Forget(job[p]) ELSE UNCHANGED dead
    /\ UNCHANGED <<storeVars, idpVars>>

(* Access tokens grow old. *)
Age(i) ==
    /\ i <= issued
    /\ age[i] # "expired"
    /\ age' = [age EXCEPT ![i] = IF @ = "fresh" THEN "near" ELSE "expired"]
    /\ UNCHANGED <<storeVars, lock, issued, valid, pc, job, started, outcome, dead>>

----------------------------------------------------------------------------
Network(p) ==
    \/ \E b \in BOOLEAN : RefreshGranted(p, b) \/ InteractiveLogin(p, b) \/ ClientCredentials(p, b)
    \/ RefreshLost(p) \/ RefreshFails(p) \/ ProviderFails(p)
    \/ Accepted(p) \/ Rejected(p)

Local(p) ==
    \/ Read(p) \/ ReadLegacy(p) \/ Reread(p) \/ ReadFails(p)
    \/ Load(p) \/ LoadLegacy(p) \/ LoadFails(p) \/ Put(p) \/ Clean(p)

Next ==
    \/ \E p \in Procs :
          \/ \E o \in Ops, g \in Grants : Start(p, o, g)
          \/ Local(p) \/ TakeLock(p) \/ WriteFails(p) \/ Network(p) \/ Crash(p)
    \/ \E i \in Ids : Age(i)

Spec == Init /\ [][Next]_vars

----------------------------------------------------------------------------
Ends(p, end) == pc[p] # "idle" /\ pc'[p] = "idle" /\ outcome' = end

(* What a reader finds for a grant. *)
Effective(g) ==
    IF primary # Absent THEN primary[g] ELSE IF legacy # Absent THEN legacy[g] ELSE NoEntry

Puts(p) == pc[p] = "put" /\ pc'[p] = "clean"

(* A write concerns the writer's own grant: the entries of the other       *)
(* grants in the same secret survive it, and survive the migration from    *)
(* the legacy secret, unless the writer could not read what it replaced.   *)
SiblingsSurvive ==
    [][\A g \in Grants :
         Effective(g)' # Effective(g)
           => \E p \in Procs : Puts(p) /\ (job[p].grant = g \/ job[p].faulted)]_vars

(* Rotation loses nobody's session: a cached refresh token that the        *)
(* provider no longer accepts was spent for a response that was lost, or   *)
(* its successor is about to be stored by the process that received it.    *)
Succeeding(r) ==
    \E p \in Procs : /\ pc[p] \in {"lock", "load", "loadLegacy", "put"}
                     /\ job[p].doing = "refresh" /\ job[p].held.refresh = r

RefreshChainUnbroken ==
    \A g \in Grants :
        LET r == Effective(g).refresh IN r # None => r \in valid \cup dead \/ Succeeding(r)

(* Rotation strands nobody: see RefreshChainUnbroken (do_refresh,          *)
(* store_token_response, CachedTokens).                                    *)
NobodyIsStranded == TypeOK /\ RefreshChainUnbroken

(* The retry after a 401 does not send the rejected token again, unless    *)
(* the store failed the process.                                           *)
RetryIsFresh ==
    \A p \in Procs :
        pc[p] = "send" /\ job[p].rejected # None /\ ~job[p].faulted
          => job[p].bearer # job[p].rejected

----------------------------------------------------------------------------
(* What the documents say and the code does not do.                        *)

(* ADR 0069: token() "returns NotAuthenticated only when a valid token     *)
(* cannot be obtained non-interactively"; here: not while a token that has *)
(* not expired is in the cache and the store works.                        *)
NotAuthenticatedOnlyWhenNeeded ==
    [][\A p \in Procs :
         Ends(p, "NotAuthenticated")
           => LET a == Effective(job[p].grant).access IN a = None \/ age[a] = "expired"]_vars

(* README of cli-framework-oidc: logout() clears local credentials.  What  *)
(* was cleared comes back only with a login or a client-credentials grant. *)
OnlyLoginCreatesCredentials ==
    [][\A g \in Grants :
         Effective(g) = NoEntry /\ Effective(g)' # NoEntry
           => \E p \in Procs : Puts(p) /\ job[p].doing = "acquire"]_vars

(* `auth logout` exits 0 for "Logout succeeded": then nothing is cached.   *)
LogoutTellsTheTruth ==
    [][\A p \in Procs :
         job[p].op = "logout" /\ Ends(p, "ok")
           => Effective(job[p].grant)' = NoEntry]_vars
=============================================================================
