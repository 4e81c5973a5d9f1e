--------------------------- MODULE ManagedConfig ----------------------------
(***************************************************************************)
(* One process and its configuration: the store over a file (config/       *)
(* store.rs, file_backend.rs, handle.rs), the policy client and its cache  *)
(* (managed/policy_client.rs, cache.rs) and the fold of a policy into the  *)
(* running value (managed/mod.rs, config/commands.rs refresh). Threads     *)
(* save, reload and refresh at any time; another process saves the same    *)
(* file; the process ends at any point and starts again; the service       *)
(* publishes and withdraws policies, and answers or does not.              *)
(***************************************************************************)
EXTENDS ConfigResolution

CONSTANTS
  Threads, Free,
  Manifest,      \* the leaves of T
  Default,       \* T::default(), as JSON: every leaf has a value
  Docs,          \* what threads save
  Policies,      \* what the service publishes, by version; 0 is none
  StartFiles,    \* what the file may hold at first
  MaxOps, MaxSaves, MaxStarts, MaxTime

VARIABLES
  file,     \* the backend's content
  tmp,      \* per thread, its temporary file
  current,  \* ConfigStore::current
  wlock,    \* ConfigStore::write_lock
  seen,     \* what the subscribers were last given
  cache,    \* the policy cache file
  served,   \* the version the service has, and the time
  th,       \* per thread, what it is doing
  run,      \* whether the process runs, and what its start handed to the app
  settled,  \* whether the last operation ran undisturbed (history)
  basis,    \* the policy trees that operation folded in (history)
  left      \* what may still happen

managed == <<file, tmp, current, wlock, seen, cache, served, th, run, settled, basis, left>>

-----------------------------------------------------------------------------
(* The file.                                                               *)

CurrentVersion == 2
Whole(v, d) == [state |-> "whole", version |-> v, doc |-> d]
Empty == [state |-> "empty", version |-> 0, doc |-> Default]
Torn == [state |-> "torn", version |-> 0, doc |-> Default]

\* The one registered migration, from 1, drops what a leaf added since then
\* cannot have had. Outside the code: the application's.
Migrations == {1}
migration(d) == [d EXCEPT !["free"] = Default["free"]]

\* ConfigStore::load, read_version and write_version: what a read of this
\* content gives. A missing or empty file is the default; a newer version, a
\* gap in the migrations and bytes that do not parse are errors.
load(f) ==
  CASE f.state = "empty" -> [ok |-> TRUE, doc |-> Default]
    [] f.state = "torn" -> [ok |-> FALSE, doc |-> Default]
    [] f.state = "whole" ->
         CASE f.version > CurrentVersion -> [ok |-> FALSE, doc |-> Default]
           [] f.version = CurrentVersion -> [ok |-> TRUE, doc |-> f.doc]
           [] f.version < CurrentVersion ->
                IF f.version .. CurrentVersion - 1 \subseteq Migrations
                THEN [ok |-> TRUE, doc |-> migration(f.doc)] ELSE [ok |-> FALSE, doc |-> Default]

\* The values of T the program meets: what it starts from, saves or finds.
Documents == {Default} \cup Docs \cup {load(f).doc : f \in StartFiles}
ASSUME StartFilesAssumption == \A f \in StartFiles : f.state \in {"whole", "empty"}
ASSUME PoliciesAssumption == DOMAIN Policies \subseteq Nat \ {0}
\* T is serialised whole: a document has every leaf of the manifest, at its
\* place, and no key with a dot in it.
ASSUME DocumentsAssumption ==
  \A d \in Documents :
    /\ d = [k \in DOMAIN Default |-> d[k]] /\ "s.a" \notin DOMAIN d
    /\ \A k \in DOMAIN d : d[k] \in {Leaf(d[k].value), Section([l \in DOMAIN d[k].entries |-> d[k].entries[l]])}
    /\ \A p \in DOMAIN Manifest :
         \/ \E k \in DOMAIN d : p = <<k>> /\ ~d[k].section
         \/ \E k \in DOMAIN d : d[k].section /\ \E l \in DOMAIN d[k].entries : p = <<k, l>>
ASSUME FreeAssumption == Free \notin Threads

-----------------------------------------------------------------------------
(* The threads.                                                            *)

NoTrees == [enforced |-> Nothing, recommended |-> Nothing]
\* A cache entry: the policy, the etag it came with, and when.
NoEntry == [there |-> FALSE, policy |-> 0, etag |-> 0, at |-> 0]
Idle == [op |-> "idle", pc |-> "", doc |-> Default, entry |-> NoEntry, trees |-> NoTrees, alone |-> TRUE]

Quiet == \A t \in Threads : th[t].op = "idle"

\* A thread begins an operation. Saves exclude one another; every other
\* overlap is a disturbance of both.
Begin(t, op, pc, d) ==
  LET others == {u \in Threads \ {t} : th[u].op # "idle"}
      calm == \A u \in others : op = "save" /\ th[u].op = "save"
  IN /\ run.up /\ th[t].op = "idle" /\ left.ops > 0
     /\ th' = [u \in Threads |->
                 IF u = t THEN [Idle EXCEPT !.op = op, !.pc = pc, !.doc = d, !.alone = calm]
                 ELSE [th[u] EXCEPT !.alone = @ /\ (calm \/ u \notin others)]]
     /\ left' = [left EXCEPT !.ops = @ - 1]

Step(t, pc) == th' = [th EXCEPT ![t].pc = pc]
\* An operation that failed leaves the store as it was, and as right or wrong.
Fail(t) == th' = [th EXCEPT ![t] = Idle]
Finish(t) ==
  /\ th' = [th EXCEPT ![t] = Idle]
  /\ settled' = th[t].alone
  /\ basis' = th[t].trees

At(t, pc) == run.up /\ th[t].pc = pc

\* ConfigStore::save: under the write lock the bytes go to a temporary file of
\* this write's own, which then takes the file's place; then current changes.
save(t) ==
  /\ wlock = Free
  /\ \E d \in Docs : Begin(t, "save", "create", d)
  /\ wlock' = t
  /\ UNCHANGED <<file, tmp, current, seen, cache, served, run, settled, basis>>
\* write_and_rename: create and write, sync, rename.
write(t) ==
  /\ At(t, "create")
  /\ tmp' = [tmp EXCEPT ![t] = Torn]
  /\ Step(t, "sync")
  /\ UNCHANGED <<file, current, wlock, seen, cache, served, run, settled, basis, left>>
sync_all(t) ==
  /\ At(t, "sync")
  /\ tmp' = [tmp EXCEPT ![t] = Whole(CurrentVersion, th[t].doc)]
  /\ Step(t, "rename")
  /\ UNCHANGED <<file, current, wlock, seen, cache, served, run, settled, basis, left>>
rename(t) ==
  /\ At(t, "rename")
  /\ file' = tmp[t] /\ tmp' = [tmp EXCEPT ![t] = Empty]
  /\ Step(t, "commit")
  /\ UNCHANGED <<current, wlock, seen, cache, served, run, settled, basis, left>>
\* A write that fails removes its temporary file and gives the lock back.
WriteFails(t) ==
  /\ run.up /\ th[t].pc \in {"create", "sync", "rename"}
  /\ tmp' = [tmp EXCEPT ![t] = Empty]
  /\ wlock' = Free
  /\ Fail(t)
  /\ UNCHANGED <<file, current, seen, cache, served, run, settled, basis, left>>
SaveCommits(t) ==
  /\ At(t, "commit")
  /\ current' = th[t].doc
  /\ wlock' = Free
  /\ Finish(t)
  /\ UNCHANGED <<file, tmp, seen, cache, served, run, left>>

\* ConfigStore::reload: the file is read and current set, without the lock;
\* the subscribers hear of it after. A file that cannot be read changes
\* nothing.
reload(t) ==
  /\ load(file).ok
  /\ Begin(t, "reload", "set", load(file).doc)
  /\ UNCHANGED <<file, tmp, current, wlock, seen, cache, served, run, settled, basis>>
ReloadSets(t) ==
  /\ At(t, "set")
  /\ current' = th[t].doc
  /\ Step(t, "notify")
  /\ UNCHANGED <<file, tmp, wlock, seen, cache, served, run, settled, basis, left>>
Notify(t) ==
  /\ At(t, "notify")
  /\ seen' = th[t].doc
  /\ Finish(t)
  /\ UNCHANGED <<file, tmp, current, wlock, cache, served, run, left>>

-----------------------------------------------------------------------------
(* The refresh.                                                            *)

\* refresh_managed_config: PolicyClient::fetch reads the cache and asks.
refresh(t) ==
  /\ Begin(t, "refresh", "ask", Default)
  /\ UNCHANGED <<file, tmp, current, wlock, seen, cache, served, run, settled, basis>>
\* fetch_with_cached: the entry that is read here goes with the request.
ReadCache(t) ==
  /\ At(t, "ask")
  /\ th' = [th EXCEPT ![t].pc = "asked", ![t].entry = cache]
  /\ UNCHANGED <<file, tmp, current, wlock, seen, cache, served, run, settled, basis, left>>

\* policy_trees of a policy.
policy_trees(v) == [enforced |-> Policies[v].enforced, recommended |-> Policies[v].recommended]

Answered(t, trees, newCache) ==
  /\ th' = [th EXCEPT ![t].pc = "fold", ![t].trees = trees]
  /\ cache' = newCache

\* Mutant: a 304 stamps the cache with the service's etag, whatever is there.
NotModifiedAnyEntry(t) ==
  /\ At(t, "asked") /\ th[t].entry.there /\ served.policy > 0
  /\ served.policy >= th[t].entry.etag
  /\ LET e == [th[t].entry EXCEPT !.etag = served.policy, !.at = served.now]
     IN Answered(t, policy_trees(e.policy), e)
\* handle_response, 304 and 200. A 304 confirms the entry that was read before
\* the request; it is written back with the time.
NotModified(t) ==
  /\ At(t, "asked") /\ th[t].entry.there /\ served.policy > 0
  /\ served.policy = th[t].entry.etag
  /\ LET e == [th[t].entry EXCEPT !.at = served.now]
     IN Answered(t, policy_trees(e.policy), e)
Served(t) ==
  /\ At(t, "asked") /\ served.policy > 0
  /\ ~(th[t].entry.there /\ served.policy = th[t].entry.etag)
  /\ Answered(t, policy_trees(served.policy),
              [there |-> TRUE, policy |-> served.policy, etag |-> served.policy, at |-> served.now])

\* handle_error: 401 and 403 leave the cache alone, 404 clears it, any other
\* refusal is an error.
Denied(t) == At(t, "asked") /\ Answered(t, NoTrees, cache)
Unmanaged(t) == At(t, "asked") /\ served.policy = 0 /\ Answered(t, NoTrees, NoEntry)
ClientError(t) == At(t, "asked") /\ Fail(t) /\ UNCHANGED cache

\* fall_back_to_cache: the service cannot be reached. The entry counts while it
\* is young enough, or when its policy only wants a warning.
fall_back_to_cache(t) ==
  LET e == th[t].entry
      fresh == served.now - e.at <= Policies[e.policy].max_cache_age
  IN /\ At(t, "asked")
     /\ IF e.there /\ (fresh \/ Policies[e.policy].stale_action = "warn")
        THEN Answered(t, policy_trees(e.policy), cache)
        ELSE Fail(t) /\ UNCHANGED cache

Fetch(t) ==
  /\ \/ NotModified(t) \/ Served(t) \/ Denied(t) \/ Unmanaged(t) \/ ClientError(t)
     \/ fall_back_to_cache(t)
  /\ UNCHANGED <<file, tmp, current, wlock, seen, served, run, settled, basis, left>>

\* Then the file is read again and the policy folded into what it holds, never
\* into the running value, so that what an earlier policy enforced goes.
Fold(t) ==
  /\ At(t, "fold")
  /\ IF load(file).ok
     THEN th' = [th EXCEPT ![t].pc = "swap",
                   ![t].doc = fold_into_json(Manifest, load(file).doc, th[t].trees.enforced,
                                             th[t].trees.recommended)]
     ELSE Fail(t)
  /\ UNCHANGED <<file, tmp, current, wlock, seen, cache, served, run, settled, basis, left>>
\* set_current_and_notify: current is swapped under the write lock.
set_current_and_notify(t) ==
  /\ At(t, "swap") /\ wlock = Free
  /\ current' = th[t].doc
  /\ Step(t, "notify")
  /\ UNCHANGED <<file, tmp, wlock, seen, cache, served, run, settled, basis, left>>

-----------------------------------------------------------------------------
(* Starts, the other process and the service.                              *)

\* The process ends, whatever its threads are doing, and with it what it had in
\* memory; the temporary files it leaves have names that nobody uses again.
Crash ==
  /\ run.up
  /\ run' = [up |-> FALSE, given |-> Default]
  /\ th' = [t \in Threads |-> Idle] /\ wlock' = Free
  /\ tmp' = [t \in Threads |-> Empty]
  /\ current' = Default /\ seen' = Default /\ settled' = FALSE /\ basis' = NoTrees
  /\ UNCHANGED <<file, cache, served, left>>

\* build: the store is resolved, or the app does not start. build_with_config
\* hands the app the file with the cached policy folded in
\* (fold_cached_policy_into_value); current holds the file alone.
build ==
  /\ load(file).ok
  /\ current' = load(file).doc
  /\ seen' = load(file).doc
  /\ LET trees == IF cache.there THEN policy_trees(cache.policy) ELSE NoTrees
     IN run' = [up |-> TRUE, given |-> fold_into_json(Manifest, load(file).doc, trees.enforced,
                                                      trees.recommended)]
  /\ settled' = TRUE /\ basis' = NoTrees
Restart ==
  /\ ~run.up /\ left.starts > 0
  /\ build
  /\ left' = [left EXCEPT !.starts = @ - 1]
  /\ UNCHANGED <<file, tmp, wlock, cache, served, th>>

\* Another process saves; an operation that has read the file is late.
OtherSaves ==
  /\ left.saves > 0
  /\ \E d \in Docs : file' = Whole(CurrentVersion, d)
  /\ settled' = FALSE
  /\ th' = [t \in Threads |-> [th[t] EXCEPT !.alone = @ /\ th[t].op = "idle"]]
  /\ left' = [left EXCEPT !.saves = @ - 1]
  /\ UNCHANGED <<tmp, current, wlock, seen, cache, served, run, basis>>

\* The service publishes its next policy or withdraws it.
Publish ==
  /\ \E v \in {w \in DOMAIN Policies : w = served.last + 1} \cup {0} :
       /\ v # served.policy
       /\ served' = [served EXCEPT !.policy = v, !.last = IF v = 0 THEN @ ELSE v]
  /\ UNCHANGED <<file, tmp, current, wlock, seen, cache, th, run, settled, basis, left>>
\* Time counts only for the age of a cached policy.
Tick ==
  /\ served.now < MaxTime /\ cache.there
  /\ served' = [served EXCEPT !.now = @ + 1]
  /\ UNCHANGED <<file, tmp, current, wlock, seen, cache, th, run, settled, basis, left>>

ManagedInit ==
  /\ file \in StartFiles
  /\ tmp = [t \in Threads |-> Empty]
  /\ wlock = Free
  /\ cache = NoEntry
  /\ served = [policy |-> 0, last |-> 0, now |-> 0]
  /\ th = [t \in Threads |-> Idle]
  /\ run = [up |-> FALSE, given |-> Default]
  /\ current = Default /\ seen = Default /\ settled = FALSE /\ basis = NoTrees
  /\ left = [ops |-> MaxOps, saves |-> MaxSaves, starts |-> MaxStarts]

ManagedNext ==
  \/ \E t \in Threads :
       \/ save(t) \/ write(t) \/ sync_all(t) \/ rename(t) \/ WriteFails(t) \/ SaveCommits(t)
       \/ reload(t) \/ ReloadSets(t) \/ Notify(t)
       \/ refresh(t) \/ ReadCache(t) \/ Fetch(t) \/ Fold(t) \/ set_current_and_notify(t)
  \/ Crash \/ Restart \/ OtherSaves \/ Publish \/ Tick

-----------------------------------------------------------------------------
(* Properties.                                                             *)

\* An operation that ran undisturbed leaves the running value and the file in
\* agreement, whatever overlapped before it: current is what the file holds,
\* with exactly the policy of that operation folded in. This is the bound that
\* the code documents for a save that falls between a refresh's read and its
\* commit: the next operation puts it right (ConfigStore::save, reload,
\* refresh_managed_config).
SettledIsRight ==
  settled /\ Quiet /\ run.up =>
    current = fold_into_json(Manifest, load(file).doc, basis.enforced, basis.recommended)

\* Whatever is interrupted where, the file is empty or one whole document, and
\* only a version from the future or without a migration keeps the app from
\* starting (FileBackend::write, write_and_rename).
FileIsWhole == file.state # "torn" /\ (~load(file).ok => file \in StartFiles)

\* The cache never pairs a policy with the etag of another, although two
\* threads read and write it around their requests: a later 304 would confirm
\* the wrong policy (PolicyClient::handle_response).
CachePairsEtag == cache.there => cache.policy = cache.etag

\* A policy's recommendation counts where nobody says otherwise: with a file
\* that sets nothing, an undisturbed refresh leaves the recommended value.
RecommendedApplies ==
  settled /\ Quiet /\ run.up /\ file.state = "empty" =>
    \A p \in DOMAIN basis.recommended \ DOMAIN basis.enforced :
      current[p[1]].value = basis.recommended[p]
=============================================================================
