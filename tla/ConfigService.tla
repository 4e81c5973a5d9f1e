--------------------------- MODULE ConfigService ---------------------------
(***************************************************************************)
(* The configuration service (src/config/service) for one application:    *)
(* the administrative writes as transactions of PgPolicyStore, and the     *)
(* policy lookups of the read path with their process-wide cache.          *)
(*                                                                         *)
(* PostgreSQL runs the transactions at READ COMMITTED: every statement     *)
(* sees what is committed when it starts, SELECT ... FOR UPDATE waits for  *)
(* the holder of an existing row and locks nothing where there is no row,  *)
(* and an INSERT waits for another uncommitted INSERT of the same key.     *)
(* What a transaction writes is seen by nobody before it commits, so the   *)
(* writes are made in the commit step.                                     *)
(***************************************************************************)
EXTENDS Integers, Sequences, FiniteSets

CONSTANTS
    Admins,       \* concurrent administrative requests
    Callers,      \* the classes of callers the rules tell apart
    Profiles,
    Fields,       \* the configuration fields
    Values,       \* the values of a field
    Null,         \* the JSON null of a merge patch
    NoProfile,    \* no parent_profile, no match
    Free,         \* the holder of an unlocked row
    Manifests,    \* the manifests administrators submit, as sets of fields
    Documents,    \* the policy trees and the fragments they submit
    Parents,      \* the parent profiles they name, NoProfile among them
    RuleLists,    \* the assignment rules they submit
    Bundles,      \* the bundles they import
    Ops,          \* the operations they ask for
    MaxRequests   \* bound on the administrative requests (model checking only)

AllOps == {"manifest", "policy", "patch", "restore", "rules", "import"}

ASSUME NamesAssumption == NoProfile \notin Profiles /\ Free \notin Admins /\ Null \notin Values
ASSUME OpsAssumption == Ops \subseteq AllOps
ASSUME BoundAssumption == MaxRequests \in Nat

(* A policy tree: the enforced (or recommended) values by field path.      *)
Tree == UNION {[S -> Values] : S \in SUBSET Fields}
EmptyTree == [f \in {} |-> Null]
ASSUME ManifestAssumption == Manifests \subseteq SUBSET Fields
ASSUME ParentAssumption == NoProfile \in Parents /\ Parents \subseteq Profiles \cup {NoProfile}
ASSUME DocumentAssumption ==
    \A d \in Documents : DOMAIN d \subseteq Fields /\ \A f \in DOMAIN d : d[f] \in Values \cup {Null}

(* The rows.  Version 0 stands for a row that does not exist.              *)
StoredPolicy == [doc : Tree, parent : Profiles \cup {NoProfile}, version : Nat]
NoPolicy == [doc |-> EmptyTree, parent |-> NoProfile, version |-> 0]
StoredManifest == [fields : SUBSET Fields, version : Nat]

(* An assignment rule matches some classes of callers; the default rule    *)
(* matches all of them.                                                    *)
Rule == [who : SUBSET Callers, default : BOOLEAN, profile : Profiles]
ASSUME RuleAssumption == \A r \in RuleLists : r \in Seq(Rule)

(* A bundle: a manifest, policies for some profiles, and rules, which it   *)
(* may also leave undeclared.                                              *)
ASSUME BundleAssumption ==
    \A b \in Bundles :
        /\ b.fields \in SUBSET Fields
        /\ DOMAIN b.policies \subseteq Profiles
        /\ \A p \in DOMAIN b.policies :
              b.policies[p].doc \in Tree /\ b.policies[p].parent \in Profiles \cup {NoProfile}
        /\ b.declared \in BOOLEAN /\ b.rules \in Seq(Rule)

Steps == {"idle", "merge", "history", "fits", "chain", "version", "getVersion", "profiles",
          "tx", "row", "rows", "insert", "policies", "set", "setInsert", "commit"}

VARIABLES
    manifest,         \* its row
    policy,           \* of each profile: its row
    rules, rulesSet,  \* the assignment rows; assignment_set's version
    log,              \* the rows of mutation_log about policies
    mLock, pLock, sLock,  \* holders of the manifest row, of each policy
                          \* row, of the assignment_set row
    pc, job,          \* each administrative request: its step and its data
    begun,            \* how many requests have begun
    cache,            \* ConfigServiceState::cache
    look,             \* of each caller: the profile a lookup under way chose
    client            \* of each caller: the policy it was served last

dbVars == <<manifest, policy, rules, rulesSet, log>>
lockVars == <<mLock, pLock, sLock>>
readVars == <<cache, look, client>>
vars == <<dbVars, lockVars, pc, job, begun, readVars>>

----------------------------------------------------------------------------
(* Inheritance. *)
Present(pol) == {p \in Profiles : pol[p].version # 0}

(* resolve_chain: the profiles from start to its root, child first.  A     *)
(* missing parent ends the walk with an error, and so does a walk longer   *)
(* than the number of profiles, which is a cycle; else there is one chain. *)
Chains(pol, start) ==
    {s \in UNION {[1 .. n -> Profiles] : n \in 1 .. Cardinality(Profiles)} :
        /\ s[1] = start
        /\ \A i \in DOMAIN s :
              /\ s[i] \in Present(pol)
              /\ pol[s[i]].parent = IF i < Len(s) THEN s[i + 1] ELSE NoProfile}

Resolves(pol, start) == Chains(pol, start) # {}

Chain(pol, start) == CHOOSE s \in Chains(pol, start) : TRUE

(* Mutant: the version of the leaf alone. *)
LeafVersion(pol, chain) == <<pol[chain[1]].version>>

(* combined_chain_version, its hash taken to be free of collisions: the    *)
(* version of a profile without a parent is that of the whole policy.      *)
CombinedVersion(pol, chain) ==
    IF Len(chain) = 1 THEN <<pol[chain[1]].version>>
    ELSE [i \in DOMAIN chain |-> <<chain[i], pol[chain[i]].version>>]

(* flatten: the root first, every descendant over it. *)
Flatten(pol, chain) ==
    [f \in UNION {DOMAIN pol[chain[i]].doc : i \in DOMAIN chain} |->
        LET nearest == CHOOSE i \in DOMAIN chain :
                          /\ f \in DOMAIN pol[chain[i]].doc
                          /\ \A j \in 1 .. i - 1 : f \notin DOMAIN pol[chain[j]].doc
        IN  pol[chain[nearest]].doc[f]]

(* The Policy served for a profile. *)
PolicyFor(pol, p) ==
    LET chain == Chain(pol, p)
    IN  [profile |-> p, version |-> CombinedVersion(pol, chain), tree |-> Flatten(pol, chain)]

NoneServed == [profile |-> NoProfile, version |-> <<>>, tree |-> EmptyTree]

(* resolve_profile: the first rule, by ord, that matches. *)
ResolveProfile(list, c) ==
    LET hits == {i \in DOMAIN list : list[i].default \/ c \in list[i].who}
    IN  IF hits = {} THEN NoProfile ELSE list[CHOOSE i \in hits : \A j \in hits : i <= j].profile

(* validate_stored_policy: every field is one the manifest lets a policy   *)
(* set.                                                                    *)
Fits(fields, doc) == DOMAIN doc \subseteq fields

(* assignment_rule_missing_profile_errors and default_rule_not_last_errors. *)
RulesValid(list, present) ==
    \A i \in DOMAIN list : list[i].profile \in present /\ (list[i].default => i = Len(list))

(* merge_patch, RFC 7386: a null removes the field. *)
MergePatch(doc, fragment) ==
    [f \in (DOMAIN doc \cup DOMAIN fragment) \ {g \in DOMAIN fragment : fragment[g] = Null} |->
        IF f \in DOMAIN fragment THEN fragment[f] ELSE doc[f]]

(* What import_bundle demands of a bundle, before it opens a transaction   *)
(* and of the bundle alone.                                                *)
BundlePolicies(b) ==
    [p \in Profiles |-> IF p \in DOMAIN b.policies
                        THEN [doc |-> b.policies[p].doc, parent |-> b.policies[p].parent, version |-> 1]
                        ELSE NoPolicy]

BundleValid(b) ==
    /\ \A p \in DOMAIN b.policies :
          Fits(b.fields, b.policies[p].doc) /\ Resolves(BundlePolicies(b), p)
    /\ RulesValid(b.rules, DOMAIN b.policies)

----------------------------------------------------------------------------
NoBundle == [fields |-> {}, policies |-> [p \in {} |-> NoPolicy], declared |-> FALSE, rules |-> <<>>]

IdleJob ==
    [op |-> "policy", profile |-> NoProfile, doc |-> EmptyTree, parent |-> NoProfile,
     expected |-> 0, base |-> 0, fields |-> {}, existed |-> FALSE,
     rules |-> <<>>, bundle |-> NoBundle]

TypeOK ==
    /\ manifest \in StoredManifest
    /\ policy \in [Profiles -> StoredPolicy]
    /\ rules \in Seq(Rule) /\ rulesSet \in Nat
    /\ \A e \in log : /\ e.profile \in Profiles /\ e.version \in Nat /\ e.doc \in Tree
                      /\ e.parent \in Profiles \cup {NoProfile}
    /\ mLock \in Admins \cup {Free} /\ sLock \in Admins \cup {Free}
    /\ pLock \in [Profiles -> Admins \cup {Free}]
    /\ pc \in [Admins -> Steps]
    /\ \A a \in Admins : job[a].op \in AllOps /\ job[a].expected \in Nat
    /\ begun \in 0 .. MaxRequests
    /\ \A key \in DOMAIN cache : key[1] \in Profiles /\ cache[key].tree \in Tree
    /\ look \in [Callers -> Profiles \cup {NoProfile}]
    /\ \A c \in Callers : client[c].profile \in Profiles \cup {NoProfile} /\ client[c].tree \in Tree

(* An empty database, or one a first bundle was imported into. *)
Init ==
    /\ \/ /\ manifest = [fields |-> {}, version |-> 0] /\ policy = [p \in Profiles |-> NoPolicy]
          /\ rules = <<>> /\ rulesSet = 0
       \/ \E b \in Bundles :
             /\ BundleValid(b) /\ b.declared
             /\ manifest = [fields |-> b.fields, version |-> 1]
             /\ policy = BundlePolicies(b)
             /\ rules = b.rules /\ rulesSet = 1
    /\ log = {}
    /\ mLock = Free /\ sLock = Free /\ pLock = [p \in Profiles |-> Free]
    /\ pc = [a \in Admins |-> "idle"] /\ job = [a \in Admins |-> IdleJob]
    /\ begun = 0
    /\ cache = [key \in {} |-> NoneServed]
    /\ look = [c \in Callers |-> NoProfile]
    /\ client = [c \in Callers |-> NoneServed]

----------------------------------------------------------------------------
Goto(a, step, j) ==
    /\ pc' = [pc EXCEPT ![a] = step]
    /\ job' = [job EXCEPT ![a] = j]
    /\ UNCHANGED readVars

(* The request is answered; the transaction, if one is open, ends and its  *)
(* row locks with it.                                                      *)
Finish(a) ==
    /\ Goto(a, "idle", IdleJob)
    /\ mLock' = IF mLock = a THEN Free ELSE mLock
    /\ sLock' = IF sLock = a THEN Free ELSE sLock
    /\ pLock' = [p \in Profiles |-> IF pLock[p] = a THEN Free ELSE pLock[p]]
    /\ UNCHANGED begun

(* It is answered without a write: not found, a validation error, 412 on a *)
(* Conflict, or 500.                                                       *)
Refuse(a) == Finish(a) /\ UNCHANGED dbVars

(* It goes on, still without a lock. *)
Proceed(a, step, j) == Goto(a, step, j) /\ UNCHANGED <<dbVars, lockVars, begun>>

(* An administrator, who has looked at what is stored, asks for a change   *)
(* of it with the version seen in If-Match (base: what the change was made *)
(* from).                                                                  *)
Ask(a, step, j) ==
    /\ j.op \in Ops
    /\ begun' = begun + 1
    /\ Goto(a, step, j)
    /\ UNCHANGED <<dbVars, lockVars>>

AskManifest(a, m) ==
    Ask(a, "tx", [IdleJob EXCEPT !.op = "manifest", !.fields = m, !.expected = manifest.version])

AskPolicy(a, p, doc, parent) ==
    /\ doc \in Tree
    /\ Ask(a, "fits", [IdleJob EXCEPT !.op = "policy", !.profile = p, !.doc = doc, !.parent = parent,
                                      !.expected = policy[p].version, !.base = policy[p].version])

AskPatch(a, p, fragment) ==
    Ask(a, "merge", [IdleJob EXCEPT !.op = "patch", !.profile = p, !.doc = fragment,
                                    !.expected = policy[p].version])

AskRestore(a, p) == Ask(a, "history", [IdleJob EXCEPT !.op = "restore", !.profile = p])

(* GET /v1/admin/assignments reads the rules first. *)
AskRules(a, list) ==
    Ask(a, "getVersion", [IdleJob EXCEPT !.op = "rules", !.rules = list, !.base = rulesSet])

(* A bundle that is not valid by itself is refused at once. *)
AskImport(a, b) ==
    /\ BundleValid(b)
    /\ Ask(a, "tx", [IdleJob EXCEPT !.op = "import", !.bundle = b, !.fields = b.fields])

----------------------------------------------------------------------------
(* What the handlers of a policy write do before the transaction. *)

(* patch_policy merges onto the policy it reads now. *)
Merge(a) ==
    /\ pc[a] = "merge"
    /\ LET current == policy[job[a].profile] IN
       IF current.version = 0 THEN Refuse(a)
       ELSE \E parent \in Parents \cup {current.parent} :
               Proceed(a, "fits", [job[a] EXCEPT !.doc = MergePatch(current.doc, @),
                                                 !.parent = parent, !.base = current.version])

(* restore_policy takes the document of a version from the log. *)
FindVersion(a) ==
    /\ pc[a] = "history"
    /\ \/ \E e \in log :
             /\ e.profile = job[a].profile
             /\ Proceed(a, "fits", [job[a] EXCEPT !.doc = e.doc, !.parent = e.parent])
       \/ Refuse(a)   \* no such version

(* validate_policy_for_write: the manifest ... *)
CheckFits(a) ==
    /\ pc[a] = "fits"
    /\ IF manifest.version # 0 /\ Fits(manifest.fields, job[a].doc)
       THEN Proceed(a, "chain", job[a]) ELSE Refuse(a)

(* ... then the chain, with the candidate in it. *)
CheckChain(a) ==
    /\ pc[a] = "chain"
    /\ LET p == job[a].profile
           candidate == [doc |-> job[a].doc, parent |-> job[a].parent, version |-> 1]
       IN  IF Resolves([policy EXCEPT ![p] = candidate], p)
           THEN Proceed(a, IF job[a].op = "restore" THEN "version" ELSE "tx", job[a])
           ELSE Refuse(a)

(* restore_policy expects whatever version there is by now. *)
ReadVersion(a) ==
    /\ pc[a] = "version"
    /\ LET v == policy[job[a].profile].version
       IN  Proceed(a, "tx", [job[a] EXCEPT !.expected = v, !.base = v])

(* The second query of GET /v1/admin/assignments: the version for If-Match. *)
ReadSetVersion(a) ==
    /\ pc[a] = "getVersion"
    /\ Proceed(a, "profiles", [job[a] EXCEPT !.expected = rulesSet])

(* put_assignments *)
CheckProfiles(a) ==
    /\ pc[a] = "profiles"
    /\ IF RulesValid(job[a].rules, Present(policy)) THEN Proceed(a, "set", job[a]) ELSE Refuse(a)

----------------------------------------------------------------------------
(* The transactions of PgPolicyStore. *)

(* It takes row locks and goes on. *)
Locking(a, step, j, m, ps, set) ==
    /\ Goto(a, step, j)
    /\ mLock' = IF m THEN a ELSE mLock
    /\ pLock' = [p \in Profiles |-> IF p \in ps THEN a ELSE pLock[p]]
    /\ sLock' = IF set THEN a ELSE sLock
    /\ UNCHANGED <<dbVars, begun>>

MayLock(holder, a) == holder \in {Free, a}

(* Mutant: put_policy locks the policy row before the manifest row. *)
LockManifestLast(a) ==
    /\ pc[a] = "tx" /\ manifest.version # 0
    /\ LET p == job[a].profile IN
       IF job[a].op \in {"policy", "patch", "restore"} /\ pLock[p] # a
       THEN MayLock(pLock[p], a) /\ Locking(a, "tx", job[a], FALSE, {p}, FALSE)
       ELSE /\ MayLock(mLock, a)
            /\ Locking(a, IF job[a].op \in {"manifest", "import"} THEN "rows" ELSE "row",
                       [job[a] EXCEPT !.existed = TRUE], TRUE, {}, FALSE)

(* SELECT ... FROM manifest FOR UPDATE.  put_manifest compares its version *)
(* with If-Match, put_policy needs the row.                                *)
LockManifest(a) ==
    /\ pc[a] = "tx"
    /\ LET j == [job[a] EXCEPT !.existed = manifest.version # 0]
           whole == job[a].op \in {"manifest", "import"}
       IN
       /\ j.existed => MayLock(mLock, a)
       /\ IF IF job[a].op = "manifest" THEN manifest.version # j.expected ELSE ~whole /\ ~j.existed
          THEN Refuse(a)
          ELSE Locking(a, IF whole THEN "rows" ELSE "row", j, j.existed, {}, FALSE)

(* Mutants: the version is not compared, the policy not validated again. *)
LockPolicyAnyVersion(a) ==
    /\ pc[a] = "row"
    /\ LET p == job[a].profile IN
       /\ MayLock(pLock[p], a)
       /\ IF ~Fits(manifest.fields, job[a].doc) THEN Refuse(a)
          ELSE Locking(a, "commit", job[a], FALSE, {p} \cap Present(policy), FALSE)
LockPolicyUnchecked(a) ==
    /\ pc[a] = "row"
    /\ LET p == job[a].profile IN
       /\ MayLock(pLock[p], a)
       /\ IF policy[p].version # job[a].expected THEN Refuse(a)
          ELSE Locking(a, "commit", job[a], FALSE, {p} \cap Present(policy), FALSE)

(* put_policy: SELECT ... FROM policy FOR UPDATE, the version, and the     *)
(* policy validated once more against the manifest now locked.             *)
LockPolicy(a) ==
    /\ pc[a] = "row"
    /\ LET p == job[a].profile IN
       /\ MayLock(pLock[p], a)
       /\ IF policy[p].version # job[a].expected \/ ~Fits(manifest.fields, job[a].doc)
          THEN Refuse(a)
          ELSE Locking(a, "commit", job[a], FALSE, {p} \cap Present(policy), FALSE)

(* validate_existing_policies_against_manifest locks every policy row. *)
LockPolicies(a) ==
    /\ pc[a] = "rows"
    /\ \A p \in Present(policy) : MayLock(pLock[p], a)
    /\ IF \E p \in Present(policy) : ~Fits(job[a].fields, policy[p].doc)
       THEN Refuse(a)
       ELSE Locking(a, CASE ~job[a].existed -> "insert"
                         [] job[a].existed /\ job[a].op = "manifest" -> "commit"
                         [] OTHER -> "policies",
                    job[a], FALSE, Present(policy), FALSE)

(* The INSERT of a first manifest waits for another INSERT or UPDATE of    *)
(* the row that has not been committed, not for one who only locked it,    *)
(* and fails if there is a row by then.                                    *)
Writing(b) ==
    /\ b \in Admins
    /\ job[b].op \in {"manifest", "import"} /\ pc[b] \in {"policies", "set", "setInsert", "commit"}

InsertManifest(a) ==
    /\ pc[a] = "insert"
    /\ ~Writing(mLock)
    /\ IF manifest.version # 0 THEN Refuse(a)
       ELSE Locking(a, IF job[a].op = "manifest" THEN "commit" ELSE "policies",
                    job[a], TRUE, {}, FALSE)

(* import_bundle locks, or inserts, the rows of the bundle's policies. *)
UpsertPolicies(a) ==
    /\ pc[a] = "policies"
    /\ LET ps == DOMAIN job[a].bundle.policies IN
       /\ \A p \in ps : MayLock(pLock[p], a)
       /\ Locking(a, IF job[a].bundle.declared THEN "set" ELSE "commit",
                  [job[a] EXCEPT !.rules = job[a].bundle.rules], FALSE, ps, FALSE)

(* SELECT ... FROM assignment_set FOR UPDATE; put_assignment_rules         *)
(* compares its version.                                                   *)
LockSet(a) ==
    /\ pc[a] = "set"
    /\ rulesSet # 0 => MayLock(sLock, a)
    /\ IF job[a].op = "rules" /\ rulesSet # job[a].expected THEN Refuse(a)
       ELSE Locking(a, IF rulesSet # 0 THEN "commit" ELSE "setInsert",
                    job[a], FALSE, {}, rulesSet # 0)

(* The first rules of an application are inserted, and so is the row of    *)
(* assignment_set: the INSERTs wait for those of another transaction and   *)
(* fail if it commits.                                                     *)
InsertSet(a) ==
    /\ pc[a] = "setInsert"
    /\ MayLock(sLock, a)
    /\ IF rulesSet # 0 THEN Refuse(a) ELSE Locking(a, "commit", job[a], FALSE, {}, TRUE)

(* The new row of a policy: current_version + 1. *)
Written(p, doc, parent, j) == [doc |-> doc, parent |-> parent, version |-> policy[p].version + 1]

(* Its row in mutation_log. *)
Logged(j) ==
    [profile |-> j.profile, version |-> policy[j.profile].version + 1, doc |-> j.doc, parent |-> j.parent]

CommitManifest(a) ==
    /\ pc[a] = "commit" /\ job[a].op = "manifest"
    /\ manifest' = [fields |-> job[a].fields, version |-> manifest.version + 1]
    /\ Finish(a)
    /\ UNCHANGED <<policy, rules, rulesSet, log>>

CommitPolicy(a) ==
    /\ pc[a] = "commit" /\ job[a].op \in {"policy", "patch", "restore"}
    /\ LET j == job[a] IN
       /\ policy' = [policy EXCEPT ![j.profile] = Written(j.profile, j.doc, j.parent, j)]
       /\ log' = log \cup {Logged(j)}
    /\ Finish(a)
    /\ UNCHANGED <<manifest, rules, rulesSet>>

CommitRules(a) ==
    /\ pc[a] = "commit" /\ job[a].op = "rules"
    /\ rules' = job[a].rules /\ rulesSet' = rulesSet + 1
    /\ Finish(a)
    /\ UNCHANGED <<manifest, policy, log>>

(* The log of an import has one row for the application, none for a        *)
(* profile.                                                                *)
CommitImport(a) ==
    /\ pc[a] = "commit" /\ job[a].op = "import"
    /\ LET j == job[a] IN
       /\ manifest' = [fields |-> j.fields, version |-> manifest.version + 1]
       /\ policy' = [p \in Profiles |->
                        IF p \in DOMAIN j.bundle.policies
                        THEN Written(p, j.bundle.policies[p].doc, j.bundle.policies[p].parent, j)
                        ELSE policy[p]]
       /\ rules' = IF j.bundle.declared THEN j.bundle.rules ELSE rules
       /\ rulesSet' = IF j.bundle.declared THEN rulesSet + 1 ELSE rulesSet
    /\ Finish(a)
    /\ UNCHANGED log

(* The connection fails, or the server stops: the transaction is undone.   *)
Abort(a) ==
    /\ pc[a] # "idle"
    /\ Refuse(a)

----------------------------------------------------------------------------
(* lookup_policy, for GET /v1/policy with the client's If-None-Match. *)

(* The first query: the rules.  Without a match the client is unmanaged    *)
(* and drops the policy it has.                                            *)
Lookup(c) ==
    /\ look[c] = NoProfile
    /\ LET p == ResolveProfile(rules, c) IN
       IF p = NoProfile
       THEN client' = [client EXCEPT ![c] = NoneServed] /\ UNCHANGED look
       ELSE look' = [look EXCEPT ![c] = p] /\ UNCHANGED client
    /\ UNCHANGED <<dbVars, lockVars, pc, job, begun, cache>>

(* The answer for profile p: from the cache under the combined version,    *)
(* else flattened and put there.                                           *)
Answer(p) ==
    LET key == <<p, CombinedVersion(policy, Chain(policy, p))>>
    IN  IF key \in DOMAIN cache THEN cache[key] ELSE PolicyFor(policy, p)

(* The second query: the policies.  The client is told 304 if it has the   *)
(* version already.                                                        *)
Serve(c) ==
    /\ look[c] # NoProfile
    /\ LET p == look[c] answer == Answer(p) IN
       \/ /\ Resolves(policy, p)
          /\ LET key == <<p, CombinedVersion(policy, Chain(policy, p))>>
             IN  cache' = [k \in DOMAIN cache \cup {key} |->
                              IF k \in DOMAIN cache THEN cache[k] ELSE answer]
          /\ client' = [client EXCEPT ![c] = IF @.version = answer.version THEN @ ELSE answer]
       \/ \* ProfileNotFound: unmanaged
          p \notin Present(policy) /\ client' = [client EXCEPT ![c] = NoneServed] /\ UNCHANGED cache
       \/ \* a cycle or a missing parent: 500, and the client keeps what it has
          p \in Present(policy) /\ ~Resolves(policy, p) /\ UNCHANGED <<client, cache>>
    /\ look' = [look EXCEPT ![c] = NoProfile]
    /\ UNCHANGED <<dbVars, lockVars, pc, job, begun>>

----------------------------------------------------------------------------
Request(a) ==
    /\ pc[a] = "idle" /\ begun < MaxRequests
    /\ \/ \E m \in Manifests : AskManifest(a, m)
       \/ \E p \in Profiles, d \in Documents, q \in Parents : AskPolicy(a, p, d, q)
       \/ \E p \in Profiles, d \in Documents : AskPatch(a, p, d)
       \/ \E p \in Profiles : AskRestore(a, p)
       \/ \E r \in RuleLists : AskRules(a, r)
       \/ \E b \in Bundles : AskImport(a, b)

Step(a) ==
    \/ Merge(a) \/ FindVersion(a) \/ CheckFits(a) \/ CheckChain(a) \/ ReadVersion(a)
    \/ ReadSetVersion(a) \/ CheckProfiles(a)
    \/ LockManifest(a) \/ LockPolicy(a) \/ LockPolicies(a) \/ InsertManifest(a)
    \/ UpsertPolicies(a) \/ LockSet(a) \/ InsertSet(a)
    \/ CommitManifest(a) \/ CommitPolicy(a) \/ CommitRules(a) \/ CommitImport(a)

Next ==
    \/ \E a \in Admins : Request(a) \/ Step(a) \/ Abort(a)
    \/ \E c \in Callers : Lookup(c) \/ Serve(c)

Spec == Init /\ [][Next]_vars

----------------------------------------------------------------------------
(* Whatever the writers do at the same time, every stored policy fits the  *)
(* stored manifest: put_manifest and put_policy may not validate against   *)
(* what the other is about to replace.                                     *)
PoliciesFitManifest ==
    \A p \in Present(policy) : manifest.version # 0 /\ Fits(manifest.fields, policy[p].doc)

(* Rules and parents are checked against an earlier snapshot than the one  *)
(* they are stored into; still none names a profile that is not there.     *)
ReferencesResolve ==
    /\ \A i \in DOMAIN rules : rules[i].profile \in Present(policy)
    /\ \A p \in Present(policy) : policy[p].parent \in Present(policy) \cup {NoProfile}

(* The requests a request waits for. *)
WaitsFor(a) ==
    CASE pc[a] = "tx" /\ manifest.version # 0 -> {mLock} \ {Free, a}
      [] pc[a] = "insert" /\ Writing(mLock) -> {mLock}
      [] pc[a] = "row" -> {pLock[job[a].profile]} \ {Free, a}
      [] pc[a] = "rows" -> {pLock[p] : p \in Present(policy)} \ {Free, a}
      [] pc[a] = "policies" -> {pLock[p] : p \in DOMAIN job[a].bundle.policies} \ {Free, a}
      [] pc[a] = "set" /\ rulesSet # 0 -> {sLock} \ {Free, a}
      [] pc[a] = "setInsert" -> {sLock} \ {Free, a}
      [] OTHER -> {}

(* Every method locks its rows in the same order: no two transactions wait *)
(* for each other, so PostgreSQL never has to abort one.                   *)
NoLockCycle == \A a, b \in Admins : ~(b \in WaitsFor(a) /\ a \in WaitsFor(b))

(* mutation_log is the history of the row: a version is logged once, and   *)
(* the entry of the current version is the current document.               *)
HistoryAgrees ==
    /\ \A e, f \in log : e.profile = f.profile /\ e.version = f.version => e = f
    /\ \A e \in log :
          /\ e.version <= policy[e.profile].version
          /\ e.version = policy[e.profile].version
               => e.doc = policy[e.profile].doc /\ e.parent = policy[e.profile].parent

Commits(a) == pc[a] = "commit" /\ pc'[a] = "idle" /\ policy' # policy

(* If-Match protects the work of others: a policy is replaced only by a    *)
(* change made from the version it replaces.  patch_policy reads the       *)
(* document it merges onto before, and without comparing, the version.     *)
NoLostUpdate ==
    [][\A a \in Admins :
         Commits(a) /\ job[a].op \in {"policy", "patch"}
           => job[a].base = policy[job[a].profile].version]_policy

(* The cache is process-wide and never emptied by a write, on this or on   *)
(* another server: what it holds under the key of a profile's current      *)
(* chain is still the flattening of that chain as it is stored.            *)
CacheIsCurrent ==
    \A p \in Profiles :
        Resolves(policy, p) =>
            LET chain == Chain(policy, p) key == <<p, CombinedVersion(policy, chain)>>
            IN  key \in DOMAIN cache => cache[key].tree = Flatten(policy, chain)

(* What is stored fits together: every policy satisfies the manifest and   *)
(* every parent and every rule names a profile there is (put_manifest,     *)
(* put_policy, put_assignment_rules, import_bundle).                       *)
StoreIsSound == TypeOK /\ PoliciesFitManifest /\ ReferencesResolve

(* A version number identifies a document for good: the log has one        *)
(* document under it and so has the cache (put_policy, restore_policy,      *)
(* combined_chain_version).                                                *)
VersionsIdentify == HistoryAgrees /\ CacheIsCurrent

----------------------------------------------------------------------------
(* What the documents say and the code does not do.                        *)

(* config/managed/policy_client.rs of 200 and 304: "either way, this is    *)
(* the server's current word on the policy".                               *)
FreshIsCurrent ==
    [][\A c \in Callers :
         look[c] # NoProfile /\ look'[c] = NoProfile /\ Resolves(policy, look[c])
           => client'[c].tree = Flatten(policy, Chain(policy, look[c]))]_look

(* Assignment rules have an ETag and If-Match like policies: they are      *)
(* replaced only by a change made from the rules they replace.             *)
NoLostRules ==
    [][\A a \in Admins :
         pc[a] = "commit" /\ pc'[a] = "idle" /\ job[a].op = "rules" /\ rulesSet' # rulesSet
           => job[a].base = rulesSet]_rulesSet

(* Inheritance is "cycle-rejected": every stored chain can be resolved.    *)
ChainsResolve == \A p \in Present(policy) : Resolves(policy, p)
============================================================================
