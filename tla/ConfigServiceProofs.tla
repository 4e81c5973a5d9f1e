------------------------ MODULE ConfigServiceProofs ------------------------
(***************************************************************************)
(* Proofs about the configuration service: what is stored stays sound,     *)
(* the log and the lookup cache tell versions apart, no update is lost,    *)
(* and no two transactions wait for each other, for any number of          *)
(* administrators and callers and any profiles, documents and bundles.     *)
(***************************************************************************)
EXTENDS ConfigService, WellFoundedInduction, TLAPS

----------------------------------------------------------------------------
(* Inheritance. *)

(* A set of indices has a first one. *)
LEMMA First ==
  ASSUME NEW T \in SUBSET Nat, T # {}
  PROVE  \E i \in T : \A j \in T : i <= j
<1> DEFINE R == OpToRel(<, Nat)
<1>1. PICK i \in T : \A j \in T : ~(<<j, i>> \in R)
  <2>1. IsWellFoundedOn(R, Nat)
    BY NatLessThanWellFounded
  <2> HIDE DEF R
  <2> QED
    BY <2>1, WFMin
<1>2. \A j \in T : ~(j < i)
  BY <1>1 DEF OpToRel
<1> QED
  BY <1>2

(* What resolve_chain returns. *)
LEMMA ChainIsOne ==
  ASSUME NEW pol, NEW p \in Profiles, Resolves(pol, p)
  PROVE  /\ Chain(pol, p) \in Chains(pol, p)
         /\ Chain(pol, p) \in Seq(Profiles) /\ Len(Chain(pol, p)) >= 1
         /\ Chain(pol, p)[1] = p
         /\ \A i \in DOMAIN Chain(pol, p) : Chain(pol, p)[i] \in Present(pol)
<1> DEFINE c == Chain(pol, p)
<1>1. c \in Chains(pol, p)
  BY DEF Chain, Resolves
<1> HIDE DEF c
<1>2. PICK n \in 1 .. Cardinality(Profiles) : c \in [1 .. n -> Profiles]
  BY <1>1 DEF Chains
<1>3. c \in Seq(Profiles) /\ Len(c) >= 1
  BY <1>2
<1>4. c[1] = p /\ \A i \in DOMAIN c : c[i] \in Present(pol)
  BY <1>1 DEF Chains
<1> QED
  BY <1>1, <1>3, <1>4 DEF c

(* It is a function of the fields that a document of the chain sets. *)
LEMMA FlattenIsFunction ==
  ASSUME NEW pol, NEW chain
  PROVE  Flatten(pol, chain) = [f \in UNION {DOMAIN pol[chain[i]].doc : i \in DOMAIN chain}
                                   |-> Flatten(pol, chain)[f]]
<1> DEFINE D == UNION {DOMAIN pol[chain[i]].doc : i \in DOMAIN chain}
           Nearest(f) == CHOOSE i \in DOMAIN chain :
                            /\ f \in DOMAIN pol[chain[i]].doc
                            /\ \A j \in 1 .. i - 1 : f \notin DOMAIN pol[chain[j]].doc
           Value(f) == pol[chain[Nearest(f)]].doc[f]
<1>1. Flatten(pol, chain) = [f \in D |-> Value(f)]
  BY DEF Flatten
<1> HIDE DEF Value, D
<1>2. Flatten(pol, chain) = [f \in D |-> Flatten(pol, chain)[f]]
  BY <1>1
<1> QED
  BY <1>2 DEF D

(* The nearest document of a chain that sets a field decides it. *)
LEMMA FlattenNearest ==
  ASSUME NEW pol, NEW chain \in Seq(Profiles),
         NEW f \in UNION {DOMAIN pol[chain[i]].doc : i \in DOMAIN chain}
  PROVE  \E i \in DOMAIN chain :
            /\ f \in DOMAIN pol[chain[i]].doc
            /\ \A j \in 1 .. i - 1 : f \notin DOMAIN pol[chain[j]].doc
            /\ Flatten(pol, chain)[f] = pol[chain[i]].doc[f]
<1> DEFINE Sets(i) == f \in DOMAIN pol[chain[i]].doc
           T == {i \in DOMAIN chain : Sets(i)}
           Nearest(i) == Sets(i) /\ \A j \in 1 .. i - 1 : f \notin DOMAIN pol[chain[j]].doc
<1>1. DOMAIN chain = 1 .. Len(chain) /\ Len(chain) \in Nat
  OBVIOUS
<1>2. T \in SUBSET Nat
  BY <1>1
<1>3. T # {}
  OBVIOUS
<1>4. PICK i \in T : \A j \in T : i <= j
  <2> HIDE DEF T
  <2> QED
    BY <1>2, <1>3, First
<1>5. i \in DOMAIN chain /\ Nearest(i)
  <2>1. ASSUME NEW j \in 1 .. i - 1, Sets(j) PROVE FALSE
    BY <1>1, <1>4, <2>1
  <2> QED
    BY <1>4, <2>1
<1> DEFINE n == CHOOSE k \in DOMAIN chain : Nearest(k)
<1>6. n \in DOMAIN chain /\ Nearest(n)
  <2> HIDE DEF Nearest
  <2> QED
    BY <1>5
<1>7. Flatten(pol, chain)[f] = pol[chain[n]].doc[f]
  BY Zenon DEF Flatten
<1> HIDE DEF n
<1> QED
  BY <1>6, <1>7

(* It is a tree, and depends on the rows of the chain only. *)
LEMMA FlattenIsTree ==
  ASSUME NEW pol \in [Profiles -> StoredPolicy], NEW chain \in Seq(Profiles)
  PROVE  Flatten(pol, chain) \in Tree
<1> DEFINE F == Flatten(pol, chain)
           D == UNION {DOMAIN pol[chain[i]].doc : i \in DOMAIN chain}
<1>1. F = [f \in D |-> F[f]]
  BY FlattenIsFunction
<1>2. \A i \in DOMAIN chain : pol[chain[i]].doc \in Tree
  BY DEF StoredPolicy
<1>3. D \in SUBSET Fields
  BY <1>2 DEF Tree
<1>4. ASSUME NEW f \in D PROVE F[f] \in Values
  <2>1. PICK i \in DOMAIN chain : f \in DOMAIN pol[chain[i]].doc /\ F[f] = pol[chain[i]].doc[f]
    BY FlattenNearest
  <2> QED
    BY <1>2, <2>1 DEF Tree
<1> HIDE DEF F, D
<1>5. F \in [D -> Values]
  BY <1>1, <1>4
<1> QED
  BY <1>3, <1>5 DEF Tree, F

LEMMA FlattenSame ==
  ASSUME NEW pol, NEW new, NEW chain \in Seq(Profiles),
         \A i \in DOMAIN chain : pol[chain[i]] = new[chain[i]]
  PROVE  Flatten(pol, chain) = Flatten(new, chain)
<1> DEFINE F == Flatten(pol, chain)
           G == Flatten(new, chain)
           D == UNION {DOMAIN pol[chain[i]].doc : i \in DOMAIN chain}
           E == UNION {DOMAIN new[chain[i]].doc : i \in DOMAIN chain}
<1>1. F = [f \in D |-> F[f]] /\ G = [f \in E |-> G[f]]
  BY FlattenIsFunction
<1>2. D = E
  OBVIOUS
<1>3. ASSUME NEW f \in D PROVE F[f] = G[f]
  <2>1. PICK i \in DOMAIN chain : /\ f \in DOMAIN pol[chain[i]].doc
                                  /\ \A j \in 1 .. i - 1 : f \notin DOMAIN pol[chain[j]].doc
                                  /\ F[f] = pol[chain[i]].doc[f]
    BY FlattenNearest
  <2>2. PICK k \in DOMAIN chain : /\ f \in DOMAIN new[chain[k]].doc
                                  /\ \A j \in 1 .. k - 1 : f \notin DOMAIN new[chain[j]].doc
                                  /\ G[f] = new[chain[k]].doc[f]
    BY <1>2, FlattenNearest
  <2>3. \A j \in 1 .. i - 1 : j \in DOMAIN chain
    OBVIOUS
  <2>4. \A j \in 1 .. k - 1 : j \in DOMAIN chain
    OBVIOUS
  <2>5. i = k
    <3>1. ~(i < k)
      <4>1. i < k => i \in 1 .. k - 1
        OBVIOUS
      <4> QED
        BY <2>1, <2>2, <4>1
    <3>2. ~(k < i)
      <4>1. k < i => k \in 1 .. i - 1
        OBVIOUS
      <4> QED
        BY <2>1, <2>2, <4>1
    <3> QED
      BY <3>1, <3>2
  <2> QED
    BY <2>1, <2>2, <2>5
<1> HIDE DEF F, G, D, E
<1> QED
  BY <1>1, <1>2, <1>3 DEF F, G

----------------------------------------------------------------------------
(* The inductive invariant. *)

Edits == {"policy", "patch", "restore"}    \* the writes of one policy
Whole == {"manifest", "import"}            \* those of the manifest

(* The steps of the write of a policy without a row.                       *)
Reading == {"idle", "merge", "history", "fits", "chain", "version", "tx"}

Jobs ==
  [op : AllOps, profile : Profiles \cup {NoProfile}, doc : Tree \cup Documents,
   parent : Profiles \cup {NoProfile}, expected : Nat, base : Nat, fields : SUBSET Fields,
   existed : BOOLEAN, rules : Seq(Rule), bundle : Bundles \cup {NoBundle}]

(* The step s of a request with data j holds the manifest row.             *)
Has(s, j) ==
  \/ j.op \in Edits /\ s \in {"row", "commit"}
  \/ j.op \in Whole /\ s \in {"policies", "set", "setInsert", "commit"}
  \/ j.op \in Whole /\ s = "rows" /\ j.existed

(* It may hold policy rows.                                                *)
Rows(s, j) ==
  \/ j.op \in Edits /\ s = "commit"
  \/ j.op \in Whole /\ s \in {"insert", "policies", "set", "setInsert", "commit"}

(* Which steps a request takes, and what it carries.                       *)
Placed(s, j) ==
  /\ j \in Jobs
  /\ j.op \in Edits => s \in Reading \cup {"row", "commit"}
  /\ j.op = "manifest" => s \in {"idle", "tx", "rows", "insert", "commit"}
  /\ j.op = "import" =>
        /\ s \in {"idle", "tx", "rows", "insert", "policies", "set", "setInsert", "commit"}
        /\ j.bundle \in Bundles /\ BundleValid(j.bundle) /\ j.fields = j.bundle.fields
  /\ j.op = "rules" => s \in {"idle", "getVersion", "profiles", "set", "setInsert", "commit"}
  /\ s # "idle" /\ j.op \in Edits =>
        /\ j.profile \in Profiles
        /\ s = "merge" => j.op = "patch"
        /\ s \notin {"merge", "history"} => j.doc \in Tree
  /\ s = "insert" => ~j.existed
  /\ j.op \in Edits /\ s \in {"row", "commit"} => j.existed
  /\ j.op = "policy" => j.base = j.expected

(* What it has seen is still so.                                           *)
Knows(s, j) ==
  /\ j.existed => manifest.version # 0
  /\ j.op = "patch" /\ s # "idle" =>
        /\ j.expected <= policy[j.profile].version
        /\ s # "merge" => j.expected <= j.base /\ j.base <= policy[j.profile].version
  /\ j.op \in Edits /\ s \in {"version", "tx", "row", "commit"} =>
        j.parent \in Present(policy) \cup {NoProfile, j.profile}
  /\ j.op \in Edits /\ s = "commit" =>
        Fits(manifest.fields, j.doc) /\ policy[j.profile].version = j.expected
  /\ j.op = "rules" /\ s \in {"set", "setInsert", "commit"} =>
        \A i \in DOMAIN j.rules : j.rules[i].profile \in Present(policy)
  /\ j.op \in Whole /\ s \in {"policies", "set", "setInsert", "commit"} =>
        \A p \in Present(policy) : Fits(j.fields, policy[p].doc)

(* Its locks.                                                              *)
Holds(a, s, j) ==
  /\ mLock = a <=> Has(s, j)
  /\ \A p \in Profiles : pLock[p] = a => Rows(s, j) /\ (p \in Present(policy) \/ Has(s, j))
  /\ sLock = a => s = "commit"
  /\ j.op \in Whole /\ s \in {"policies", "set", "setInsert", "commit"} =>
        \A p \in Present(policy) : pLock[p] = a

Requests == \A a \in Admins : /\ Placed(pc[a], job[a])
                              /\ Knows(pc[a], job[a])
                              /\ Holds(a, pc[a], job[a])

Typed ==
  /\ TypeOK
  /\ DOMAIN job = Admins
  /\ DOMAIN client = Callers
  /\ \A key \in DOMAIN cache : cache[key].profile \in Profiles

StoreInv == Typed /\ PoliciesFitManifest /\ ReferencesResolve /\ HistoryAgrees /\ Requests

----------------------------------------------------------------------------
(* The tree that sets nothing. *)
LEMMA EmptyIsTree == EmptyTree \in Tree
<1>1. EmptyTree \in [{} -> Values]
  BY DEF EmptyTree
<1>2. {} \in SUBSET Fields
  OBVIOUS
<1> QED
  BY <1>1, <1>2, Zenon DEF Tree

(* The data of no request. *)
LEMMA IdleIsJob ==
  /\ IdleJob \in Jobs
  /\ IdleJob.op = "policy" /\ ~IdleJob.existed
  /\ IdleJob.base = 0 /\ IdleJob.expected = 0
<1>1. EmptyTree \in Tree
  BY EmptyIsTree
<1>2. <<>> \in Seq(Rule)
  OBVIOUS
<1>3. IdleJob \in Jobs
  BY <1>1, <1>2 DEF IdleJob, Jobs, AllOps
<1>4. IdleJob.existed = FALSE /\ IdleJob.op = "policy" /\ IdleJob.base = 0 /\ IdleJob.expected = 0
  BY Zenon DEF IdleJob
<1> QED
  BY <1>3, <1>4

(* What a step of one request leaves of the others: they keep their row    *)
(* locks, versions only grow, and nobody writes the manifest or a policy   *)
(* under the holder of the manifest row.                                   *)
LEMMA OthersKeep ==
  ASSUME StoreInv, NEW b \in Admins,
         pc'[b] = pc[b], job'[b] = job[b],
         mLock' = b <=> mLock = b,
         \A p \in Profiles : pLock'[p] = b <=> pLock[p] = b,
         sLock' = b <=> sLock = b,
         manifest.version # 0 => manifest'.version # 0,
         policy' \in [Profiles -> StoredPolicy],
         \A p \in Profiles : policy[p].version <= policy'[p].version,
         UNCHANGED <<manifest, policy>> \/ mLock # b
  PROVE  (Placed(pc[b], job[b]) /\ Knows(pc[b], job[b]) /\ Holds(b, pc[b], job[b]))'
<1>1. Placed(pc[b], job[b]) /\ Knows(pc[b], job[b]) /\ Holds(b, pc[b], job[b])
  BY DEF StoreInv, Requests
<1>2. policy \in [Profiles -> StoredPolicy]
  BY DEF StoreInv, Typed, TypeOK
<1>3. \A p \in Profiles : policy[p].version \in Nat /\ policy'[p].version \in Nat
  BY <1>2 DEF StoredPolicy
<1>4. Present(policy) \subseteq Present(policy')
  BY <1>3 DEF Present
<1>5. Placed(pc'[b], job'[b])
  BY <1>1
<1>6. Holds(b, pc[b], job[b])'
  <2>1. \A p \in Profiles : pLock'[p] = b
             => Rows(pc[b], job[b]) /\ (p \in Present(policy') \/ Has(pc[b], job[b]))
    BY <1>1, <1>4 DEF Holds
  <2>2. job[b].op \in Whole /\ pc[b] \in {"policies", "set", "setInsert", "commit"}
           => \A p \in Present(policy') : pLock'[p] = b
    BY <1>1 DEF Holds, Has, Present
  <2> QED
    BY <1>1, <2>1, <2>2 DEF Holds
<1>7. Knows(pc[b], job[b])'
  <2>1. CASE UNCHANGED <<manifest, policy>>
    BY <1>1, <2>1 DEF Knows
  <2>2. CASE mLock # b
    <3>1. ~Has(pc[b], job[b])
      BY <1>1, <2>2 DEF Holds
    <3>2. job[b].op = "patch" /\ pc[b] # "idle" =>
             /\ job[b].expected <= policy'[job[b].profile].version
             /\ pc[b] # "merge" => job[b].expected <= job[b].base
                                    /\ job[b].base <= policy'[job[b].profile].version
      <4>1. job[b].op = "patch" /\ pc[b] # "idle" => job[b].profile \in Profiles
        BY <1>1 DEF Placed, Edits
      <4>2. job[b].expected \in Nat /\ job[b].base \in Nat
        BY <1>1 DEF Placed, Jobs
      <4> QED
        BY <1>1, <1>3, <4>1, <4>2 DEF Knows
    <3> QED
      BY <1>1, <1>4, <3>1, <3>2 DEF Knows, Has
  <2> QED
    BY <2>1, <2>2
<1> QED
  BY <1>5, <1>6, <1>7

(* A request that is answered keeps nothing. *)
LEMMA FinishKeeps ==
  ASSUME StoreInv, NEW a \in Admins, Finish(a),
         manifest.version # 0 => manifest'.version # 0,
         policy' \in [Profiles -> StoredPolicy],
         \A p \in Profiles : policy[p].version <= policy'[p].version,
         UNCHANGED <<manifest, policy>> \/ mLock = a
  PROVE  /\ Requests'
         /\ pc' \in [Admins -> Steps] /\ DOMAIN job' = Admins
         /\ mLock' \in Admins \cup {Free} /\ sLock' \in Admins \cup {Free}
         /\ pLock' \in [Profiles -> Admins \cup {Free}]
         /\ \A b \in Admins : job'[b].op \in AllOps /\ job'[b].expected \in Nat
<1>1. /\ pc \in [Admins -> Steps] /\ DOMAIN job = Admins
      /\ mLock \in Admins \cup {Free} /\ sLock \in Admins \cup {Free}
      /\ pLock \in [Profiles -> Admins \cup {Free}]
  BY DEF StoreInv, Typed, TypeOK
<1>2. /\ pc' = [pc EXCEPT ![a] = "idle"] /\ job' = [job EXCEPT ![a] = IdleJob]
      /\ mLock' = IF mLock = a THEN Free ELSE mLock
      /\ sLock' = IF sLock = a THEN Free ELSE sLock
      /\ pLock' = [p \in Profiles |-> IF pLock[p] = a THEN Free ELSE pLock[p]]
  BY DEF Finish, Goto
<1>3. IdleJob \in Jobs
  BY IdleIsJob
<1>4. (Placed(pc[a], job[a]) /\ Knows(pc[a], job[a]) /\ Holds(a, pc[a], job[a]))'
  <2>1. pc'[a] = "idle" /\ job'[a] = IdleJob
    BY <1>1, <1>2
  <2>2. mLock' # a /\ sLock' # a /\ \A p \in Profiles : pLock'[p] # a
    BY <1>1, <1>2, NamesAssumption
  <2>3. IdleJob.op = "policy" /\ ~IdleJob.existed /\ IdleJob.base = IdleJob.expected
    BY IdleIsJob
  <2>4. Placed("idle", IdleJob)
    BY <1>3, <2>3 DEF Placed, Edits, Reading
  <2>5. Knows("idle", IdleJob)'
    BY <2>3 DEF Knows, Edits, Whole
  <2>6. Holds(a, "idle", IdleJob)'
    BY <2>2, <2>3 DEF Holds, Has, Rows, Edits, Whole
  <2> QED
    BY <2>1, <2>4, <2>5, <2>6
<1>5. ASSUME NEW b \in Admins, b # a
      PROVE  (Placed(pc[b], job[b]) /\ Knows(pc[b], job[b]) /\ Holds(b, pc[b], job[b]))'
  <2>1. pc'[b] = pc[b] /\ job'[b] = job[b]
    BY <1>1, <1>2, <1>5
  <2>2. /\ mLock' = b <=> mLock = b
        /\ sLock' = b <=> sLock = b
        /\ \A p \in Profiles : pLock'[p] = b <=> pLock[p] = b
    BY <1>1, <1>2, <1>5, NamesAssumption
  <2> QED
    BY <1>5, <2>1, <2>2, OthersKeep
<1>6. Requests'
  BY <1>4, <1>5 DEF Requests
<1>7. pc' \in [Admins -> Steps]
  BY <1>1, <1>2 DEF Steps
<1>8. \A b \in Admins : job'[b].op \in AllOps /\ job'[b].expected \in Nat
  BY <1>6 DEF Requests, Placed, Jobs
<1> QED
  BY <1>1, <1>2, <1>6, <1>7, <1>8

(* An answer without a write. *)
LEMMA RefuseKeeps ==
  ASSUME StoreInv, NEW a \in Admins, Refuse(a)
  PROVE  StoreInv'
<1>1. Finish(a) /\ UNCHANGED <<manifest, policy, rules, rulesSet, log>>
  BY DEF Refuse, dbVars
<1>2. policy \in [Profiles -> StoredPolicy] /\ \A p \in Profiles : policy[p].version <= policy[p].version
  BY DEF StoreInv, Typed, TypeOK, StoredPolicy
<1>3. /\ Requests'
      /\ pc' \in [Admins -> Steps] /\ DOMAIN job' = Admins
      /\ mLock' \in Admins \cup {Free} /\ sLock' \in Admins \cup {Free}
      /\ pLock' \in [Profiles -> Admins \cup {Free}]
      /\ \A b \in Admins : job'[b].op \in AllOps /\ job'[b].expected \in Nat
  BY <1>1, <1>2, FinishKeeps
<1>4. UNCHANGED <<begun, cache, look, client>>
  BY <1>1 DEF Finish, Goto, readVars
<1>5. Typed'
  BY <1>1, <1>3, <1>4 DEF StoreInv, Typed, TypeOK
<1>6. (PoliciesFitManifest /\ ReferencesResolve /\ HistoryAgrees)'
  BY <1>1 DEF StoreInv, PoliciesFitManifest, ReferencesResolve, HistoryAgrees
<1> QED
  BY <1>3, <1>5, <1>6 DEF StoreInv

(* A step of a request without locks to one without. *)
LEMMA ReadingKeeps ==
  ASSUME StoreInv, NEW a \in Admins, NEW s \in Steps, NEW j,
         Goto(a, s, j), UNCHANGED <<dbVars, lockVars>>, begun' \in 0 .. MaxRequests,
         Placed(s, j), Knows(s, j),
         ~Has(pc[a], job[a]), ~Rows(pc[a], job[a]), pc[a] # "commit",
         ~Has(s, j)
  PROVE  StoreInv'
<1>1. /\ pc' = [pc EXCEPT ![a] = s] /\ job' = [job EXCEPT ![a] = j]
      /\ UNCHANGED <<cache, look, client>>
      /\ UNCHANGED <<manifest, policy, rules, rulesSet, log, mLock, pLock, sLock>>
  BY DEF Goto, readVars, dbVars, lockVars
<1>2. pc \in [Admins -> Steps] /\ DOMAIN job = Admins
  BY DEF StoreInv, Typed, TypeOK
<1>3. policy \in [Profiles -> StoredPolicy] /\ \A p \in Profiles : policy[p].version <= policy[p].version
  BY DEF StoreInv, Typed, TypeOK, StoredPolicy
<1>4. Holds(a, pc[a], job[a])
  BY DEF StoreInv, Requests
<1>5. (Placed(pc[a], job[a]) /\ Knows(pc[a], job[a]) /\ Holds(a, pc[a], job[a]))'
  <2>1. pc'[a] = s /\ job'[a] = j
    BY <1>1, <1>2
  <2>2. Knows(s, j)'
    BY <1>1 DEF Knows
  <2>3. mLock # a /\ sLock # a /\ \A p \in Profiles : pLock[p] # a
    BY <1>4 DEF Holds
  <2>4. j.op \in Whole => s \notin {"policies", "set", "setInsert", "commit"}
    BY DEF Has
  <2>5. Holds(a, s, j)'
    BY <1>1, <2>3, <2>4 DEF Holds
  <2> QED
    BY <2>1, <2>2, <2>5
<1>6. ASSUME NEW b \in Admins, b # a
      PROVE  (Placed(pc[b], job[b]) /\ Knows(pc[b], job[b]) /\ Holds(b, pc[b], job[b]))'
  <2>1. pc'[b] = pc[b] /\ job'[b] = job[b]
    BY <1>1, <1>2, <1>6
  <2> QED
    BY <1>1, <1>3, <2>1, OthersKeep
<1>7. Requests'
  BY <1>5, <1>6 DEF Requests
<1>8. Typed'
  <2>1. pc' \in [Admins -> Steps] /\ DOMAIN job' = Admins
    BY <1>1, <1>2
  <2>2. \A b \in Admins : job'[b].op \in AllOps /\ job'[b].expected \in Nat
    BY <1>7 DEF Requests, Placed, Jobs
  <2> QED
    BY <1>1, <2>1, <2>2 DEF StoreInv, Typed, TypeOK
<1>9. (PoliciesFitManifest /\ ReferencesResolve /\ HistoryAgrees)'
  BY <1>1 DEF StoreInv, PoliciesFitManifest, ReferencesResolve, HistoryAgrees
<1> QED
  BY <1>7, <1>8, <1>9 DEF StoreInv

(* A step that takes row locks nobody else has. *)
LEMMA LockingKeeps ==
  ASSUME StoreInv, NEW a \in Admins, NEW s \in Steps, NEW j, NEW ps \in SUBSET Profiles,
         Goto(a, s, j), UNCHANGED <<dbVars, begun>>,
         mLock' = mLock \/ (mLock' = a /\ MayLock(mLock, a)),
         sLock' = sLock \/ (sLock' = a /\ MayLock(sLock, a)),
         pLock' = [p \in Profiles |-> IF p \in ps THEN a ELSE pLock[p]],
         \A p \in ps : MayLock(pLock[p], a),
         Placed(s, j), Knows(s, j),
         mLock' = a <=> Has(s, j),
         sLock' = a => s = "commit",
         \A p \in Profiles :
            p \in ps \/ pLock[p] = a => Rows(s, j) /\ (p \in Present(policy) \/ Has(s, j)),
         j.op \in Whole /\ s \in {"policies", "set", "setInsert", "commit"} =>
            \A p \in Present(policy) : p \in ps \/ pLock[p] = a
  PROVE  StoreInv'
<1>1. /\ pc' = [pc EXCEPT ![a] = s] /\ job' = [job EXCEPT ![a] = j]
      /\ UNCHANGED <<cache, look, client, begun>>
      /\ UNCHANGED <<manifest, policy, rules, rulesSet, log>>
  BY DEF Goto, readVars, dbVars
<1>2. /\ pc \in [Admins -> Steps] /\ DOMAIN job = Admins
      /\ mLock \in Admins \cup {Free} /\ sLock \in Admins \cup {Free}
      /\ pLock \in [Profiles -> Admins \cup {Free}]
  BY DEF StoreInv, Typed, TypeOK
<1>3. policy \in [Profiles -> StoredPolicy] /\ \A p \in Profiles : policy[p].version <= policy[p].version
  BY DEF StoreInv, Typed, TypeOK, StoredPolicy
<1>4. (Placed(pc[a], job[a]) /\ Knows(pc[a], job[a]) /\ Holds(a, pc[a], job[a]))'
  <2>1. pc'[a] = s /\ job'[a] = j
    BY <1>1, <1>2
  <2>2. Knows(s, j)'
    BY <1>1 DEF Knows
  <2>3. \A p \in Profiles : pLock'[p] = a <=> p \in ps \/ pLock[p] = a
    BY <1>2
  <2>4. \A p \in Present(policy) : p \in Profiles
    BY DEF Present
  <2>5. Holds(a, s, j)'
    BY <1>1, <2>3, <2>4 DEF Holds
  <2> QED
    BY <2>1, <2>2, <2>5
<1>5. ASSUME NEW b \in Admins, b # a
      PROVE  (Placed(pc[b], job[b]) /\ Knows(pc[b], job[b]) /\ Holds(b, pc[b], job[b]))'
  <2>1. pc'[b] = pc[b] /\ job'[b] = job[b]
    BY <1>1, <1>2, <1>5
  <2>2. /\ mLock' = b <=> mLock = b
        /\ sLock' = b <=> sLock = b
        /\ \A p \in Profiles : pLock'[p] = b <=> pLock[p] = b
    BY <1>1, <1>2, <1>5, NamesAssumption DEF MayLock
  <2> QED
    BY <1>1, <1>3, <2>1, <2>2, OthersKeep
<1>6. Requests'
  BY <1>4, <1>5 DEF Requests
<1>7. Typed'
  <2>1. pc' \in [Admins -> Steps] /\ DOMAIN job' = Admins
    BY <1>1, <1>2
  <2>2. \A b \in Admins : job'[b].op \in AllOps /\ job'[b].expected \in Nat
    BY <1>6 DEF Requests, Placed, Jobs
  <2>3. /\ mLock' \in Admins \cup {Free} /\ sLock' \in Admins \cup {Free}
        /\ pLock' \in [Profiles -> Admins \cup {Free}]
    BY <1>1, <1>2
  <2> QED
    BY <1>1, <2>1, <2>2, <2>3 DEF StoreInv, Typed, TypeOK
<1>8. (PoliciesFitManifest /\ ReferencesResolve /\ HistoryAgrees)'
  BY <1>1 DEF StoreInv, PoliciesFitManifest, ReferencesResolve, HistoryAgrees
<1> QED
  BY <1>6, <1>7, <1>8 DEF StoreInv

----------------------------------------------------------------------------
(* The requests and what they do before the transaction. *)

(* merge_patch leaves a tree. *)
LEMMA MergeIsTree ==
  ASSUME NEW doc \in Tree, NEW d \in Tree \cup Documents
  PROVE  MergePatch(doc, d) \in Tree
<1> DEFINE D == (DOMAIN doc \cup DOMAIN d) \ {g \in DOMAIN d : d[g] = Null}
           v(f) == IF f \in DOMAIN d THEN d[f] ELSE doc[f]
<1>1. MergePatch(doc, d) = [f \in D |-> v(f)]
  BY DEF MergePatch
<1>2. PICK S \in SUBSET Fields : doc \in [S -> Values]
  BY DEF Tree
<1>3. DOMAIN d \subseteq Fields /\ \A f \in DOMAIN d : d[f] \in Values \cup {Null}
  BY DocumentAssumption DEF Tree
<1>4. D \in SUBSET Fields /\ \A f \in D : v(f) \in Values
  BY <1>2, <1>3
<1> HIDE DEF D, v
<1>5. [f \in D |-> v(f)] \in [D -> Values]
  BY <1>4
<1> QED
  BY <1>1, <1>4, <1>5 DEF Tree

(* What an administrator asks for. *)
LEMMA RequestKeeps ==
  ASSUME StoreInv, NEW a \in Admins, Request(a)
  PROVE  StoreInv'
<1>1. /\ pc[a] = "idle" /\ begun < MaxRequests /\ begun \in 0 .. MaxRequests
      /\ manifest \in StoredManifest /\ policy \in [Profiles -> StoredPolicy] /\ rulesSet \in Nat
      /\ Placed(pc[a], job[a])
  BY DEF Request, StoreInv, Typed, TypeOK, Requests
<1>2. manifest.version \in Nat /\ \A p \in Profiles : policy[p].version \in Nat
  BY <1>1 DEF StoredManifest, StoredPolicy
<1>3. ~Has(pc[a], job[a]) /\ ~Rows(pc[a], job[a])
  BY <1>1 DEF Has, Rows
<1>4. ASSUME NEW s \in Steps, NEW j, Ask(a, s, j), Placed(s, j), Knows(s, j), ~Has(s, j)
      PROVE  StoreInv'
  <2>1. Goto(a, s, j) /\ UNCHANGED <<dbVars, lockVars>> /\ begun' = begun + 1
    BY <1>4 DEF Ask
  <2>2. begun' \in 0 .. MaxRequests
    BY <1>1, <2>1, BoundAssumption
  <2> QED
    BY <1>1, <1>3, <1>4, <2>1, <2>2, ReadingKeeps
<1>5. ASSUME NEW m \in Manifests, AskManifest(a, m) PROVE StoreInv'
  <2> DEFINE j == [IdleJob EXCEPT !.op = "manifest", !.fields = m, !.expected = manifest.version]
  <2>1. Ask(a, "tx", j)
    BY <1>5 DEF AskManifest
  <2>2. j \in Jobs /\ j.op = "manifest" /\ ~j.existed
    BY <1>2, IdleIsJob, ManifestAssumption DEF Jobs, AllOps
  <2> HIDE DEF j
  <2>3. Placed("tx", j) /\ Knows("tx", j) /\ ~Has("tx", j)
    BY <2>2 DEF Placed, Knows, Has, Edits, Whole
  <2> QED
    BY <1>4, <2>1, <2>3 DEF Steps
<1>6. ASSUME NEW p \in Profiles, NEW d \in Documents, NEW q \in Parents, AskPolicy(a, p, d, q)
      PROVE  StoreInv'
  <2> DEFINE j == [IdleJob EXCEPT !.op = "policy", !.profile = p, !.doc = d, !.parent = q,
                                  !.expected = policy[p].version, !.base = policy[p].version]
  <2>1. Ask(a, "fits", j) /\ d \in Tree
    BY <1>6 DEF AskPolicy
  <2>2. /\ j \in Jobs /\ j.op = "policy" /\ ~j.existed
        /\ j.profile = p /\ j.doc = d /\ j.base = j.expected
    BY <1>2, IdleIsJob, ParentAssumption DEF Jobs, AllOps
  <2> HIDE DEF j
  <2>3. Placed("fits", j) /\ Knows("fits", j) /\ ~Has("fits", j)
    BY <2>1, <2>2 DEF Placed, Knows, Has, Edits, Whole, Reading
  <2> QED
    BY <1>4, <2>1, <2>3 DEF Steps
<1>7. ASSUME NEW p \in Profiles, NEW d \in Documents, AskPatch(a, p, d)
      PROVE  StoreInv'
  <2> DEFINE j == [IdleJob EXCEPT !.op = "patch", !.profile = p, !.doc = d,
                                  !.expected = policy[p].version]
  <2>1. Ask(a, "merge", j)
    BY <1>7 DEF AskPatch
  <2>2. /\ j \in Jobs /\ j.op = "patch" /\ ~j.existed
        /\ j.profile = p /\ j.expected = policy[p].version
    BY <1>2, IdleIsJob DEF Jobs, AllOps
  <2> HIDE DEF j
  <2>3. Placed("merge", j) /\ Knows("merge", j) /\ ~Has("merge", j)
    BY <1>2, <2>2 DEF Placed, Knows, Has, Edits, Whole, Reading
  <2> QED
    BY <1>4, <2>1, <2>3 DEF Steps
<1>8. ASSUME NEW p \in Profiles, AskRestore(a, p)
      PROVE  StoreInv'
  <2> DEFINE j == [IdleJob EXCEPT !.op = "restore", !.profile = p]
  <2>1. Ask(a, "history", j)
    BY <1>8 DEF AskRestore
  <2>2. j \in Jobs /\ j.op = "restore" /\ ~j.existed /\ j.profile = p
    BY <1>2, IdleIsJob DEF Jobs, AllOps
  <2> HIDE DEF j
  <2>3. Placed("history", j) /\ Knows("history", j) /\ ~Has("history", j)
    BY <2>2 DEF Placed, Knows, Has, Edits, Whole, Reading
  <2> QED
    BY <1>4, <2>1, <2>3 DEF Steps
<1>9. ASSUME NEW r \in RuleLists, AskRules(a, r) PROVE StoreInv'
  <2> DEFINE j == [IdleJob EXCEPT !.op = "rules", !.rules = r, !.base = rulesSet]
  <2>1. Ask(a, "getVersion", j)
    BY <1>9 DEF AskRules
  <2>2. j \in Jobs /\ j.op = "rules" /\ ~j.existed
    BY <1>1, IdleIsJob, RuleAssumption DEF Jobs, AllOps
  <2> HIDE DEF j
  <2>3. Placed("getVersion", j) /\ Knows("getVersion", j) /\ ~Has("getVersion", j)
    BY <2>2 DEF Placed, Knows, Has, Edits, Whole, Reading
  <2> QED
    BY <1>4, <2>1, <2>3 DEF Steps
<1>10. ASSUME NEW b \in Bundles, AskImport(a, b) PROVE StoreInv'
  <2> DEFINE j == [IdleJob EXCEPT !.op = "import", !.bundle = b, !.fields = b.fields]
  <2>1. Ask(a, "tx", j) /\ BundleValid(b)
    BY <1>10 DEF AskImport
  <2>2. j \in Jobs /\ j.op = "import" /\ ~j.existed /\ j.bundle = b /\ j.fields = b.fields
    BY IdleIsJob, BundleAssumption DEF Jobs, AllOps
  <2> HIDE DEF j
  <2>3. Placed("tx", j) /\ Knows("tx", j) /\ ~Has("tx", j)
    BY <2>1, <2>2 DEF Placed, Knows, Has, Edits, Whole, Reading
  <2> QED
    BY <1>4, <2>1, <2>3 DEF Steps
<1> QED
  BY <1>5, <1>6, <1>7, <1>8, <1>9, <1>10 DEF Request

(* The parent of a chain that resolves is there, or is the profile itself. *)
LEMMA ParentIsThere ==
  ASSUME NEW pol, NEW p \in Profiles, Resolves(pol, p)
  PROVE  pol[p].parent \in Present(pol) \cup {NoProfile}
<1> DEFINE s == Chain(pol, p)
<1>1. s \in Chains(pol, p) /\ s \in Seq(Profiles) /\ Len(s) >= 1 /\ s[1] = p
  BY ChainIsOne
<1> HIDE DEF s
<1>2. \A i \in DOMAIN s : /\ s[i] \in Present(pol)
                         /\ pol[s[i]].parent = IF i < Len(s) THEN s[i + 1] ELSE NoProfile
  BY <1>1 DEF Chains
<1>3. 1 \in DOMAIN s /\ (1 < Len(s) => 2 \in DOMAIN s)
  BY <1>1
<1>4. pol[p].parent = IF 1 < Len(s) THEN s[2] ELSE NoProfile
  BY <1>1, <1>2, <1>3
<1> QED
  BY <1>2, <1>3, <1>4

(* The steps before the transaction. *)
LEMMA ReadsKeep ==
  ASSUME StoreInv, NEW a \in Admins,
         \/ Merge(a) \/ FindVersion(a) \/ CheckFits(a) \/ CheckChain(a) \/ ReadVersion(a)
         \/ ReadSetVersion(a) \/ CheckProfiles(a)
  PROVE  StoreInv'
<1> DEFINE j == job[a]
           p == job[a].profile
<1>1. /\ Placed(pc[a], j) /\ Knows(pc[a], j) /\ j \in Jobs
      /\ policy \in [Profiles -> StoredPolicy] /\ rulesSet \in Nat /\ begun \in 0 .. MaxRequests
      /\ \A e \in log : e.doc \in Tree /\ e.parent \in Profiles \cup {NoProfile}
  BY DEF StoreInv, Typed, TypeOK, Requests, Placed
<1>2. /\ pc[a] \in {"merge", "history", "fits", "chain", "version", "getVersion", "profiles"}
      /\ ~Has(pc[a], j) /\ ~Rows(pc[a], j)
  BY DEF Merge, FindVersion, CheckFits, CheckChain, ReadVersion, ReadSetVersion, CheckProfiles, Has, Rows
<1>3. pc[a] \in {"merge", "history", "fits", "chain", "version"}
         => /\ j.op \in Edits /\ p \in Profiles /\ policy[p].version \in Nat
            /\ policy[p].doc \in Tree /\ policy[p].parent \in Profiles \cup {NoProfile}
  BY <1>1 DEF Placed, Jobs, AllOps, Edits, StoredPolicy
<1>4. pc[a] \in {"getVersion", "profiles"} => j.op = "rules"
  BY <1>1 DEF Placed, Jobs, AllOps, Edits, Reading
<1>5. ASSUME NEW s \in Steps, NEW k, Proceed(a, s, k), Placed(s, k), Knows(s, k), ~Has(s, k)
      PROVE  StoreInv'
  <2>1. Goto(a, s, k) /\ UNCHANGED <<dbVars, lockVars>> /\ begun' \in 0 .. MaxRequests
    BY <1>1, <1>5 DEF Proceed
  <2> QED
    BY <1>2, <1>5, <2>1, ReadingKeeps
<1>6. CASE Merge(a)
  <2>1. pc[a] = "merge" /\ j.op = "patch"
    BY <1>1, <1>3, <1>6 DEF Merge, Placed
  <2>2. CASE Refuse(a)
    BY <2>2, RefuseKeeps
  <2>3. CASE policy[p].version # 0
    <3> DEFINE k(parent) == [j EXCEPT !.doc = MergePatch(policy[p].doc, j.doc),
                                      !.parent = parent, !.base = policy[p].version]
    <3>1. PICK parent \in Parents \cup {policy[p].parent} : Proceed(a, "fits", k(parent))
      BY <1>6, <2>3 DEF Merge
    <3>2. MergePatch(policy[p].doc, j.doc) \in Tree
      BY <1>1, <1>3, <2>1, MergeIsTree DEF Jobs
    <3>3. /\ k(parent) \in Jobs /\ k(parent).doc \in Tree
          /\ k(parent).op = "patch" /\ k(parent).profile = p /\ (k(parent).existed <=> j.existed)
          /\ k(parent).base = policy[p].version /\ k(parent).expected = j.expected
      BY <1>1, <1>3, <2>1, <3>2, ParentAssumption DEF Jobs
    <3> HIDE DEF k
    <3>4. j.expected <= policy[p].version /\ (j.existed => manifest.version # 0)
      BY <1>1, <2>1 DEF Knows
    <3>5. Placed("fits", k(parent)) /\ Knows("fits", k(parent)) /\ ~Has("fits", k(parent))
      BY <1>3, <2>1, <3>3, <3>4 DEF Placed, Knows, Has, Edits, Whole, Reading
    <3> QED
      BY <1>5, <3>1, <3>5 DEF Steps
  <2> QED
    BY <1>6, <2>2, <2>3 DEF Merge
<1>7. CASE FindVersion(a)
  <2>1. pc[a] = "history"
    BY <1>7 DEF FindVersion
  <2>2. CASE Refuse(a)
    BY <2>2, RefuseKeeps
  <2>3. ASSUME NEW e \in log, Proceed(a, "fits", [job[a] EXCEPT !.doc = e.doc, !.parent = e.parent])
        PROVE  StoreInv'
    <3> DEFINE k == [j EXCEPT !.doc = e.doc, !.parent = e.parent]
    <3>1. /\ k \in Jobs /\ k.doc \in Tree /\ k.op = j.op /\ k.profile = p
          /\ (k.existed <=> j.existed) /\ k.base = j.base /\ k.expected = j.expected
      BY <1>1 DEF Jobs
    <3> HIDE DEF k
    <3>2. Placed("fits", k)
      BY <1>1, <1>3, <2>1, <3>1 DEF Placed, Edits, Reading
    <3>3. Knows("fits", k) /\ ~Has("fits", k)
      BY <1>1, <1>3, <2>1, <3>1 DEF Knows, Has, Edits, Whole
    <3> QED
      BY <1>5, <2>3, <3>2, <3>3 DEF Steps, k
  <2> QED
    BY <1>7, <2>2, <2>3 DEF FindVersion
<1>8. CASE CheckFits(a)
  <2>1. pc[a] = "fits" /\ (Refuse(a) \/ Proceed(a, "chain", j))
    BY <1>8 DEF CheckFits
  <2>2. Placed("chain", j) /\ Knows("chain", j) /\ ~Has("chain", j)
    BY <1>1, <1>3, <2>1 DEF Placed, Knows, Has, Edits, Whole, Reading
  <2> QED
    BY <1>5, <2>1, <2>2, RefuseKeeps DEF Steps
<1>9. CASE CheckChain(a)
  <2> DEFINE candidate == [doc |-> j.doc, parent |-> j.parent, version |-> 1]
             pol == [policy EXCEPT ![p] = candidate]
  <2>1. pc[a] = "chain"
    BY <1>9 DEF CheckChain
  <2>2. CASE Refuse(a)
    BY <2>2, RefuseKeeps
  <2>3. CASE Resolves(pol, p)
    <3>1. PICK s \in {"version", "tx"} : Proceed(a, s, j)
      BY <1>9, <2>3 DEF CheckChain
    <3>2. pol[p].parent \in Present(pol) \cup {NoProfile}
      BY <1>3, <2>1, <2>3, ParentIsThere
    <3>3. pol[p].parent = j.parent /\ Present(pol) \subseteq Present(policy) \cup {p}
      BY <1>1, <1>3, <2>1 DEF Present
    <3>4. j.parent \in Present(policy) \cup {NoProfile, p}
      BY <3>2, <3>3
    <3>5. Placed(s, j) /\ ~Has(s, j)
      BY <1>1, <1>3, <2>1 DEF Placed, Has, Edits, Whole, Reading
    <3>6. Knows(s, j)
      BY <1>1, <1>3, <2>1, <3>4 DEF Knows, Edits, Whole
    <3> QED
      BY <1>5, <3>1, <3>5, <3>6 DEF Steps
  <2> QED
    BY <1>9, <2>2, <2>3 DEF CheckChain
<1>10. CASE ReadVersion(a)
  <2> DEFINE v == policy[p].version
             k == [j EXCEPT !.expected = v, !.base = v]
  <2>1. pc[a] = "version" /\ Proceed(a, "tx", k)
    BY <1>10 DEF ReadVersion
  <2>2. /\ k \in Jobs /\ k.doc = j.doc /\ k.op = j.op /\ k.profile = p /\ k.parent = j.parent
        /\ (k.existed <=> j.existed) /\ k.base = v /\ k.expected = v
    BY <1>1, <1>3, <2>1 DEF Jobs
  <2> HIDE DEF k
  <2>3. Placed("tx", k)
    BY <1>1, <1>3, <2>1, <2>2 DEF Placed, Edits, Reading
  <2>4. Knows("tx", k) /\ ~Has("tx", k)
    BY <1>1, <1>3, <2>1, <2>2 DEF Knows, Has, Edits, Whole
  <2> QED
    BY <1>5, <2>1, <2>3, <2>4 DEF Steps
<1>11. CASE ReadSetVersion(a)
  <2> DEFINE k == [j EXCEPT !.expected = rulesSet]
  <2>1. pc[a] = "getVersion" /\ Proceed(a, "profiles", k)
    BY <1>11 DEF ReadSetVersion
  <2>2. k \in Jobs /\ k.op = "rules" /\ (k.existed <=> j.existed)
    BY <1>1, <1>4, <2>1 DEF Jobs
  <2> HIDE DEF k
  <2>3. Placed("profiles", k) /\ Knows("profiles", k) /\ ~Has("profiles", k)
    BY <1>1, <2>2 DEF Placed, Knows, Has, Edits, Whole
  <2> QED
    BY <1>5, <2>1, <2>3 DEF Steps
<1>12. CASE CheckProfiles(a)
  <2>1. pc[a] = "profiles"
    BY <1>12 DEF CheckProfiles
  <2>2. CASE Refuse(a)
    BY <2>2, RefuseKeeps
  <2>3. CASE RulesValid(j.rules, Present(policy))
    <3>1. Proceed(a, "set", j)
      BY <1>12, <2>3 DEF CheckProfiles
    <3>2. Placed("set", j) /\ Knows("set", j) /\ ~Has("set", j)
      BY <1>1, <1>4, <2>1, <2>3 DEF Placed, Knows, Has, Edits, Whole, RulesValid
    <3> QED
      BY <1>5, <3>1, <3>2 DEF Steps
  <2> QED
    BY <1>12, <2>2, <2>3 DEF CheckProfiles
<1> QED
  BY <1>6, <1>7, <1>8, <1>9, <1>10, <1>11, <1>12

----------------------------------------------------------------------------
(* The steps that take row locks. *)
LEMMA LocksKeep ==
  ASSUME StoreInv, NEW a \in Admins,
         \/ LockManifest(a) \/ LockPolicy(a) \/ LockPolicies(a) \/ InsertManifest(a)
         \/ UpsertPolicies(a) \/ LockSet(a) \/ InsertSet(a)
  PROVE  StoreInv'
<1> DEFINE j == job[a]
           p == job[a].profile
<1>1. /\ Placed(pc[a], j) /\ Knows(pc[a], j) /\ Holds(a, pc[a], j) /\ j \in Jobs
      /\ policy \in [Profiles -> StoredPolicy] /\ rulesSet \in Nat
  BY DEF StoreInv, Typed, TypeOK, Requests, Placed
<1>2. {} \in SUBSET Profiles /\ Present(policy) \in SUBSET Profiles
  BY DEF Present
<1>3. j.op \in Edits \/ j.op = "manifest" \/ j.op = "import" \/ j.op = "rules"
  BY <1>1 DEF Jobs, AllOps, Edits
<1>4. CASE LockManifest(a)
  <2> DEFINE e == manifest.version # 0
             k == [j EXCEPT !.existed = e]
             s == IF j.op \in Whole THEN "rows" ELSE "row"
  <2>1. pc[a] = "tx" /\ j.op # "rules"
    BY <1>1, <1>4 DEF LockManifest, Placed
  <2>2. CASE Refuse(a)
    BY <2>2, RefuseKeeps
  <2>3. CASE ~Refuse(a)
    <3>1. /\ k \in Jobs /\ k.op = j.op /\ k.profile = p /\ k.doc = j.doc /\ k.parent = j.parent
          /\ k.base = j.base /\ k.expected = j.expected
          /\ k.bundle = j.bundle /\ k.fields = j.fields
      BY <1>1 DEF Jobs
    <3>2. k.existed = e
      BY <1>1, Zenon DEF Jobs
    <3>3. /\ e => MayLock(mLock, a)
          /\ j.op \in Edits => e
          /\ Locking(a, s, k, e, {}, FALSE)
      <4>1. k.existed => MayLock(mLock, a)
        BY <1>4, Zenon DEF LockManifest
      <4>2. /\ ~(j.op \notin Whole /\ ~k.existed)
            /\ Locking(a, s, k, k.existed, {}, FALSE)
        BY <1>4, <2>3, Zenon DEF LockManifest, Whole
      <4>3. j.op \in Edits => j.op \notin Whole
        BY DEF Edits, Whole
      <4> HIDE DEF k, s, e
      <4> QED
        BY <3>2, <4>1, <4>2, <4>3
    <3>5. s \in Steps
      BY DEF Steps
    <3>6. Placed(s, k)
      <4> HIDE DEF k, e
      <4> QED
        BY <1>1, <1>3, <2>1, <3>1, <3>2, <3>3 DEF Placed, Edits, Whole, Reading
    <3>7. Knows(s, k)
      <4> HIDE DEF k
      <4> QED
        BY <1>1, <1>3, <2>1, <3>1, <3>2 DEF Knows, Edits, Whole
    <3>8. Has(s, k) <=> e
      <4> HIDE DEF k, e
      <4> QED
        BY <1>3, <2>1, <3>1, <3>2, <3>3 DEF Has, Edits, Whole
    <3>9. mLock # a /\ sLock # a /\ \A q \in Profiles : pLock[q] # a
      BY <1>1, <2>1 DEF Holds, Has, Rows
    <3>10. k.op \in Whole => s \notin {"policies", "set", "setInsert", "commit"}
      OBVIOUS
    <3> HIDE DEF k, e, s
    <3>11. /\ mLock' = a <=> Has(s, k)
           /\ sLock' = a => s = "commit"
           /\ \A q \in Profiles :
                 q \in {} \/ pLock[q] = a => Rows(s, k) /\ (q \in Present(policy) \/ Has(s, k))
           /\ k.op \in Whole /\ s \in {"policies", "set", "setInsert", "commit"} =>
                 \A q \in Present(policy) : q \in {} \/ pLock[q] = a
      BY <3>3, <3>8, <3>9, <3>10 DEF Locking
    <3> QED
      BY <1>2, <3>3, <3>5, <3>6, <3>7, <3>11, LockingKeeps DEF Locking
  <2> QED
    BY <2>2, <2>3
<1>5. CASE LockPolicy(a)
  <2> DEFINE ps == {p} \cap Present(policy)
  <2>1. pc[a] = "row" /\ MayLock(pLock[p], a)
    BY <1>5 DEF LockPolicy
  <2>2. j.op \in Edits /\ p \in Profiles
    BY <1>1, <1>3, <2>1 DEF Placed
  <2>3. CASE Refuse(a)
    BY <2>3, RefuseKeeps
  <2>4. CASE policy[p].version = j.expected /\ Fits(manifest.fields, j.doc)
    <3>1. Locking(a, "commit", j, FALSE, ps, FALSE)
      BY <1>5, <2>4 DEF LockPolicy
    <3>2. ps \in SUBSET Profiles /\ \A q \in ps : MayLock(pLock[q], a)
      BY <2>1, <2>2
    <3>3. Placed("commit", j) /\ Knows("commit", j)
      BY <1>1, <2>1, <2>2, <2>4 DEF Placed, Knows, Edits, Whole, Reading
    <3>4. mLock = a /\ Has("commit", j) /\ Rows("commit", j)
      BY <1>1, <2>1, <2>2 DEF Holds, Has, Rows
    <3>5. j.op \notin Whole
      BY <2>2 DEF Edits, Whole
    <3> HIDE DEF ps
    <3> QED
      BY <1>2, <3>1, <3>2, <3>3, <3>4, <3>5, LockingKeeps DEF Steps, Locking
  <2> QED
    BY <1>5, <2>3, <2>4 DEF LockPolicy
<1>6. CASE LockPolicies(a)
  <2> DEFINE ps == Present(policy)
             s == CASE ~job[a].existed -> "insert"
                    [] job[a].existed /\ job[a].op = "manifest" -> "commit"
                    [] OTHER -> "policies"
  <2>1. pc[a] = "rows" /\ \A q \in ps : MayLock(pLock[q], a)
    BY <1>6 DEF LockPolicies
  <2>2. j.op \in Whole
    BY <1>1, <1>3, <2>1 DEF Placed, Whole, Reading
  <2>3. CASE Refuse(a)
    BY <2>3, RefuseKeeps
  <2>4. CASE \A q \in ps : Fits(j.fields, policy[q].doc)
    <3>1. Locking(a, s, j, FALSE, ps, FALSE)
      BY <1>6, <2>4 DEF LockPolicies
    <3>2. \/ s = "insert" /\ ~j.existed
          \/ s = "commit" /\ j.existed /\ j.op = "manifest"
          \/ s = "policies" /\ j.existed /\ j.op = "import"
      BY <2>2 DEF Whole
    <3> HIDE DEF s
    <3>3. Placed(s, j) /\ Knows(s, j) /\ s \in Steps
      BY <1>1, <2>1, <2>2, <2>4, <3>2 DEF Placed, Knows, Edits, Whole, Reading, Steps
    <3>4. mLock = a <=> j.existed
      BY <1>1, <2>1, <2>2 DEF Holds, Has, Edits, Whole
    <3>5. (Has(s, j) <=> j.existed) /\ Rows(s, j) /\ sLock # a
      BY <1>1, <2>1, <2>2, <3>2 DEF Holds, Has, Rows, Edits, Whole
    <3>6. \A q \in Profiles : pLock[q] # a
      BY <1>1, <2>1, <2>2 DEF Holds, Rows, Edits, Whole
    <3> HIDE DEF ps
    <3> QED
      BY <1>2, <2>1, <3>1, <3>3, <3>4, <3>5, <3>6, LockingKeeps DEF ps, Locking
  <2> QED
    BY <1>6, <2>3, <2>4 DEF LockPolicies
<1>7. CASE InsertManifest(a)
  <2> DEFINE s == IF j.op = "manifest" THEN "commit" ELSE "policies"
  <2>1. pc[a] = "insert" /\ ~Writing(mLock)
    BY <1>7 DEF InsertManifest
  <2>2. j.op \in Whole /\ ~j.existed
    BY <1>1, <1>3, <2>1 DEF Placed, Whole, Reading
  <2>3. CASE Refuse(a)
    BY <2>3, RefuseKeeps
  <2>4. CASE manifest.version = 0
    <3>1. Locking(a, s, j, TRUE, {}, FALSE)
      BY <1>7, <2>4 DEF InsertManifest
    <3>2. mLock = Free
      <4>1. ASSUME mLock \in Admins PROVE FALSE
        <5>1. Holds(mLock, pc[mLock], job[mLock]) /\ Knows(pc[mLock], job[mLock]) /\ Placed(pc[mLock], job[mLock])
          BY <4>1 DEF StoreInv, Requests
        <5>2. Has(pc[mLock], job[mLock])
          BY <5>1 DEF Holds
        <5>3. job[mLock].existed
          BY <2>1, <4>1, <5>1, <5>2 DEF Has, Writing, Placed, Whole
        <5> QED
          BY <2>4, <5>1, <5>3 DEF Knows
      <4> QED
        BY <4>1 DEF StoreInv, Typed, TypeOK
    <3>3. Present(policy) = {}
      BY <2>4 DEF StoreInv, PoliciesFitManifest
    <3>4. Placed(s, j) /\ Knows(s, j) /\ s \in Steps
      BY <1>1, <2>1, <2>2, <3>3 DEF Placed, Knows, Edits, Whole, Reading, Steps
    <3>5. Has(s, j) /\ Rows(s, j) /\ sLock # a
      BY <1>1, <2>1, <2>2 DEF Holds, Has, Rows, Edits, Whole
    <3> HIDE DEF s
    <3> QED
      BY <1>2, <3>1, <3>2, <3>3, <3>4, <3>5, LockingKeeps DEF MayLock, Locking
  <2> QED
    BY <1>7, <2>3, <2>4 DEF InsertManifest
<1>8. CASE UpsertPolicies(a)
  <2> DEFINE ps == DOMAIN j.bundle.policies
             k == [j EXCEPT !.rules = j.bundle.rules]
             s == IF j.bundle.declared THEN "set" ELSE "commit"
  <2>1. /\ pc[a] = "policies" /\ \A q \in ps : MayLock(pLock[q], a)
        /\ Locking(a, s, k, FALSE, ps, FALSE)
    BY <1>8 DEF UpsertPolicies
  <2>2. j.op = "import" /\ j.bundle \in Bundles
    BY <1>1, <1>3, <2>1 DEF Placed, Reading
  <2>3. ps \in SUBSET Profiles /\ j.bundle.rules \in Seq(Rule)
    BY <2>2, BundleAssumption
  <2>4. /\ k \in Jobs /\ k.op = "import" /\ (k.existed <=> j.existed) /\ k.fields = j.fields
        /\ k.bundle = j.bundle
    BY <1>1, <2>2, <2>3 DEF Jobs
  <2>5. s \in {"set", "commit"}
    OBVIOUS
  <2> HIDE DEF k, s
  <2>6. Placed(s, k) /\ Knows(s, k) /\ s \in Steps
    BY <1>1, <2>1, <2>2, <2>4, <2>5 DEF Placed, Knows, Edits, Whole, Steps
  <2>7. mLock = a /\ Has(s, k) /\ Rows(s, k) /\ sLock # a
    BY <1>1, <2>1, <2>2, <2>4, <2>5 DEF Holds, Has, Rows, Whole
  <2>8. \A q \in Present(policy) : pLock[q] = a
    BY <1>1, <2>1, <2>2 DEF Holds, Whole
  <2> HIDE DEF ps
  <2> QED
    BY <1>2, <2>1, <2>3, <2>6, <2>7, <2>8, LockingKeeps DEF Locking
<1>9. CASE LockSet(a)
  <2> DEFINE set == rulesSet # 0
             s == IF rulesSet # 0 THEN "commit" ELSE "setInsert"
  <2>1. pc[a] = "set" /\ (set => MayLock(sLock, a))
    BY <1>9 DEF LockSet
  <2>2. j.op \in {"rules", "import"}
    BY <1>1, <1>3, <2>1 DEF Placed, Reading
  <2>3. CASE Refuse(a)
    BY <2>3, RefuseKeeps
  <2>4. CASE Locking(a, s, j, FALSE, {}, set)
    <3>1. s \in {"commit", "setInsert"} /\ (rulesSet # 0 => s = "commit")
      OBVIOUS
    <3>2. /\ sLock' = sLock \/ (sLock' = a /\ MayLock(sLock, a))
          /\ sLock' = a => sLock = a \/ s = "commit"
          /\ mLock' = mLock /\ pLock' = [q \in Profiles |-> IF q \in {} THEN a ELSE pLock[q]]
          /\ Goto(a, s, j) /\ UNCHANGED <<dbVars, begun>>
      BY <2>1, <2>4 DEF Locking
    <3> HIDE DEF s, set
    <3>3. Placed(s, j) /\ s \in Steps
      BY <1>1, <2>1, <2>2, <3>1 DEF Placed, Edits, Steps
    <3>4. Knows(s, j)
      BY <1>1, <2>1, <2>2, <3>1 DEF Knows, Edits, Whole
    <3>5. (mLock = a <=> Has(s, j)) /\ (Rows(s, j) <=> Rows(pc[a], j)) /\ (Has(s, j) <=> Has(pc[a], j)) /\ sLock # a
      BY <1>1, <2>1, <2>2, <3>1 DEF Holds, Has, Rows, Edits, Whole
    <3>6. j.op \in Whole => \A q \in Present(policy) : pLock[q] = a
      BY <1>1, <2>1 DEF Holds
    <3>7. \A q \in Profiles : pLock[q] = a => Rows(s, j) /\ (q \in Present(policy) \/ Has(s, j))
      BY <1>1, <3>5 DEF Holds
    <3>8. /\ mLock' = a <=> Has(s, j)
          /\ sLock' = a => s = "commit"
          /\ \A q \in Profiles :
                q \in {} \/ pLock[q] = a => Rows(s, j) /\ (q \in Present(policy) \/ Has(s, j))
          /\ j.op \in Whole /\ s \in {"policies", "set", "setInsert", "commit"} =>
                \A q \in Present(policy) : q \in {} \/ pLock[q] = a
      BY <3>5, <3>6, <3>7, <3>2
    <3>9. /\ mLock' = mLock \/ (mLock' = a /\ MayLock(mLock, a))
          /\ {} \in SUBSET Profiles /\ \A q \in {} : MayLock(pLock[q], a)
      BY <3>2
    <3> HIDE DEF j
    <3> QED
      BY <1>2, <3>2, <3>3, <3>4, <3>8, <3>9, LockingKeeps
  <2> QED
    BY <1>9, <2>3, <2>4 DEF LockSet
<1>10. CASE InsertSet(a)
  <2>1. pc[a] = "setInsert" /\ MayLock(sLock, a)
    BY <1>10 DEF InsertSet
  <2>2. j.op \in {"rules", "import"}
    BY <1>1, <1>3, <2>1 DEF Placed, Reading
  <2>3. CASE Refuse(a)
    BY <2>3, RefuseKeeps
  <2>4. CASE Locking(a, "commit", j, FALSE, {}, TRUE)
    <3>1. Placed("commit", j) /\ Knows("commit", j)
      BY <1>1, <2>1, <2>2 DEF Placed, Knows, Edits, Whole
    <3>2. /\ mLock = a <=> Has("commit", j)
          /\ Rows("commit", j) <=> Rows(pc[a], j)
          /\ Has("commit", j) <=> Has(pc[a], j)
      BY <1>1, <2>1, <2>2 DEF Holds, Has, Rows, Edits, Whole
    <3>3. j.op \in Whole => \A q \in Present(policy) : pLock[q] = a
      BY <1>1, <2>1 DEF Holds
    <3>4. \A q \in Profiles : pLock[q] = a => Rows("commit", j) /\ (q \in Present(policy) \/ Has("commit", j))
      BY <1>1, <3>2 DEF Holds
    <3>5. /\ mLock' = a <=> Has("commit", j)
          /\ \A q \in Profiles :
                q \in {} \/ pLock[q] = a => Rows("commit", j) /\ (q \in Present(policy) \/ Has("commit", j))
          /\ j.op \in Whole /\ "commit" \in {"policies", "set", "setInsert", "commit"} =>
                \A q \in Present(policy) : q \in {} \/ pLock[q] = a
      BY <2>4, <3>2, <3>3, <3>4 DEF Locking
    <3>6. "commit" \in Steps
      BY DEF Steps
    <3>7. /\ sLock' = a /\ mLock' = mLock
          /\ pLock' = [q \in Profiles |-> IF q \in {} THEN a ELSE pLock[q]]
          /\ Goto(a, "commit", j) /\ UNCHANGED <<dbVars, begun>>
      BY <2>4 DEF Locking
    <3> QED
      BY <1>2, <2>1, <3>1, <3>5, <3>6, <3>7, LockingKeeps
  <2> QED
    BY <1>10, <2>3, <2>4 DEF InsertSet
<1> QED
  BY <1>4, <1>5, <1>6, <1>7, <1>8, <1>9, <1>10

----------------------------------------------------------------------------
(* The commits. *)

(* A valid bundle names the parents of its policies. *)
LEMMA BundleIsSound ==
  ASSUME NEW b \in Bundles, BundleValid(b)
  PROVE  /\ DOMAIN b.policies \subseteq Profiles
         /\ \A p \in DOMAIN b.policies :
               /\ Fits(b.fields, b.policies[p].doc)
               /\ b.policies[p].doc \in Tree
               /\ b.policies[p].parent \in DOMAIN b.policies \cup {NoProfile}
         /\ \A i \in DOMAIN b.rules : b.rules[i].profile \in DOMAIN b.policies
<1>1. /\ DOMAIN b.policies \subseteq Profiles
      /\ \A p \in DOMAIN b.policies : b.policies[p].doc \in Tree
      /\ \A p \in DOMAIN b.policies : Fits(b.fields, b.policies[p].doc) /\ Resolves(BundlePolicies(b), p)
      /\ \A i \in DOMAIN b.rules : b.rules[i].profile \in DOMAIN b.policies
  BY BundleAssumption DEF BundleValid, RulesValid
<1>2. Present(BundlePolicies(b)) \subseteq DOMAIN b.policies
  BY DEF Present, BundlePolicies, NoPolicy
<1>3. ASSUME NEW p \in DOMAIN b.policies
      PROVE  b.policies[p].parent \in DOMAIN b.policies \cup {NoProfile}
  <2>1. BundlePolicies(b)[p].parent = b.policies[p].parent
    BY <1>1 DEF BundlePolicies
  <2>2. BundlePolicies(b)[p].parent \in Present(BundlePolicies(b)) \cup {NoProfile}
    BY <1>1, ParentIsThere
  <2> QED
    BY <1>2, <2>1, <2>2
<1> QED
  BY <1>1, <1>3

LEMMA CommitsKeep ==
  ASSUME StoreInv, NEW a \in Admins,
         CommitManifest(a) \/ CommitPolicy(a) \/ CommitRules(a) \/ CommitImport(a)
  PROVE  StoreInv'
<1> DEFINE j == job[a]
           p == job[a].profile
<1>1. /\ Placed(pc[a], j) /\ Knows(pc[a], j) /\ Holds(a, pc[a], j) /\ j \in Jobs
      /\ policy \in [Profiles -> StoredPolicy] /\ manifest \in StoredManifest
      /\ rules \in Seq(Rule) /\ rulesSet \in Nat
      /\ \A e \in log : /\ e.profile \in Profiles /\ e.version \in Nat /\ e.doc \in Tree
                        /\ e.parent \in Profiles \cup {NoProfile}
      /\ PoliciesFitManifest /\ ReferencesResolve /\ HistoryAgrees
  BY DEF StoreInv, Typed, TypeOK, Requests, Placed
<1>2. /\ pc[a] = "commit" /\ Finish(a) /\ UNCHANGED <<begun, cache, look, client>>
  BY DEF CommitManifest, CommitPolicy, CommitRules, CommitImport, Finish, Goto, readVars
<1>3. manifest.version \in Nat /\ \A q \in Profiles : policy[q].version \in Nat /\ policy[q] \in StoredPolicy
  BY <1>1 DEF StoredManifest, StoredPolicy
<1>4. SUFFICES /\ manifest' \in StoredManifest /\ policy' \in [Profiles -> StoredPolicy]
               /\ rules' \in Seq(Rule) /\ rulesSet' \in Nat
               /\ \A e \in log' : /\ e.profile \in Profiles /\ e.version \in Nat /\ e.doc \in Tree
                                  /\ e.parent \in Profiles \cup {NoProfile}
               /\ manifest.version # 0 => manifest'.version # 0
               /\ \A q \in Profiles : policy[q].version <= policy'[q].version
               /\ UNCHANGED <<manifest, policy>> \/ mLock = a
               /\ (PoliciesFitManifest /\ ReferencesResolve /\ HistoryAgrees)'
  <2>1. /\ Requests'
        /\ pc' \in [Admins -> Steps] /\ DOMAIN job' = Admins
        /\ mLock' \in Admins \cup {Free} /\ sLock' \in Admins \cup {Free}
        /\ pLock' \in [Profiles -> Admins \cup {Free}]
        /\ \A b \in Admins : job'[b].op \in AllOps /\ job'[b].expected \in Nat
    BY <1>2, <1>4, FinishKeeps
  <2>2. Typed'
    BY <1>2, <1>4, <2>1 DEF StoreInv, Typed, TypeOK
  <2> QED
    BY <1>4, <2>1, <2>2 DEF StoreInv
<1>5. CASE CommitManifest(a)
  <2>1. /\ j.op = "manifest" /\ j.fields \in SUBSET Fields
        /\ manifest' = [fields |-> j.fields, version |-> manifest.version + 1]
        /\ UNCHANGED <<policy, rules, rulesSet, log>>
    BY <1>1, <1>5 DEF CommitManifest, Jobs
  <2>2. manifest' \in StoredManifest /\ manifest'.version # 0 /\ manifest'.fields = j.fields
    BY <1>3, <2>1 DEF StoredManifest
  <2>3. mLock = a
    BY <1>1, <1>2, <2>1 DEF Holds, Has, Whole
  <2>4. \A q \in Present(policy) : Fits(j.fields, policy[q].doc)
    BY <1>1, <1>2, <2>1 DEF Knows, Whole
  <2>5. (PoliciesFitManifest /\ ReferencesResolve /\ HistoryAgrees)'
    BY <1>1, <2>1, <2>2, <2>4 DEF PoliciesFitManifest, ReferencesResolve, HistoryAgrees
  <2> QED
    BY <1>1, <1>3, <2>1, <2>2, <2>3, <2>5
<1>6. CASE CommitPolicy(a)
  <2> DEFINE w == Written(p, j.doc, j.parent, j)
             n == policy[p].version + 1
  <2>1. /\ j.op \in Edits /\ policy' = [policy EXCEPT ![p] = w] /\ log' = log \cup {Logged(j)}
        /\ UNCHANGED <<manifest, rules, rulesSet>>
    BY <1>6 DEF CommitPolicy, Edits
  <2>2. p \in Profiles /\ j.doc \in Tree /\ j.existed /\ j.parent \in Profiles \cup {NoProfile}
    BY <1>1, <1>2, <2>1 DEF Placed, Jobs
  <2>3. /\ w \in StoredPolicy /\ w.doc = j.doc /\ w.parent = j.parent
        /\ w.version = n /\ n > policy[p].version /\ n \in Nat /\ n # 0
    BY <1>3, <2>2 DEF Written, StoredPolicy
  <2>4. /\ Logged(j).profile = p /\ Logged(j).version = n
        /\ Logged(j).doc = j.doc /\ Logged(j).parent = j.parent
    BY DEF Logged
  <2> HIDE DEF w, n
  <2>5. /\ policy' \in [Profiles -> StoredPolicy] /\ policy'[p] = w
        /\ \A q \in Profiles \ {p} : policy'[q] = policy[q]
    BY <1>1, <2>1, <2>2, <2>3
  <2>6. mLock = a
    BY <1>1, <1>2, <2>1 DEF Holds, Has
  <2>7. /\ manifest.version # 0 /\ Fits(manifest.fields, j.doc)
        /\ j.parent \in Present(policy) \cup {NoProfile, p}
    BY <1>1, <1>2, <2>1, <2>2 DEF Knows
  <2>8. Present(policy') = Present(policy) \cup {p}
    BY <2>2, <2>3, <2>5 DEF Present
  <2>9. PoliciesFitManifest'
    BY <1>1, <2>1, <2>3, <2>5, <2>7, <2>8 DEF PoliciesFitManifest, Present
  <2>10. ReferencesResolve'
    BY <1>1, <2>1, <2>3, <2>5, <2>7, <2>8 DEF ReferencesResolve, Present
  <2>11. ASSUME NEW e \in log
         PROVE  /\ e.profile \in Profiles /\ e.version \in Nat
                /\ e.version <= policy[e.profile].version
                /\ e.version = policy[e.profile].version
                     => e.doc = policy[e.profile].doc /\ e.parent = policy[e.profile].parent
    BY <1>1 DEF HistoryAgrees
  <2>12. ASSUME NEW e \in log, e.profile = p PROVE e.version < n
    <3> HIDE DEF p
    <3>1. e.version \in Nat /\ e.version <= policy[e.profile].version
      BY <2>11
    <3>2. policy[e.profile].version = policy[p].version
      BY <2>12
    <3>3. policy[p].version \in Nat
      BY <1>3, <2>2
    <3> QED
      BY <2>3, <3>1, <3>2, <3>3
  <2>13. \A e, f \in log' : e.profile = f.profile /\ e.version = f.version => e = f
    <3>1. TAKE e, f \in log'
    <3>2. CASE e \in log /\ f \in log
      BY <1>1, <3>2 DEF HistoryAgrees
    <3>3. CASE e \in log /\ f = Logged(j)
      BY <2>3, <2>4, <2>11, <2>12, <3>3
    <3>4. CASE e = Logged(j) /\ f \in log
      BY <2>3, <2>4, <2>11, <2>12, <3>4
    <3> QED
      BY <2>1, <3>2, <3>3, <3>4
  <2>14. ASSUME NEW e \in log'
         PROVE  /\ e.profile \in Profiles /\ e.version \in Nat /\ e.doc \in Tree
                /\ e.parent \in Profiles \cup {NoProfile}
                /\ e.version <= policy'[e.profile].version
                /\ e.version = policy'[e.profile].version
                     => e.doc = policy'[e.profile].doc /\ e.parent = policy'[e.profile].parent
    <3>1. CASE e = Logged(j)
      BY <2>2, <2>3, <2>4, <2>5, <3>1
    <3>2. CASE e \in log /\ e.profile = p
      <4> HIDE DEF p
      <4>1. e.version \in Nat /\ e.version < n
        BY <2>11, <2>12, <3>2
      <4>2. policy'[e.profile].version = n
        BY <2>3, <2>5, <3>2
      <4>3. e.version <= n /\ e.version # n
        BY <2>3, <4>1
      <4> QED
        BY <1>1, <3>2, <4>2, <4>3
    <3>3. CASE e \in log /\ e.profile # p
      BY <1>1, <2>5, <2>11, <3>3
    <3> QED
      BY <2>1, <3>1, <3>2, <3>3
  <2>15. HistoryAgrees'
    BY <2>13, <2>14 DEF HistoryAgrees
  <2>16. \A q \in Profiles : policy[q].version <= policy'[q].version
    BY <1>3, <2>3, <2>5
  <2> QED
    BY <1>1, <2>1, <2>5, <2>6, <2>9, <2>10, <2>14, <2>15, <2>16
<1>7. CASE CommitRules(a)
  <2>1. /\ j.op = "rules" /\ rules' = j.rules /\ rulesSet' = rulesSet + 1 /\ j.rules \in Seq(Rule)
        /\ UNCHANGED <<manifest, policy, log>>
    BY <1>1, <1>7 DEF CommitRules, Jobs
  <2>2. \A i \in DOMAIN j.rules : j.rules[i].profile \in Present(policy)
    BY <1>1, <1>2, <2>1 DEF Knows
  <2>3. (PoliciesFitManifest /\ ReferencesResolve /\ HistoryAgrees)'
    BY <1>1, <2>1, <2>2 DEF PoliciesFitManifest, ReferencesResolve, HistoryAgrees
  <2> QED
    BY <1>1, <1>3, <2>1, <2>3
<1>8. CASE CommitImport(a)
  <2> DEFINE b == j.bundle
             ps == DOMAIN j.bundle.policies
             w(q) == Written(q, b.policies[q].doc, b.policies[q].parent, j)
  <2>1. /\ j.op = "import"
        /\ manifest' = [fields |-> j.fields, version |-> manifest.version + 1]
        /\ policy' = [q \in Profiles |-> IF q \in ps THEN w(q) ELSE policy[q]]
        /\ rules' = IF b.declared THEN b.rules ELSE rules
        /\ rulesSet' = IF b.declared THEN rulesSet + 1 ELSE rulesSet
        /\ UNCHANGED log
    BY <1>8 DEF CommitImport
  <2>2. b \in Bundles /\ BundleValid(b) /\ j.fields = b.fields
    BY <1>1, <2>1 DEF Placed
  <2>3. /\ ps \subseteq Profiles /\ b.rules \in Seq(Rule) /\ j.fields \in SUBSET Fields
        /\ \A q \in ps : /\ Fits(j.fields, b.policies[q].doc)
                         /\ b.policies[q].doc \in Tree
                         /\ b.policies[q].parent \in ps \cup {NoProfile}
        /\ \A i \in DOMAIN b.rules : b.rules[i].profile \in ps
    BY <2>2, BundleIsSound, BundleAssumption
  <2>4. \A q \in ps : /\ w(q).doc = b.policies[q].doc /\ w(q).parent = b.policies[q].parent
                     /\ w(q).version = policy[q].version + 1 /\ w(q) \in StoredPolicy
    BY <1>3, <2>3 DEF Written, StoredPolicy
  <2> HIDE DEF w
  <2>5. /\ policy' \in [Profiles -> StoredPolicy]
        /\ \A q \in ps : policy'[q] = w(q)
        /\ \A q \in Profiles \ ps : policy'[q] = policy[q]
    BY <1>1, <2>1, <2>3, <2>4
  <2>6. \A q \in Profiles : policy[q].version <= policy'[q].version
    BY <1>3, <2>4, <2>5
  <2>7. manifest' \in StoredManifest /\ manifest'.version # 0 /\ manifest'.fields = j.fields
    BY <1>3, <2>1, <2>3 DEF StoredManifest
  <2>8. mLock = a /\ \A q \in Present(policy) : Fits(j.fields, policy[q].doc)
    BY <1>1, <1>2, <2>1 DEF Holds, Has, Knows, Whole
  <2>9. Present(policy') = Present(policy) \cup ps
    BY <1>3, <2>3, <2>4, <2>5 DEF Present
  <2>10. PoliciesFitManifest'
    <3>1. ASSUME NEW q \in Present(policy') PROVE Fits(j.fields, policy'[q].doc)
      <4>1. CASE q \in ps
        BY <2>3, <2>4, <2>5, <4>1
      <4>2. CASE q \notin ps
        <5>1. q \in Present(policy) /\ q \in Profiles
          BY <2>9, <4>2 DEF Present
        <5> QED
          BY <2>5, <2>8, <4>2, <5>1
      <4> QED
        BY <4>1, <4>2
    <3> QED
      BY <2>7, <3>1 DEF PoliciesFitManifest
  <2>11. ReferencesResolve'
    <3>1. ASSUME NEW q \in Present(policy') PROVE policy'[q].parent \in Present(policy') \cup {NoProfile}
      <4>1. CASE q \in ps
        BY <2>3, <2>4, <2>5, <2>9, <4>1
      <4>2. CASE q \notin ps
        <5>1. q \in Present(policy) /\ q \in Profiles
          BY <2>9, <4>2 DEF Present
        <5> QED
          BY <1>1, <2>5, <2>9, <4>2, <5>1 DEF ReferencesResolve
      <4> QED
        BY <4>1, <4>2
    <3>2. \A i \in DOMAIN rules' : rules'[i].profile \in Present(policy')
      BY <1>1, <2>1, <2>3, <2>9 DEF ReferencesResolve
    <3> QED
      BY <3>1, <3>2 DEF ReferencesResolve
  <2>12. ASSUME NEW e \in log
         PROVE  /\ e.version <= policy'[e.profile].version
                /\ e.version = policy'[e.profile].version
                     => e.doc = policy'[e.profile].doc /\ e.parent = policy'[e.profile].parent
    <3>1. /\ e.profile \in Profiles /\ e.version \in Nat
          /\ e.version <= policy[e.profile].version
          /\ e.version = policy[e.profile].version
                => e.doc = policy[e.profile].doc /\ e.parent = policy[e.profile].parent
      BY <1>1 DEF HistoryAgrees
    <3>2. CASE e.profile \in ps
      BY <1>3, <2>4, <2>5, <3>1, <3>2
    <3>3. CASE e.profile \notin ps
      BY <2>5, <3>1, <3>3
    <3> QED
      BY <3>2, <3>3
  <2>13. HistoryAgrees'
    BY <1>1, <2>1, <2>12 DEF HistoryAgrees
  <2>14. rules' \in Seq(Rule) /\ rulesSet' \in Nat
    BY <1>1, <2>1, <2>3
  <2> QED
    BY <1>1, <2>1, <2>5, <2>6, <2>7, <2>8, <2>10, <2>11, <2>13, <2>14
<1> QED
  BY <1>5, <1>6, <1>7, <1>8

----------------------------------------------------------------------------
(* The lookups. *)

(* Requests, rows and locks are left alone. *)
LEMMA StoreStays ==
  ASSUME StoreInv, UNCHANGED <<dbVars, lockVars, pc, job, begun>>, Typed'
  PROVE  StoreInv'
<1>1. /\ UNCHANGED <<manifest, policy, rules, rulesSet, log, mLock, pLock, sLock, pc, job>>
  BY DEF dbVars, lockVars
<1>2. ASSUME NEW a \in Admins
      PROVE  (Placed(pc[a], job[a]) /\ Knows(pc[a], job[a]) /\ Holds(a, pc[a], job[a]))'
  <2>1. Placed(pc[a], job[a]) /\ Knows(pc[a], job[a]) /\ Holds(a, pc[a], job[a])
    BY DEF StoreInv, Requests
  <2>2. pc'[a] = pc[a] /\ job'[a] = job[a]
    BY <1>1
  <2>3. Knows(pc[a], job[a])' /\ Holds(a, pc[a], job[a])'
    BY <1>1, <2>1 DEF Knows, Holds
  <2> QED
    BY <2>1, <2>2, <2>3
<1>3. Requests'
  BY <1>2 DEF Requests
<1>4. (PoliciesFitManifest /\ ReferencesResolve /\ HistoryAgrees)'
  BY <1>1 DEF StoreInv, PoliciesFitManifest, ReferencesResolve, HistoryAgrees
<1> QED
  BY <1>3, <1>4 DEF StoreInv

(* resolve_profile returns the profile of a rule. *)
LEMMA ProfileOfRule ==
  ASSUME NEW list \in Seq(Rule), NEW c
  PROVE  ResolveProfile(list, c) \in Profiles \cup {NoProfile}
<1> DEFINE hits == {i \in DOMAIN list : list[i].default \/ c \in list[i].who}
           first == CHOOSE i \in hits : \A j \in hits : i <= j
<1>1. ResolveProfile(list, c) = IF hits = {} THEN NoProfile ELSE list[first].profile
  BY DEF ResolveProfile
<1>2. ASSUME hits # {} PROVE first \in hits
  <2>1. hits \in SUBSET Nat
    OBVIOUS
  <2>2. \E i \in hits : \A j \in hits : i <= j
    <3> HIDE DEF hits
    <3> QED
      BY <1>2, <2>1, First
  <2> HIDE DEF hits
  <2> QED
    BY <2>2
<1>3. \A i \in hits : list[i].profile \in Profiles
  <2>1. \A i \in DOMAIN list : list[i] \in Rule
    OBVIOUS
  <2>2. \A r \in Rule : r.profile \in Profiles
    BY DEF Rule
  <2> QED
    BY <2>1, <2>2
<1> HIDE DEF hits, first
<1> QED
  BY <1>1, <1>2, <1>3

LEMMA LookupKeeps ==
  ASSUME StoreInv, NEW c \in Callers, Lookup(c)
  PROVE  StoreInv'
<1> DEFINE p == ResolveProfile(rules, c)
<1>1. Typed /\ UNCHANGED <<dbVars, lockVars, pc, job, begun, cache>>
  BY DEF StoreInv, Lookup
<1>2. p \in Profiles \cup {NoProfile}
  BY <1>1, ProfileOfRule DEF Typed, TypeOK
<1>3. /\ look' \in [Callers -> Profiles \cup {NoProfile}]
      /\ look' = look \/ look' = [look EXCEPT ![c] = p]
      /\ client' = client \/ client' = [client EXCEPT ![c] = NoneServed]
  BY <1>1, <1>2 DEF Lookup, Typed, TypeOK
<1>4. NoneServed.profile = NoProfile /\ NoneServed.tree \in Tree
  BY EmptyIsTree DEF NoneServed
<1>5. /\ DOMAIN client' = Callers
      /\ \A d \in Callers : client'[d].profile \in Profiles \cup {NoProfile} /\ client'[d].tree \in Tree
  BY <1>1, <1>3, <1>4 DEF Typed, TypeOK
<1>6. Typed'
  BY <1>1, <1>3, <1>5 DEF Typed, TypeOK, dbVars, lockVars
<1> QED
  BY <1>1, <1>6, StoreStays

LEMMA ServeKeeps ==
  ASSUME StoreInv, NEW c \in Callers, Serve(c)
  PROVE  StoreInv'
<1> DEFINE p == look[c]
           answer == Answer(look[c])
           key == <<p, CombinedVersion(policy, Chain(policy, p))>>
<1>1. /\ Typed /\ p # NoProfile /\ UNCHANGED <<dbVars, lockVars, pc, job, begun>>
      /\ look' = [look EXCEPT ![c] = NoProfile]
  BY DEF StoreInv, Serve
<1>2. p \in Profiles /\ policy \in [Profiles -> StoredPolicy]
  BY <1>1 DEF Typed, TypeOK
<1>3. look' \in [Callers -> Profiles \cup {NoProfile}]
  BY <1>1 DEF Typed, TypeOK
<1>4. NoneServed.profile = NoProfile /\ NoneServed.tree \in Tree
  BY EmptyIsTree DEF NoneServed
<1>5. ASSUME Resolves(policy, p) PROVE answer.profile \in Profiles /\ answer.tree \in Tree
  <2>1. CASE key \in DOMAIN cache
    <3>1. answer = cache[key]
      BY <2>1 DEF Answer
    <3> HIDE DEF answer, key
    <3> QED
      BY <1>1, <2>1, <3>1 DEF Typed, TypeOK
  <2>2. CASE key \notin DOMAIN cache
    <3>1. answer = PolicyFor(policy, p)
      BY <2>2 DEF Answer
    <3>2. answer.profile = p /\ answer.tree = Flatten(policy, Chain(policy, p))
      BY <3>1 DEF PolicyFor
    <3>3. Flatten(policy, Chain(policy, p)) \in Tree
      BY <1>2, <1>5, ChainIsOne, FlattenIsTree
    <3> QED
      BY <1>2, <3>2, <3>3
  <2> QED
    BY <2>1, <2>2
<1>6. \/ /\ Resolves(policy, p)
         /\ cache' = [k \in DOMAIN cache \cup {key} |-> IF k \in DOMAIN cache THEN cache[k] ELSE answer]
         /\ client' = [client EXCEPT ![c] = IF client[c].version = answer.version THEN client[c] ELSE answer]
      \/ client' = [client EXCEPT ![c] = NoneServed] /\ UNCHANGED cache
      \/ UNCHANGED <<client, cache>>
  BY DEF Serve
<1>7. key[1] = p
  OBVIOUS
<1> HIDE DEF answer, key
<1>8. /\ \A k \in DOMAIN cache' : k[1] \in Profiles /\ cache'[k].tree \in Tree /\ cache'[k].profile \in Profiles
  BY <1>1, <1>2, <1>5, <1>6, <1>7 DEF Typed, TypeOK
<1>9. /\ DOMAIN client' = Callers
      /\ \A d \in Callers : client'[d].profile \in Profiles \cup {NoProfile} /\ client'[d].tree \in Tree
  BY <1>1, <1>4, <1>5, <1>6 DEF Typed, TypeOK
<1>10. Typed'
  BY <1>1, <1>3, <1>8, <1>9 DEF Typed, TypeOK, dbVars, lockVars
<1> QED
  BY <1>1, <1>10, StoreStays

----------------------------------------------------------------------------
(* The first states, and every step. *)

LEMMA InitInv == Init => StoreInv
<1> SUFFICES ASSUME Init PROVE StoreInv
  OBVIOUS
<1>1. /\ log = {} /\ mLock = Free /\ sLock = Free /\ pLock = [p \in Profiles |-> Free]
      /\ pc = [a \in Admins |-> "idle"] /\ job = [a \in Admins |-> IdleJob]
      /\ begun = 0 /\ cache = [key \in {} |-> NoneServed]
      /\ look = [c \in Callers |-> NoProfile] /\ client = [c \in Callers |-> NoneServed]
  BY DEF Init
<1>2. NoPolicy \in StoredPolicy /\ NoPolicy.version = 0
  BY EmptyIsTree DEF NoPolicy, StoredPolicy
<1>3. /\ manifest \in StoredManifest /\ policy \in [Profiles -> StoredPolicy]
      /\ rules \in Seq(Rule) /\ rulesSet \in Nat
      /\ PoliciesFitManifest /\ ReferencesResolve
  <2>1. CASE /\ manifest = [fields |-> {}, version |-> 0] /\ policy = [p \in Profiles |-> NoPolicy]
             /\ rules = <<>> /\ rulesSet = 0
    <3>1. Present(policy) = {}
      BY <1>2, <2>1 DEF Present
    <3>2. DOMAIN rules = {}
      BY <2>1
    <3> QED
      BY <1>2, <2>1, <3>1, <3>2 DEF StoredManifest, PoliciesFitManifest, ReferencesResolve
  <2>2. ASSUME NEW b \in Bundles, BundleValid(b),
               manifest = [fields |-> b.fields, version |-> 1], policy = BundlePolicies(b),
               rules = b.rules, rulesSet = 1
        PROVE  /\ manifest \in StoredManifest /\ policy \in [Profiles -> StoredPolicy]
               /\ rules \in Seq(Rule) /\ rulesSet \in Nat
               /\ PoliciesFitManifest /\ ReferencesResolve
    <3>1. /\ DOMAIN b.policies \subseteq Profiles
          /\ \A p \in DOMAIN b.policies :
                /\ Fits(b.fields, b.policies[p].doc)
                /\ b.policies[p].doc \in Tree
                /\ b.policies[p].parent \in DOMAIN b.policies \cup {NoProfile}
          /\ \A i \in DOMAIN b.rules : b.rules[i].profile \in DOMAIN b.policies
      BY <2>2, BundleIsSound
    <3>2. b.fields \in SUBSET Fields /\ b.rules \in Seq(Rule)
      BY BundleAssumption
    <3>3. \A p \in DOMAIN b.policies :
             /\ policy[p].doc = b.policies[p].doc /\ policy[p].parent = b.policies[p].parent
             /\ policy[p].version = 1
      BY <2>2, <3>1 DEF BundlePolicies
    <3>4. policy \in [Profiles -> StoredPolicy]
      BY <1>2, <2>2, <3>1 DEF BundlePolicies, StoredPolicy
    <3>5. Present(policy) = DOMAIN b.policies
      BY <1>2, <2>2, <3>1 DEF BundlePolicies, Present
    <3>6. manifest \in StoredManifest /\ manifest.fields = b.fields /\ manifest.version = 1
      BY <2>2, <3>2 DEF StoredManifest
    <3>7. PoliciesFitManifest
      BY <3>1, <3>3, <3>5, <3>6 DEF PoliciesFitManifest
    <3>8. ReferencesResolve
      BY <2>2, <3>1, <3>3, <3>5 DEF ReferencesResolve
    <3> QED
      BY <2>2, <3>2, <3>4, <3>6, <3>7, <3>8
  <2> QED
    BY <2>1, <2>2 DEF Init
<1>4. HistoryAgrees
  BY <1>1 DEF HistoryAgrees
<1>5. ASSUME NEW a \in Admins
      PROVE  Placed(pc[a], job[a]) /\ Knows(pc[a], job[a]) /\ Holds(a, pc[a], job[a])
  <2>1. pc[a] = "idle" /\ job[a] = IdleJob
    BY <1>1
  <2>2. Placed("idle", IdleJob)
    BY IdleIsJob DEF Placed, Edits, Reading
  <2>3. Knows("idle", IdleJob)
    BY IdleIsJob DEF Knows, Edits, Whole
  <2>4. Holds(a, "idle", IdleJob)
    BY <1>1, IdleIsJob, NamesAssumption DEF Holds, Has, Rows, Edits, Whole
  <2> QED
    BY <2>1, <2>2, <2>3, <2>4
<1>6. Requests
  BY <1>5 DEF Requests
<1>7. Typed
  <2>1. NoneServed.profile = NoProfile /\ NoneServed.tree \in Tree
    BY EmptyIsTree DEF NoneServed
  <2>2. \A a \in Admins : job[a].op \in AllOps /\ job[a].expected \in Nat
    BY <1>1, IdleIsJob DEF AllOps
  <2>3. pc \in [Admins -> Steps] /\ begun \in 0 .. MaxRequests
    BY <1>1, BoundAssumption DEF Steps
  <2> QED
    BY <1>1, <1>3, <2>1, <2>2, <2>3 DEF Typed, TypeOK
<1> QED
  BY <1>3, <1>4, <1>6, <1>7 DEF StoreInv

LEMMA StepInv == StoreInv /\ [Next]_vars => StoreInv'
<1> SUFFICES ASSUME StoreInv, [Next]_vars PROVE StoreInv'
  OBVIOUS
<1>1. ASSUME NEW a \in Admins, Request(a) \/ Step(a) \/ Abort(a) PROVE StoreInv'
  <2>1. CASE Request(a)
    BY <2>1, RequestKeeps
  <2>2. CASE Step(a)
    BY <2>2, ReadsKeep, LocksKeep, CommitsKeep DEF Step
  <2>3. CASE Abort(a)
    BY <2>3, RefuseKeeps DEF Abort
  <2> QED
    BY <1>1, <2>1, <2>2, <2>3
<1>2. ASSUME NEW c \in Callers, Lookup(c) \/ Serve(c) PROVE StoreInv'
  BY <1>2, LookupKeeps, ServeKeeps
<1>3. CASE UNCHANGED vars
  <2>1. /\ UNCHANGED <<dbVars, lockVars, pc, job, begun>> /\ UNCHANGED <<cache, look, client>>
    BY <1>3 DEF vars, readVars
  <2>2. Typed'
    BY <2>1 DEF StoreInv, Typed, TypeOK, dbVars, lockVars
  <2> QED
    BY <2>1, <2>2, StoreStays
<1> QED
  BY <1>1, <1>2, <1>3 DEF Next

LEMMA StoreAlways == Spec => []StoreInv
  BY InitInv, StepInv, PTL DEF Spec

(* What is stored fits together: whatever the writers do at the same time, *)
(* every policy satisfies the manifest, and every parent and every rule    *)
(* names a profile there is (put_manifest, put_policy,                     *)
(* put_assignment_rules, import_bundle).                                   *)
THEOREM StoreCorrect == Spec => []StoreIsSound
<1>1. StoreInv => StoreIsSound
  BY DEF StoreInv, Typed, StoreIsSound
<1> QED
  BY <1>1, StoreAlways, PTL

(* If-Match protects the work of others: PUT and PATCH replace a policy    *)
(* only by a change made from the version they replace (put_policy,        *)
(* patch_policy).                                                          *)
THEOREM UpdatesAreKept == Spec => NoLostUpdate
<1>1. ASSUME StoreInv, NEW a \in Admins, pc[a] = "commit", job[a].op \in {"policy", "patch"}
      PROVE  job[a].base = policy[job[a].profile].version
  <2>1. Placed(pc[a], job[a]) /\ Knows(pc[a], job[a])
    BY <1>1 DEF StoreInv, Requests
  <2>2. job[a].profile \in Profiles /\ job[a].base \in Nat /\ job[a].expected \in Nat
    BY <1>1, <2>1 DEF Placed, Jobs, Edits
  <2>3. policy[job[a].profile].version = job[a].expected
    BY <1>1, <2>1 DEF Knows, Edits
  <2>4. CASE job[a].op = "policy"
    BY <2>1, <2>3, <2>4 DEF Placed
  <2>5. CASE job[a].op = "patch"
    BY <1>1, <2>1, <2>2, <2>3, <2>5 DEF Knows
  <2> QED
    BY <1>1, <2>4, <2>5
<1>2. StoreInv => [\A a \in Admins :
                      Commits(a) /\ job[a].op \in {"policy", "patch"}
                        => job[a].base = policy[job[a].profile].version]_policy
  BY <1>1 DEF Commits
<1> QED
  BY <1>2, StoreAlways, PTL DEF NoLostUpdate

----------------------------------------------------------------------------
(* Lock order. *)

(* Whom a request waits for, by the row it needs. *)
LEMMA Waiting ==
  ASSUME StoreInv, NEW a \in Admins, NEW b \in WaitsFor(a), b \in Admins
  PROVE  /\ a # b
         /\ \/ pc[a] = "tx" /\ mLock = b
            \/ pc[a] = "insert" /\ mLock = b /\ Writing(b)
            \/ pc[a] = "row" /\ pLock[job[a].profile] = b
            \/ pc[a] = "rows" /\ \E p \in Present(policy) : pLock[p] = b
            \/ pc[a] = "policies" /\ \E p \in DOMAIN job[a].bundle.policies : pLock[p] = b
            \/ pc[a] \in {"set", "setInsert"} /\ sLock = b
<1>1. CASE pc[a] = "tx"
  BY <1>1 DEF WaitsFor
<1>2. CASE pc[a] = "insert"
  BY <1>2 DEF WaitsFor, Writing
<1>3. CASE pc[a] = "row"
  BY <1>3 DEF WaitsFor
<1>4. CASE pc[a] = "rows"
  BY <1>4 DEF WaitsFor
<1>5. CASE pc[a] = "policies"
  BY <1>5 DEF WaitsFor
<1>6. CASE pc[a] \in {"set", "setInsert"}
  BY <1>6 DEF WaitsFor
<1>7. CASE pc[a] \notin {"tx", "insert", "row", "rows", "policies", "set", "setInsert"}
  BY <1>7 DEF WaitsFor
<1> QED
  BY <1>1, <1>2, <1>3, <1>4, <1>5, <1>6, <1>7

(* Every method locks the manifest row, then policy rows, then the row of  *)
(* the rules: no two transactions wait for each other, so PostgreSQL never *)
(* has to abort one (put_manifest, put_policy, put_assignment_rules,       *)
(* import_bundle).                                                         *)
THEOREM LocksAreOrdered == Spec => []NoLockCycle
<1>1. ASSUME StoreInv, NEW a \in Admins, NEW b \in Admins, b \in WaitsFor(a), a \in WaitsFor(b)
      PROVE  FALSE
  <2> DEFINE Owns(x) == Has(pc[x], job[x])
  <2>1. a # b
    BY <1>1, Waiting
  <2>2. \A x \in {a, b} :
           /\ mLock = x <=> Owns(x)
           /\ \A p \in Profiles : pLock[p] = x => Rows(pc[x], job[x]) /\ (p \in Present(policy) \/ Owns(x))
           /\ sLock = x => pc[x] = "commit"
           /\ job[x].op \in Whole /\ pc[x] \in {"policies", "set", "setInsert", "commit"} =>
                 \A p \in Present(policy) : pLock[p] = x
           /\ Placed(pc[x], job[x])
    BY <1>1 DEF StoreInv, Requests, Holds
  <2>3. Present(policy) \subseteq Profiles
    BY DEF Present
  <2>4. \A x \in {a, b} : pc[x] = "row" => job[x].op \in Edits /\ job[x].profile \in Profiles
    BY <2>2 DEF Placed, Jobs, AllOps, Edits
  <2>5. \A x \in {a, b} : pc[x] = "policies"
           => job[x].op = "import" /\ DOMAIN job[x].bundle.policies \subseteq Profiles
    BY <2>2, BundleAssumption DEF Placed, Jobs, AllOps, Edits, Reading
  <2>6. \A x \in {a, b} : Rows(pc[x], job[x]) => pc[x] \in {"insert", "policies", "set", "setInsert", "commit"}
    BY DEF Rows
  <2>7. \A x \in {a, b} : ~Owns(x) \/ pc[x] \in {"row", "rows", "policies", "set", "setInsert", "commit"}
    BY DEF Has
  <2>8. \A x \in {a, b} :
           /\ pc[x] = "row" => Owns(x)
           /\ pc[x] = "policies" => Owns(x)
           /\ pc[x] = "insert" => ~Owns(x)
    BY <2>4, <2>5 DEF Has, Whole
  <2>9. \A x \in {a, b} : Writing(x)
           => job[x].op \in Whole /\ pc[x] \in {"policies", "set", "setInsert", "commit"}
    BY DEF Writing, Whole
  <2>10. ASSUME NEW x \in {a, b}, NEW y \in {a, b}, x # y, y \in WaitsFor(x), x \in WaitsFor(y)
         PROVE  pc[x] \notin {"tx", "set", "setInsert", "row", "rows"}
    <3>1. pc[y] \in {"tx", "insert", "row", "rows", "policies", "set", "setInsert"}
      BY <1>1, <2>10, Waiting
    <3>2. pc[x] # "tx"
      <4>1. ASSUME pc[x] = "tx" PROVE FALSE
        <5>1. ~Rows(pc[x], job[x]) /\ ~Owns(x) /\ sLock # x
          BY <2>2, <4>1 DEF Rows, Has
        <5>2. mLock # x /\ \A p \in Profiles : pLock[p] # x
          BY <2>2, <5>1
        <5> QED
          BY <1>1, <2>3, <2>4, <2>5, <2>10, <5>1, <5>2, Waiting
      <4> QED
        BY <4>1
    <3>3. pc[x] \notin {"set", "setInsert"}
      <4>1. ASSUME pc[x] \in {"set", "setInsert"} PROVE FALSE
        <5>1. sLock = y
          BY <1>1, <2>10, <4>1, Waiting
        <5> QED
          BY <2>2, <3>1, <5>1
      <4> QED
        BY <4>1
    <3>4. pc[x] # "row"
      <4>1. ASSUME pc[x] = "row" PROVE FALSE
        <5>1. pLock[job[x].profile] = y /\ job[x].profile \in Profiles
          BY <1>1, <2>4, <2>10, <4>1, Waiting
        <5>2. mLock = x /\ ~Owns(y)
          BY <2>2, <2>8, <2>10, <4>1
        <5>3. pc[y] = "insert"
          BY <2>2, <2>6, <3>1, <3>3, <5>1, <5>2, <2>8, <1>1, <2>10, Waiting
        <5>4. Writing(x)
          BY <1>1, <2>10, <5>3, Waiting
        <5> QED
          BY <2>9, <4>1, <5>4
      <4> QED
        BY <4>1
    <3>5. pc[x] # "rows"
      <4>1. ASSUME pc[x] = "rows" PROVE FALSE
        <5>1. PICK p \in Present(policy) : pLock[p] = y
          BY <1>1, <2>10, <4>1, Waiting
        <5>2. pc[y] \in {"insert", "policies", "set", "setInsert"}
          BY <2>2, <2>3, <2>6, <3>1, <5>1
        <5>3. ~Rows(pc[x], job[x]) /\ sLock # x
          BY <2>2, <4>1 DEF Rows
        <5>4. \A q \in Profiles : pLock[q] # x
          BY <2>2, <5>3
        <5>5. pc[y] = "insert"
          BY <1>1, <2>5, <2>10, <5>2, <5>3, <5>4, Waiting
        <5>6. Writing(x)
          BY <1>1, <2>10, <5>5, Waiting
        <5> QED
          BY <2>9, <4>1, <5>6
      <4> QED
        BY <4>1
    <3> QED
      BY <3>2, <3>3, <3>4, <3>5
  <2>11. pc[a] \in {"insert", "policies"} /\ pc[b] \in {"insert", "policies"}
    <3>1. pc[a] \notin {"tx", "set", "setInsert", "row", "rows"}
      BY <1>1, <2>1, <2>10
    <3>2. pc[b] \notin {"tx", "set", "setInsert", "row", "rows"}
      BY <1>1, <2>1, <2>10
    <3> QED
      BY <1>1, <3>1, <3>2, Waiting
  <2>12. ASSUME NEW x \in {a, b}, NEW y \in {a, b}, x # y, y \in WaitsFor(x), x \in WaitsFor(y),
                pc[x] = "policies"
         PROVE  FALSE
    <3>1. PICK p \in DOMAIN job[x].bundle.policies : pLock[p] = y
      BY <1>1, <2>12, Waiting
    <3>2. p \in Profiles /\ mLock = x /\ job[x].op \in Whole
      BY <2>2, <2>5, <2>8, <2>12 DEF Whole
    <3>3. ~Owns(y)
      BY <2>2, <2>12, <3>2
    <3>4. p \in Present(policy)
      BY <2>2, <3>1, <3>2, <3>3
    <3>5. pLock[p] = x
      BY <2>2, <2>12, <3>2, <3>4
    <3> QED
      BY <2>12, <3>1, <3>5
  <2>13. CASE pc[a] = "insert" /\ pc[b] = "insert"
    <3>1. mLock = b /\ mLock = a
      BY <1>1, <2>13, Waiting
    <3> QED
      BY <2>1, <3>1
  <2> QED
    BY <1>1, <2>1, <2>11, <2>12, <2>13
<1>2. StoreInv => NoLockCycle
  BY <1>1 DEF NoLockCycle
<1> QED
  BY <1>2, StoreAlways, PTL

----------------------------------------------------------------------------
(* The lookup cache. *)

(* A policy table that was, or is, stored: what has its version still is   *)
(* the same row.                                                           *)
Past(pol) ==
  \A q \in Profiles : /\ pol[q].version <= policy[q].version
                      /\ pol[q].version = policy[q].version => pol[q] = policy[q]

(* What the cache has under a key was computed from such a table.          *)
Computed(key, pol) ==
  /\ Past(pol)
  /\ Resolves(pol, key[1])
  /\ key = <<key[1], CombinedVersion(pol, Chain(pol, key[1]))>>
  /\ cache[key].tree = Flatten(pol, Chain(pol, key[1]))

CacheInv ==
  \A key \in DOMAIN cache :
     key[1] \in Profiles /\ \E pol \in [Profiles -> StoredPolicy] : Computed(key, pol)

(* A write gives every row it replaces a higher version.                   *)
LEMMA VersionsGrow ==
  ASSUME StoreInv, [Next]_vars, NEW q \in Profiles
  PROVE  policy'[q] = policy[q] \/ policy'[q].version > policy[q].version
<1>1. /\ policy \in [Profiles -> StoredPolicy] /\ policy[q].version \in Nat
      /\ \A a \in Admins : Placed(pc[a], job[a])
  BY DEF StoreInv, Typed, TypeOK, StoredPolicy, Requests
<1>2. ASSUME NEW a \in Admins, CommitPolicy(a)
      PROVE  policy'[q] = policy[q] \/ policy'[q].version > policy[q].version
  <2> DEFINE j == job[a]
  <2>1. policy' = [policy EXCEPT ![j.profile] = Written(j.profile, j.doc, j.parent, j)]
    BY <1>2 DEF CommitPolicy
  <2>2. CASE q = j.profile
    BY <1>1, <2>1, <2>2 DEF Written
  <2>3. CASE q # j.profile
    BY <1>1, <2>1, <2>3
  <2> QED
    BY <2>2, <2>3
<1>3. ASSUME NEW a \in Admins, CommitImport(a)
      PROVE  policy'[q] = policy[q] \/ policy'[q].version > policy[q].version
  <2> DEFINE b == job[a].bundle
             w(p) == Written(p, b.policies[p].doc, b.policies[p].parent, job[a])
  <2>1. policy'[q] = IF q \in DOMAIN b.policies THEN w(q) ELSE policy[q]
    BY <1>3 DEF CommitImport
  <2>2. w(q).version = policy[q].version + 1
    BY DEF Written
  <2> QED
    BY <1>1, <2>1, <2>2
<1>4. UNCHANGED policy \/ \E a \in Admins : CommitPolicy(a) \/ CommitImport(a)
  <2>1. ASSUME NEW a \in Admins, Request(a) \/ Abort(a) PROVE UNCHANGED policy
    BY <2>1 DEF Request, Abort, AskManifest, AskPolicy, AskPatch, AskRestore, AskRules, AskImport,
                Ask, Refuse, dbVars
  <2>2. ASSUME NEW a \in Admins, \/ Merge(a) \/ FindVersion(a) \/ CheckFits(a) \/ CheckChain(a)
                                  \/ ReadVersion(a) \/ ReadSetVersion(a) \/ CheckProfiles(a)
        PROVE UNCHANGED policy
    BY <2>2 DEF Merge, FindVersion, CheckFits, CheckChain, ReadVersion, ReadSetVersion, CheckProfiles,
                Proceed, Refuse, dbVars
  <2>3. ASSUME NEW a \in Admins, \/ LockManifest(a) \/ LockPolicy(a) \/ LockPolicies(a) \/ InsertManifest(a)
                                  \/ UpsertPolicies(a) \/ LockSet(a) \/ InsertSet(a)
        PROVE UNCHANGED policy
    BY <2>3 DEF LockManifest, LockPolicy, LockPolicies, InsertManifest, UpsertPolicies, LockSet, InsertSet,
                Locking, Refuse, dbVars
  <2>4. ASSUME NEW a \in Admins, CommitManifest(a) \/ CommitRules(a) PROVE UNCHANGED policy
    BY <2>4 DEF CommitManifest, CommitRules
  <2>5. ASSUME NEW c \in Callers, Lookup(c) \/ Serve(c) PROVE UNCHANGED policy
    BY <2>5 DEF Lookup, Serve, dbVars
  <2>6. CASE UNCHANGED vars
    BY <2>6 DEF vars, dbVars
  <2> QED
    BY <2>1, <2>2, <2>3, <2>4, <2>5, <2>6 DEF Next, Step
<1> QED
  BY <1>2, <1>3, <1>4

(* What has been stored stays so. *)
LEMMA PastStays ==
  ASSUME StoreInv, [Next]_vars, NEW pol \in [Profiles -> StoredPolicy], Past(pol)
  PROVE  Past(pol)'
<1>1. \A q \in Profiles : pol[q].version \in Nat /\ policy[q].version \in Nat /\ policy'[q].version \in Nat
  BY StepInv DEF StoreInv, Typed, TypeOK, StoredPolicy
<1>2. ASSUME NEW q \in Profiles
      PROVE  /\ pol[q].version <= policy'[q].version
             /\ pol[q].version = policy'[q].version => pol[q] = policy'[q]
  <2>1. /\ pol[q].version <= policy[q].version
        /\ pol[q].version = policy[q].version => pol[q] = policy[q]
    BY DEF Past
  <2>2. CASE policy'[q] = policy[q]
    BY <2>1, <2>2
  <2>3. CASE policy'[q].version > policy[q].version
    BY <1>1, <2>1, <2>3
  <2> QED
    BY <2>2, <2>3, VersionsGrow
<1> QED
  BY <1>2 DEF Past

(* A version of a chain names its profiles and their versions.             *)
LEMMA CombinedTells ==
  ASSUME NEW pol, NEW new, NEW c \in Seq(Profiles), NEW d \in Seq(Profiles),
         Len(c) >= 1, Len(d) >= 1, c[1] = d[1], CombinedVersion(pol, c) = CombinedVersion(new, d)
  PROVE  c = d /\ \A i \in DOMAIN c : pol[c[i]].version = new[c[i]].version
<1> DEFINE V(t, s) == [i \in DOMAIN s |-> <<s[i], t[s[i]].version>>]
<1>1. Len(c) \in Nat /\ Len(d) \in Nat /\ DOMAIN c = 1 .. Len(c) /\ DOMAIN d = 1 .. Len(d)
  OBVIOUS
<1>2. \A t, s : CombinedVersion(t, s) = IF Len(s) = 1 THEN <<t[s[1]].version>> ELSE V(t, s)
  BY DEF CombinedVersion
<1>3. \A t, s : DOMAIN V(t, s) = DOMAIN s
  OBVIOUS
<1>4. CASE Len(c) = 1 /\ Len(d) = 1
  <2>1. <<pol[c[1]].version>> = <<new[d[1]].version>>
    BY <1>2, <1>4
  <2>2. pol[c[1]].version = new[d[1]].version
    BY <2>1
  <2>3. c = d
    BY <1>1, <1>4
  <2> QED
    BY <1>1, <1>4, <2>2, <2>3
<1>5. ASSUME NEW s \in Seq(Profiles), Len(s) > 1, NEW t, NEW v
      PROVE  V(t, s) # <<v>>
  <2>1. DOMAIN V(t, s) = 1 .. Len(s) /\ 2 \in 1 .. Len(s)
    BY <1>3, <1>5
  <2>2. 2 \notin DOMAIN <<v>>
    OBVIOUS
  <2> HIDE DEF V
  <2> QED
    BY <2>1, <2>2
<1>6. CASE Len(c) > 1 /\ Len(d) > 1
  <2>1. V(pol, c) = V(new, d)
    <3>1. CombinedVersion(pol, c) = V(pol, c)
      BY <1>6 DEF CombinedVersion
    <3>2. CombinedVersion(new, d) = V(new, d)
      BY <1>6 DEF CombinedVersion
    <3> QED
      BY <3>1, <3>2
  <2>2. DOMAIN c = DOMAIN d
    BY <1>3, <2>1
  <2>3. \A i \in DOMAIN c : <<c[i], pol[c[i]].version>> = <<d[i], new[d[i]].version>>
    <3>1. \A i \in DOMAIN c : V(pol, c)[i] = <<c[i], pol[c[i]].version>>
      OBVIOUS
    <3>2. \A i \in DOMAIN d : V(new, d)[i] = <<d[i], new[d[i]].version>>
      OBVIOUS
    <3> HIDE DEF V
    <3> QED
      BY <2>1, <2>2, <3>1, <3>2
  <2>4. \A i \in DOMAIN c : c[i] = d[i] /\ pol[c[i]].version = new[d[i]].version
    BY <2>3
  <2>5. c = d
    BY <1>1, <2>2, <2>4
  <2> QED
    BY <2>4, <2>5
<1>7. CASE Len(c) = 1 /\ Len(d) > 1
  <2> HIDE DEF V
  <2> QED
    BY <1>2, <1>5, <1>7
<1>8. CASE Len(c) > 1 /\ Len(d) = 1
  <2> HIDE DEF V
  <2> QED
    BY <1>2, <1>5, <1>8
<1> QED
  BY <1>1, <1>4, <1>6, <1>7, <1>8

(* What the cache has under the key of a chain is what the chain gives.    *)
LEMMA CacheIsRight ==
  ASSUME StoreInv, CacheInv
  PROVE  CacheIsCurrent
<1> SUFFICES ASSUME NEW p \in Profiles, Resolves(policy, p),
                    <<p, CombinedVersion(policy, Chain(policy, p))>> \in DOMAIN cache
             PROVE  cache[<<p, CombinedVersion(policy, Chain(policy, p))>>].tree
                      = Flatten(policy, Chain(policy, p))
  BY DEF CacheIsCurrent
<1> DEFINE d == Chain(policy, p)
           key == <<p, CombinedVersion(policy, d)>>
<1>1. key \in DOMAIN cache /\ key[1] = p /\ key[2] = CombinedVersion(policy, d)
  OBVIOUS
<1>2. PICK pol \in [Profiles -> StoredPolicy] : Computed(key, pol)
  BY <1>1 DEF CacheInv
<1> DEFINE c == Chain(pol, p)
<1>3. /\ c \in Seq(Profiles) /\ Len(c) >= 1 /\ c[1] = p
      /\ d \in Seq(Profiles) /\ Len(d) >= 1 /\ d[1] = p
  BY <1>1, <1>2, ChainIsOne DEF Computed
<1>4. CombinedVersion(pol, c) = CombinedVersion(policy, d)
  <2>1. key = <<p, CombinedVersion(pol, c)>>
    BY <1>1, <1>2 DEF Computed
  <2> QED
    BY <2>1
<1>5. cache[key].tree = Flatten(pol, c)
  BY <1>1, <1>2 DEF Computed
<1> HIDE DEF c, d, key
<1>6. c = d /\ \A i \in DOMAIN c : pol[c[i]].version = policy[c[i]].version
  BY <1>3, <1>4, CombinedTells
<1>7. \A i \in DOMAIN c : pol[c[i]] = policy[c[i]]
  BY <1>2, <1>3, <1>6 DEF Computed, Past
<1>8. Flatten(pol, c) = Flatten(policy, c)
  BY <1>3, <1>7, FlattenSame
<1> QED
  BY <1>5, <1>6, <1>8 DEF key, d

LEMMA CacheStep == StoreInv /\ CacheInv /\ [Next]_vars => CacheInv'
<1> SUFFICES ASSUME StoreInv, CacheInv, [Next]_vars PROVE CacheInv'
  OBVIOUS
<1>1. policy \in [Profiles -> StoredPolicy]
  BY DEF StoreInv, Typed, TypeOK
<1>2. ASSUME NEW key \in DOMAIN cache, key \in DOMAIN cache' => cache'[key] = cache[key]
      PROVE  key \in DOMAIN cache' =>
                key[1] \in Profiles /\ \E pol \in [Profiles -> StoredPolicy] : Computed(key, pol)'
  <2>1. PICK pol \in [Profiles -> StoredPolicy] : Computed(key, pol)
    BY DEF CacheInv
  <2>2. Past(pol)'
    BY <2>1, PastStays DEF Computed
  <2>3. key \in DOMAIN cache' => Computed(key, pol)'
    BY <1>2, <2>1, <2>2 DEF Computed
  <2> QED
    BY <2>1, <2>3 DEF CacheInv
<1>3. CASE UNCHANGED cache
  BY <1>2, <1>3 DEF CacheInv
<1>4. ASSUME NEW c \in Callers, Serve(c), ~UNCHANGED cache PROVE CacheInv'
  <2> DEFINE p == look[c]
             answer == Answer(look[c])
             new == <<p, CombinedVersion(policy, Chain(policy, p))>>
  <2>1. /\ p # NoProfile /\ Resolves(policy, p) /\ UNCHANGED policy
        /\ cache' = [k \in DOMAIN cache \cup {new} |-> IF k \in DOMAIN cache THEN cache[k] ELSE answer]
    BY <1>4 DEF Serve, dbVars
  <2>2. p \in Profiles
    BY <2>1 DEF StoreInv, Typed, TypeOK
  <2>3. new[1] = p /\ new = <<new[1], CombinedVersion(policy, Chain(policy, new[1]))>>
    OBVIOUS
  <2>4. new \notin DOMAIN cache => answer.tree = Flatten(policy, Chain(policy, p))
    <3>1. new \notin DOMAIN cache => answer = PolicyFor(policy, p)
      BY DEF Answer
    <3>2. PolicyFor(policy, p).tree = Flatten(policy, Chain(policy, p))
      BY DEF PolicyFor
    <3> HIDE DEF new, answer
    <3> QED
      BY <3>1, <3>2
  <2> HIDE DEF answer, new
  <2>5. \A key \in DOMAIN cache : cache'[key] = cache[key]
    BY <2>1
  <2>6. CASE new \in DOMAIN cache
    <3>1. DOMAIN cache' = DOMAIN cache
      BY <2>1, <2>6
    <3> QED
      BY <1>2, <2>5, <3>1 DEF CacheInv
  <2>7. CASE new \notin DOMAIN cache
    <3>1. cache'[new].tree = Flatten(policy, Chain(policy, p))
      BY <2>1, <2>4, <2>7
    <3>2. PICK k, pol : k = new /\ pol = policy
      OBVIOUS
    <3>3. Past(pol)'
      BY <1>1, <2>1, <3>2 DEF Past, StoredPolicy
    <3>4. Computed(k, pol)'
      BY <2>1, <2>3, <3>1, <3>2, <3>3 DEF Computed
    <3>5. k[1] \in Profiles /\ pol \in [Profiles -> StoredPolicy]
      BY <1>1, <2>2, <2>3, <3>2
    <3>6. DOMAIN cache' = DOMAIN cache \cup {k}
      BY <2>1, <3>2
    <3> QED
      BY <1>2, <2>5, <3>4, <3>5, <3>6 DEF CacheInv
  <2> QED
    BY <2>6, <2>7
<1>5. UNCHANGED cache \/ \E c \in Callers : Serve(c)
  <2>1. ASSUME NEW a \in Admins, Request(a) \/ Abort(a) PROVE UNCHANGED cache
    BY <2>1 DEF Request, Abort, AskManifest, AskPolicy, AskPatch, AskRestore, AskRules, AskImport,
                Ask, Refuse, Finish, Goto, readVars
  <2>2. ASSUME NEW a \in Admins, \/ Merge(a) \/ FindVersion(a) \/ CheckFits(a) \/ CheckChain(a)
                                  \/ ReadVersion(a) \/ ReadSetVersion(a) \/ CheckProfiles(a)
        PROVE UNCHANGED cache
    BY <2>2 DEF Merge, FindVersion, CheckFits, CheckChain, ReadVersion, ReadSetVersion, CheckProfiles,
                Proceed, Refuse, Finish, Goto, readVars
  <2>3. ASSUME NEW a \in Admins, \/ LockManifest(a) \/ LockPolicy(a) \/ LockPolicies(a) \/ InsertManifest(a)
                                  \/ UpsertPolicies(a) \/ LockSet(a) \/ InsertSet(a)
        PROVE UNCHANGED cache
    BY <2>3 DEF LockManifest, LockPolicy, LockPolicies, InsertManifest, UpsertPolicies, LockSet, InsertSet,
                Locking, Refuse, Finish, Goto, readVars
  <2>4. ASSUME NEW a \in Admins, CommitManifest(a) \/ CommitPolicy(a) \/ CommitRules(a) \/ CommitImport(a)
        PROVE  UNCHANGED cache
    BY <2>4 DEF CommitManifest, CommitPolicy, CommitRules, CommitImport, Finish, Goto, readVars
  <2>5. ASSUME NEW c \in Callers, Lookup(c) PROVE UNCHANGED cache
    BY <2>5 DEF Lookup
  <2>6. CASE UNCHANGED vars
    BY <2>6 DEF vars, readVars
  <2> QED
    BY <2>1, <2>2, <2>3, <2>4, <2>5, <2>6 DEF Next, Step
<1> QED
  BY <1>3, <1>4, <1>5

(* A version number identifies a document for good: the log has one        *)
(* document under it, and so has the lookup cache, which no write empties  *)
(* (put_policy, restore_policy, import_bundle, combined_chain_version).    *)
THEOREM VersionsTell == Spec => []VersionsIdentify
<1>1. Init => CacheInv
  BY DEF Init, CacheInv
<1>2. StoreInv /\ CacheInv => VersionsIdentify
  BY CacheIsRight DEF StoreInv, VersionsIdentify
<1>3. Spec => []CacheInv
  <2>1. StoreInv /\ CacheInv /\ [Next]_vars => CacheInv'
    BY CacheStep
  <2> QED
    BY <1>1, <2>1, StoreAlways, PTL DEF Spec
<1> QED
  BY <1>2, <1>3, StoreAlways, PTL
============================================================================
