----------------------------- MODULE ConfStore ------------------------------
(***************************************************************************)
(* Configuration around the administrative API: the managed configuration  *)
(* of one process, the roaming document of one user, the replicas of the   *)
(* service as they start, and what holds of the resolution, the bundles    *)
(* and the retries they are built on. They share no state, so a behaviour  *)
(* is one of either, by side; "rules" stands for what holds without one.   *)
(***************************************************************************)
EXTENDS ManagedConfig, Roaming, SchemaMigrations, Bundle

VARIABLE side

vars == <<managed, roaming, migrations, side>>

Init ==
  /\ side \in {"managed", "roaming", "migrations", "rules"}
  /\ ManagedInit /\ RoamingInit /\ MigrationsInit
  /\ side # "managed" => file = Empty
  /\ side # "roaming" => backend = "postgres" /\ table.version = 0
  /\ side # "migrations" => schema = <<>>

Next ==
  \/ side = "managed" /\ ManagedNext /\ UNCHANGED <<roaming, migrations, side>>
  \/ side = "roaming" /\ RoamingNext /\ UNCHANGED <<managed, migrations, side>>
  \/ side = "migrations" /\ MigrationsNext /\ UNCHANGED <<managed, roaming, side>>

Spec == Init /\ [][Next]_vars

-----------------------------------------------------------------------------
(* Properties.                                                             *)

\* The types; that no call is tried more often than its policy allows is part
\* of them.
TypeOK ==
  /\ file.state \in {"whole", "empty", "torn"}
  /\ wlock \in Threads \cup {Free}
  /\ DOMAIN current = DOMAIN Default
  /\ cache.policy \in DOMAIN Policies \cup {0}
  /\ \A t \in Threads : th[t].op \in {"idle", "save", "reload", "refresh"}
  /\ table.version \in 0 .. 1 + Cardinality(Writes)
  /\ holder \in {None} \cup (Writes \X Tries)
  /\ \A w \in Writes : call[w].n \in 0 .. 2 * (MaxAttempts + 1)

-----------------------------------------------------------------------------
(* What holds of the resolution, the service's checks, the bundles and the *)
(* delays, whatever the state.                                             *)

Before == side = "rules"

Fields == [kind : {"Int", "Str"}, default : {Val("none", ""), Val("integer", "9")},
           scope : {"Machine", "User", "Org"}, secret : BOOLEAN, local_only : BOOLEAN,
           manageable : BOOLEAN, enforceable : BOOLEAN, min : {0}, max : {1}, allowed : {{}}]
One == <<"a">>
Trees == {Nothing} \cup {Entry(One, v) : v \in {Val("integer", "1"), Val("integer", "9"), Val("string", "x")}}
LayerOrder == <<"config_file", "environment", "flags", "builder_overrides">>
LocalNames == <<"ConfigFile", "Environment", "Flags", "BuilderOverride">>
\* Local layers that each say something of their own, or nothing.
Locals == {[l \in 1 .. 4 |-> IF l \in some THEN Entry(One, Val("string", LocalNames[l])) ELSE Nothing] :
             some \in SUBSET (1 .. 4)}
InputOf(recommended, enforced, locals) ==
  [recommended |-> recommended, enforced |-> enforced, config_file |-> locals[1],
   environment |-> locals[2], flags |-> locals[3], builder_overrides |-> locals[4]]

\* Whether a server may set a leaf at all, and the leaf's value by rank.
Admissible(f, tree, tier) ==
  /\ One \in DOMAIN tree /\ f.manageable /\ ~f.secret /\ ~f.local_only
  /\ tier = "Enforced" => f.enforceable
  /\ tier = "Recommended" => f.scope # "Org"
  /\ tree[One].type = IF f.kind = "Int" THEN "integer" ELSE "string"
Rank(f, input) ==
  {1} \cup (IF Admissible(f, input.recommended, "Recommended") THEN {2} ELSE {})
      \cup {l + 2 : l \in {k \in 1 .. 4 : One \in DOMAIN input[LayerOrder[k]]}}
      \cup (IF Admissible(f, input.enforced, "Enforced") THEN {7} ELSE {})
RankName == <<"Default", "Recommended", "ConfigFile", "Environment", "Flags", "BuilderOverride", "Enforced">>
Precedence ==
  \A f \in {g \in Fields : g.default.type = "none"}, r, e \in Trees, locals \in Locals :
    LET input == InputOf(r, e, locals)
        top == CHOOSE k \in Rank(f, input) : \A j \in Rank(f, input) : j <= k
        found == resolve(Entry(One, f), input).leaf[One]
    IN /\ found.by = [layer |-> RankName[top], locked |-> top = 7]
       /\ top = 7 => found.value = e[One]
       /\ top = 2 => found.value = r[One]
       /\ top \in 3 .. 6 => found.value = Val("string", RankName[top])

\* The layer that decides a leaf is the highest of the ones that may: default,
\* recommended, file, environment, flags, builder, enforced. An enforced entry
\* that the manifest does not allow vetoes nothing (resolve).
PrecedenceHolds == Before => Precedence

StoredIsApplied ==
  \A f \in Fields, r, e \in Trees :
    validate_stored_policy(Entry(One, f), [recommended |-> r, enforced |-> e]) = {}
      <=> /\ resolve(Entry(One, f), InputOf(r, e, [l \in 1 .. 4 |-> Nothing])).warnings = {}
          /\ \A t \in {r, e} : One \in DOMAIN t => ~constraint_violation_detail(f, t[One])

\* What the service lets an administrator store, a client of the same manifest
\* applies: a policy passes validate_stored_policy exactly when resolve drops
\* nothing of it and it keeps the constraints.
StoredPolicyIsApplied == Before => StoredIsApplied

\* A manifest of a leaf and a section with a leaf; documents with more.
TwoLevels == [p \in {One, <<"s", "a">>} |->
  [kind |-> "Str", default |-> Val("none", ""), scope |-> "User", secret |-> FALSE, local_only |-> FALSE,
   manageable |-> TRUE, enforceable |-> TRUE, min |-> 0, max |-> 1, allowed |-> {}]]
Objects ==
  {Over(Over(top, inner), extra) :
     top \in {Nothing, Entry("a", Leaf(Val("string", "x")))},
     inner \in {Nothing, Entry("s", Section(Nothing)), Entry("s", Section(Entry("a", Val("string", "y")))),
                Entry("s", Section(Over(Entry("a", Val("string", "y")), Entry("z", Val("string", "w")))))},
     extra \in {Nothing, Entry("x", Leaf(Val("string", "v"))), Entry("x", Section(Entry("a", Val("string", "v"))))}}
Folded ==
  \A doc \in Objects, e \in {Nothing, Entry(One, Val("string", "e")), Entry(<<"s", "a">>, Val("string", "e"))} :
    LET out == flatten_to_paths(fold_into_json(TwoLevels, doc, e, Nothing))
        was == flatten_to_paths(doc)
    IN /\ DOMAIN out = DOMAIN was \cup DOMAIN TwoLevels
       /\ \A p \in DOMAIN out :
            out[p] = CASE p \in DOMAIN e -> e[p]
                       [] p \notin DOMAIN e /\ p \in DOMAIN was -> was[p]
                       [] OTHER -> Val("string", "")

\* Folding a policy into a document changes the leaves that the policy
\* enforces, gives the ones that are missing their default, and leaves every
\* other entry, also those that the manifest does not know, as it was
\* (fold_into_json, flatten_to_paths, unflatten_from_paths,
\* merge_json_objects).
FoldIsExact == Before => Folded

Accepted ==
  \A f, g \in {h \in Fields : h.kind = "Int" /\ h.default.type = "none"} :
    LET manifest == [p \in {One, <<"b">>} |-> IF p = One THEN f ELSE g]
        doc == [p \in {One, <<"b">>, <<"unknown">>} |-> Val("integer", "1")]
    IN ~first_invalid_user_field(manifest, filter_user_scoped(manifest, doc))

\* What a client sends of its document the service accepts, constraints apart:
\* the client's filter and the service's check are separate code
\* (filter_user_scoped, first_invalid_user_field).
RoamingIsAccepted == Before => Accepted

\* Stores of two profiles, with rules in three places.
Huge == Val("integer", "huge")
BundlePolicy == [parent : {"", "p", "q"}, version : {2}, enforced : {Nothing, Entry(One, Val("integer", "1")),
                 Entry(One, Huge), Entry(One, Val("string", "x")), Entry(One, Val("null", ""))},
                 recommended : {Nothing}]
PlainPolicy == [parent |-> "", version |-> 2, enforced |-> Nothing, recommended |-> Nothing]
BundleManifest == [there |-> TRUE, doc |-> Entry(One,
  [kind |-> "Int", default |-> Val("none", ""), scope |-> "Machine", secret |-> FALSE, local_only |-> FALSE,
   manageable |-> TRUE, enforceable |-> TRUE, min |-> 0, max |-> 99, allowed |-> {}])]
PlainRule(o, claim, operator, value, profile) ==
  [ord |-> o, claim |-> claim, operator |-> operator, value |-> value, profile |-> profile]
RuleAt(o) ==
  {{}} \cup {{PlainRule(o, "c", "equals", v, "p")} : v \in {NoValue, Val("string", "x"), Val("object", "nulls"), Huge}}
       \cup {{PlainRule(o, "c", "exists", NoValue, "q")}, {PlainRule(o, "d", "contains", Val("string", "x"), "q")},
             {PlainRule(o, "d", "exists", NoValue, "r")}}
       \cup {{DefaultRule(o, p)} : p \in {"p", "q", "r"}}
BundleClaims ==
  UNION {[there -> {Val("string", "x"), Val("array", "x"), Val("object", "nulls")}] : there \in SUBSET {"c", "d"}}
BundleStores ==
  {[manifest |-> BundleManifest, policies |-> [p \in {"p", "q"} |-> PlainPolicy], rules |-> a \cup b \cup c] :
     a \in RuleAt(2), b \in RuleAt(5), c \in RuleAt(9)}
  \cup {[manifest |-> m, policies |-> f, rules |-> {DefaultRule(1, "p")}] :
          m \in {BundleManifest, NoManifest}, f \in [{"p", "q"} -> BundlePolicy]}

\* What a store can pass the validation with and no bundle can say.
Unsayable(store) ==
  \/ \E p \in DOMAIN store.policies : One \in DOMAIN store.policies[p].enforced /\ store.policies[p].enforced[One] = Huge
  \/ \E r \in store.rules : r.value \in {Huge, Val("object", "nulls")}
RoundTrip ==
  \A store \in BundleStores :
    LET files == write_export_bundle(store)
        back == FsPolicyStore_load(files)
        kinds(s) == {e[1] : e \in validate_all(s)} \ {"DefaultRuleNotLast"}
        oneDefault == \A r, s \in store.rules : r.operator = "default" /\ s.operator = "default" => r = s
    IN /\ validate_all(store) = {} => (files.ok <=> ~Unsayable(store))
       /\ validate_all(store) = {} /\ files.ok =>
            /\ back.ok /\ validate_all(back.store) = {}
            /\ \A claims \in BundleClaims :
                 resolve_profile(store.rules, claims) = resolve_profile(back.store.rules, claims)
       /\ files.ok /\ oneDefault => back.ok /\ kinds(back.store) = kinds(store)

\* A store that passes validation at startup can be exported unless a policy
\* of it has an integer above i64::MAX or a rule's value has one or a null
\* inside: the validation lets both pass and TOML has neither. An export that
\* succeeds loads as a store that passes and gives every caller the same
\* profile; a store with a fault keeps it through the bundle, unless the fault
\* is a default before other rules, which a bundle cannot say. The ages of
\* cached policies are taken to be within i64 (write_export_bundle,
\* FsPolicyStore::load, validate_all, rule_matches).
BundleRoundTrips == Before => RoundTrip

\* What the comment on json_map_to_toml_table says: its failure is not
\* reachable for a policy that is legitimately stored.
StoredPolicyIsExported ==
  Before => \A store \in BundleStores :
    validate_all(store) = {} => \A p \in DOMAIN store.policies : TomlableTree(store.policies[p].enforced)

Orderly ==
  \A p \in [strategy : {"None", "Fixed", "Exponential", "Linear"}, initial : {1, 3}, increment : {0, 2},
            max : {2, 20}, max_attempts : {0, 1, 13}], n \in 0 .. 12 :
    LET delay(k) == delay_for_attempt(p, k)
    IN /\ p.strategy \in {"Exponential", "Linear"} => delay(n) <= p.max
       /\ n + 1 < p.max_attempts => delay(n) <= delay(n + 1)
       /\ p.strategy = "Fixed" /\ n < p.max_attempts => delay(n) = p.initial
       /\ p.strategy \in {"Exponential", "Linear"} /\ n < p.max_attempts /\ delay(n) < p.max => delay(n) >= p.initial

\* The waits between the tries never shrink, for every strategy and more tries
\* than the doubling is capped at. The two growing strategies start from their
\* initial delay and never pass their maximum, which cuts the first wait too;
\* a fixed one, which has no maximum, waits its delay each time
\* (RetryPolicy::delay_for_attempt).
BackoffIsOrderly == Before => Orderly

-----------------------------------------------------------------------------
(* What the run asks, by part.                                             *)

\* The running value, the file and the cached policy stay right beside each
\* other, and a refused roaming write was refused for somebody's sake
\* (ConfigStore, FileBackend, PolicyClient, RoamingClient).
ValuesAreRight ==
  TypeOK /\ SettledIsRight /\ FileIsWhole /\ CachePairsEtag /\ ConflictIsSomebodyElse

\* What service and client decide about the same values in code of their own
\* agrees (resolve, validate_stored_policy, filter_user_scoped, validate_all,
\* delay_for_attempt).
RulesAgree ==
  /\ PrecedenceHolds /\ StoredPolicyIsApplied /\ FoldIsExact
  /\ RoamingIsAccepted /\ BundleRoundTrips /\ BackoffIsOrderly
=============================================================================
