------------------------------- MODULE Bundle -------------------------------
(***************************************************************************)
(* The bundle directory of the configuration service: what an export       *)
(* writes (service/bundle.rs), what a load of it makes of the files        *)
(* (service/fs_store.rs) and what the validation at startup says of a      *)
(* store (service/validate.rs, inherit.rs). A store is what it holds of    *)
(* one application: its manifest, its policies by profile and its rules.   *)
(***************************************************************************)
EXTENDS ConfigResolution, SequencesExt

NoManifest == [there |-> FALSE, doc |-> Nothing]

-----------------------------------------------------------------------------
(* The export.                                                             *)

\* json_map_to_toml_table, json_value_to_toml_value: TOML has no null, and its
\* integers are signed. The token of an array or of an object says what it
\* holds: "nulls" a null, "huge" an integer above i64::MAX.
Tomlable(v) == v.type # "null" /\ v.token \notin {"nulls", "huge"}
TomlableTree(tree) == \A p \in DOMAIN tree : Tomlable(tree[p])

InOrder(rules) == SetToSortSeq(rules, LAMBDA a, b : a.ord < b.ord)
RuleFile(r) == [claim |-> r.claim, operator |-> r.operator, value |-> r.value, profile |-> r.profile]

\* write_export_bundle: the rules in their order, but the default apart. The
\* first tree or value that TOML cannot say ends the export.
write_export_bundle(store) ==
  LET defaults == SelectSeq(InOrder(store.rules), LAMBDA r : r.operator = "default")
      plain == SelectSeq(InOrder(store.rules), LAMBDA r : r.operator # "default")
  IN [ok |-> /\ \A p \in DOMAIN store.policies :
                  /\ TomlableTree(store.policies[p].enforced)
                  /\ TomlableTree(store.policies[p].recommended)
             /\ \A r \in store.rules : r.operator # "default" => Tomlable(r.value),
      manifest |-> store.manifest,
      policies |-> store.policies,
      rules |-> [i \in DOMAIN plain |-> RuleFile(plain[i])],
      default_profile |-> IF defaults = <<>> THEN "" ELSE defaults[Len(defaults)].profile]

-----------------------------------------------------------------------------
(* The load.                                                               *)

NoValue == Val("none", "")
DefaultRule(ord, profile) ==
  [ord |-> ord, claim |-> "", operator |-> "default", value |-> NoValue, profile |-> profile]

\* load_assignments: a rule's order is its place, the default's is the last.
load_assignments(files) ==
  {[ord |-> i - 1, claim |-> files.rules[i].claim, operator |-> files.rules[i].operator,
    value |-> files.rules[i].value, profile |-> files.rules[i].profile] : i \in DOMAIN files.rules}
  \cup (IF files.default_profile = "" THEN {}
        ELSE {DefaultRule(Len(files.rules), files.default_profile)})

\* FsPolicyStore::load, with load_manifests, load_policies and parse_operator:
\* a default among the rules of the file is refused, as is an unknown operator.
FsPolicyStore_load(files) ==
  [ok |-> \A i \in DOMAIN files.rules : files.rules[i].operator \in {"equals", "contains", "exists"},
   store |-> [manifest |-> files.manifest, policies |-> files.policies, rules |-> load_assignments(files)]]

-----------------------------------------------------------------------------
(* The validation.                                                         *)

\* resolve_chain: whether the ancestors of a profile end, and all are there.
Up(policies, steps) ==
  LET chain[n \in 0 .. Cardinality(DOMAIN policies) + 1] ==
        IF n = 0 THEN steps
        ELSE LET before == chain[n - 1]
             IN IF before \in DOMAIN policies THEN policies[before].parent ELSE before
  IN chain
resolve_chain(policies, p) ==
  LET chain == Up(policies, p)
      end == chain[Cardinality(DOMAIN policies) + 1]
  IN CASE end = "" -> "none"
       [] end # "" /\ end \notin DOMAIN policies -> "MissingParent"
       [] end \in DOMAIN policies -> "InheritanceCycle"

\* validate_all.
validate_all(store) ==
  {<<"AssignmentRuleMissingProfile", o>> :
     o \in assignment_rule_missing_profile_errors(store.rules, DOMAIN store.policies)}
  \cup {<<"DefaultRuleNotLast", o>> : o \in default_rule_not_last_errors(store.rules)}
  \cup IF ~store.manifest.there THEN {<<"MissingManifest", p>> : p \in DOMAIN store.policies}
       ELSE UNION {{<<"Policy", e[2]>> : e \in validate_stored_policy(store.manifest.doc, store.policies[p])} :
                     p \in DOMAIN store.policies}
            \cup {<<"Chain", p>> : p \in {q \in DOMAIN store.policies :
                                           resolve_chain(store.policies, q) # "none"}}

\* rule_matches. The claims are a function from the paths that are there; the
\* token of an array among them is its one item.
rule_matches(r, claims) ==
  \/ r.operator = "default"
  \/ /\ r.claim \in DOMAIN claims
     /\ \/ r.operator = "exists"
        \/ r.operator = "equals" /\ r.value # NoValue /\ claims[r.claim] = r.value
        \/ /\ r.operator = "contains" /\ r.value # NoValue
           /\ claims[r.claim].type = "array" /\ claims[r.claim].token = r.value.token

\* resolve_profile: the first rule in order that matches the claims.
resolve_profile(rules, claims) ==
  LET hits == {r \in rules : rule_matches(r, claims)}
  IN IF hits = {} THEN "" ELSE (CHOOSE r \in hits : \A s \in hits : r.ord <= s.ord).profile
=============================================================================
