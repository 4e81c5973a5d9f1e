-------------------------- MODULE ConfigResolution --------------------------
(***************************************************************************)
(* How a configuration value is decided (config/resolution, the fold of    *)
(* config/managed/mod.rs), what the service accepts as a policy or as a    *)
(* user's document (config/service/validate.rs, router.rs), and which      *)
(* fields roam (roaming_client.rs). A value is its JSON type and a token;  *)
(* a manifest is a function from the paths of its leaves to their fields;  *)
(* a tree of values (a layer, a policy) is a function on some paths.       *)
(***************************************************************************)
EXTENDS Integers, Sequences, FiniteSets

Val(type, token) == [type |-> type, token |-> token]
Number(v) == CASE v.token = "0" -> 0 [] v.token = "1" -> 1 [] v.token = "9" -> 9 [] v.token = "huge" -> 99 [] OTHER -> 0

\* A tree with one entry, and the two of which the second is on top.
Entry(p, v) == [q \in {p} |-> v]
Over(below, above) ==
  [p \in DOMAIN below \cup DOMAIN above |-> IF p \in DOMAIN above THEN above[p] ELSE below[p]]

\* The values an enumeration field allows.
Variants == {"red", "blue"}

\* value_matches_kind. The token of an array says what its items are.
value_matches_kind(v, kind) ==
  CASE kind = "Bool" -> v.type = "boolean"
    [] kind \in {"Int", "Duration"} -> v.type = "integer"
    [] kind = "Float" -> v.type \in {"integer", "fraction"}
    [] kind \in {"Str", "Path", "Url"} -> v.type = "string"
    [] kind = "Enum" -> v.type = "string" /\ v.token \in Variants
    [] kind = "List" -> v.type = "array" /\ v.token # "mixed"

\* default_for_kind.
default_for_kind(kind) ==
  CASE kind = "Bool" -> Val("boolean", "false")
    [] kind \in {"Int", "Duration"} -> Val("integer", "0")
    [] kind = "Float" -> Val("fraction", "0")
    [] kind \in {"Str", "Path", "Url"} -> Val("string", "")
    [] kind = "Enum" -> Val("string", "red")
    [] kind = "List" -> Val("array", "empty")

-----------------------------------------------------------------------------
(* The client.                                                             *)

\* server_tree_drop_reason_recommended and server_tree_drop_reason_enforced:
\* why an entry of a server tree does not count, "none" when it does.
server_tree_drop_reason_recommended(f, v) ==
  CASE f.local_only -> "LocalOnlyInServerTree"
    [] ~f.local_only /\ ~f.manageable -> "NotManageableInServerTree"
    [] ~f.local_only /\ f.manageable /\ f.secret -> "SecretInServerTree"
    [] ~f.local_only /\ f.manageable /\ ~f.secret /\ f.scope = "Org" -> "OrgScopeInRecommended"
    [] OTHER -> IF value_matches_kind(v, f.kind) THEN "none" ELSE "TypeMismatch"
server_tree_drop_reason_enforced(f, v) ==
  CASE f.local_only -> "LocalOnlyInServerTree"
    [] ~f.local_only /\ ~f.manageable -> "NotManageableInServerTree"
    [] ~f.local_only /\ f.manageable /\ f.secret -> "SecretInServerTree"
    [] ~f.local_only /\ f.manageable /\ ~f.secret /\ ~f.enforceable -> "NotEnforceableInEnforced"
    [] OTHER -> IF value_matches_kind(v, f.kind) THEN "none" ELSE "TypeMismatch"

\* push_unknown_key_warnings.
push_unknown_key_warnings(manifest, tree) ==
  {<<p, "UnknownKey">> : p \in DOMAIN tree \ DOMAIN manifest}

\* Provenance::new.
Provenance(layer) == [layer |-> layer, locked |-> layer = "Enforced"]

Found(v, layer) == [value |-> v, by |-> Provenance(layer)]
\* One step of resolve: a layer that has the path replaces what was found.
Replace(found, tree, p, layer) == IF p \in DOMAIN tree THEN Found(tree[p], layer) ELSE found

\* The four layers of this machine, in resolve's order.
Local(found, input, p) ==
  Replace(Replace(Replace(Replace(found, input.config_file, p, "ConfigFile"),
                          input.environment, p, "Environment"),
                  input.flags, p, "Flags"),
          input.builder_overrides, p, "BuilderOverride")

\* resolve: every leaf's value with its provenance, and the warnings.
resolve(manifest, input) ==
  LET reason(p) == IF p \in DOMAIN input.recommended
                   THEN server_tree_drop_reason_recommended(manifest[p], input.recommended[p])
                   ELSE "absent"
      veto(p) == IF p \in DOMAIN input.enforced
                 THEN server_tree_drop_reason_enforced(manifest[p], input.enforced[p])
                 ELSE "absent"
      base(p) == IF reason(p) = "none" THEN Found(input.recommended[p], "Recommended")
                 ELSE Found(IF manifest[p].default.type = "none"
                            THEN default_for_kind(manifest[p].kind) ELSE manifest[p].default,
                            "Default")
  IN [leaf |-> [p \in DOMAIN manifest |->
                  IF veto(p) = "none" THEN Found(input.enforced[p], "Enforced")
                  ELSE Local(base(p), input, p)],
      warnings |-> {<<p, reason(p)>> : p \in {q \in DOMAIN manifest : reason(q) \notin {"none", "absent"}}}
                   \cup {<<p, veto(p)>> : p \in {q \in DOMAIN manifest : veto(q) \notin {"none", "absent"}}}
                   \cup push_unknown_key_warnings(manifest, input.recommended)
                   \cup push_unknown_key_warnings(manifest, input.enforced)]

Nothing == [p \in {} |-> Val("none", "")]
ResolutionInput == [recommended |-> Nothing, config_file |-> Nothing, environment |-> Nothing,
                    flags |-> Nothing, builder_overrides |-> Nothing, enforced |-> Nothing]

-----------------------------------------------------------------------------
(* Documents. An object has entries that are values or sections of values; *)
(* its flat form is keyed by dotted paths, so that a key with a dot in it  *)
(* reads as a section.                                                     *)

Segments(key) == IF key = "s.a" THEN <<"s", "a">> ELSE <<key>>
Leaf(v) == [section |-> FALSE, value |-> v, entries |-> Nothing]
Section(tree) == [section |-> TRUE, value |-> Val("none", ""), entries |-> tree]

\* flatten_to_paths: the entries of the object and of its sections. Where two
\* read as one path the later in the order of the keys stays: "s.a" is after
\* "s".
flatten_to_paths(doc) ==
  LET plain == {k \in DOMAIN doc : ~doc[k].section}
      inner == UNION {{<<k, l>> : l \in DOMAIN doc[k].entries} : k \in {j \in DOMAIN doc : doc[j].section}}
      top == [p \in {Segments(k) : k \in plain} |-> doc[CHOOSE k \in plain : Segments(k) = p].value]
      nested == [p \in inner |-> doc[p[1]].entries[p[2]]]
  IN Over(nested, top)

\* unflatten_from_paths: the sections the manifest declares, each there even
\* when nothing is in it, and the leaves that the flat form has.
unflatten_from_paths(manifest, flat) ==
  LET sections == {p[1] : p \in {q \in DOMAIN manifest : Len(q) = 2}}
      leaves == {p[1] : p \in {q \in DOMAIN manifest \cap DOMAIN flat : Len(q) = 1}}
      held(s) == {p[2] : p \in {q \in DOMAIN manifest \cap DOMAIN flat : Len(q) = 2 /\ q[1] = s}}
  IN [k \in sections \cup leaves |->
        IF k \in sections THEN Section([l \in held(k) |-> flat[<<k, l>>]])
        ELSE Leaf(flat[<<k>>])]

\* merge_json_objects: sections are merged, everything else is replaced.
merge_json_objects(below, above) ==
  [k \in DOMAIN below \cup DOMAIN above |->
     CASE k \notin DOMAIN above -> below[k]
       [] k \in DOMAIN above /\ k \notin DOMAIN below -> above[k]
       [] k \in DOMAIN above /\ k \in DOMAIN below ->
            IF above[k].section /\ below[k].section
            THEN Section(Over(below[k].entries, above[k].entries)) ELSE above[k]]

\* fold_into_json: the document with the policy's trees resolved into it.
fold_into_json(manifest, doc, enforced, recommended) ==
  LET input == [ResolutionInput EXCEPT !.recommended = recommended, !.enforced = enforced,
                                       !.config_file = flatten_to_paths(doc)]
      flat == [p \in DOMAIN manifest |-> resolve(manifest, input).leaf[p].value]
  IN merge_json_objects(doc, unflatten_from_paths(manifest, flat))

-----------------------------------------------------------------------------
(* The service.                                                            *)

\* constraint_violation_detail: bounds for numbers, then the allowed values.
constraint_violation_detail(f, v) ==
  \/ v.type \in {"integer", "fraction"} /\ (Number(v) < f.min \/ Number(v) > f.max)
  \/ f.allowed # {} /\ v \notin f.allowed

\* Mutant: the enforced tree is judged as the recommended one is.
validate_stored_policy_alike(manifest, policy) ==
  LET errors(tree) ==
        {<<p, "UnknownField">> : p \in DOMAIN tree \ DOMAIN manifest}
        \cup {<<p, "Refused">> : p \in {q \in DOMAIN tree \cap DOMAIN manifest :
                server_tree_drop_reason_recommended(manifest[q], tree[q]) # "none"
                \/ constraint_violation_detail(manifest[q], tree[q])}}
  IN errors(policy.recommended) \cup errors(policy.enforced)

\* validate_stored_policy and map_reason: what is wrong with a policy that is
\* about to be stored, an entry at a time.
validate_stored_policy(manifest, policy) ==
  LET errors(tree, Reason(_, _)) ==
        {<<p, "UnknownField">> : p \in DOMAIN tree \ DOMAIN manifest}
        \cup {<<p, Reason(manifest[p], tree[p])>> : p \in {q \in DOMAIN tree \cap DOMAIN manifest :
                Reason(manifest[q], tree[q]) # "none"}}
        \cup {<<p, "ConstraintViolation">> : p \in {q \in DOMAIN tree \cap DOMAIN manifest :
                Reason(manifest[q], tree[q]) = "none"
                /\ constraint_violation_detail(manifest[q], tree[q])}}
  IN errors(policy.recommended, server_tree_drop_reason_recommended)
     \cup errors(policy.enforced, server_tree_drop_reason_enforced)

\* assignment_rule_missing_profile_errors and default_rule_not_last_errors.
\* A rule is its ord, its operator and its profile.
assignment_rule_missing_profile_errors(rules, profiles) ==
  {r.ord : r \in {s \in rules : s.profile \notin profiles}}
default_rule_not_last_errors(rules) ==
  {r.ord : r \in {s \in rules : s.operator = "default" /\ \E t \in rules : t.ord > s.ord}}

\* first_invalid_user_field: whether a field of a user's document is refused.
first_invalid_user_field(manifest, doc) ==
  \E p \in DOMAIN doc :
    \/ p \notin DOMAIN manifest
    \/ LET f == manifest[p]
       IN f.secret \/ f.local_only \/ f.scope # "User" \/ constraint_violation_detail(f, doc[p])

\* filter_user_scoped: what a client sends of its document.
filter_user_scoped(manifest, doc) ==
  [p \in {q \in DOMAIN doc \cap DOMAIN manifest :
            manifest[q].scope = "User" /\ ~manifest[q].local_only /\ ~manifest[q].secret} |-> doc[p]]
=============================================================================
