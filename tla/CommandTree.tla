----------------------------- MODULE CommandTree -----------------------------
(***************************************************************************)
(* The command registry (command/registry.rs), the clap tree built from it *)
(* (app/clap_adapter.rs) and the completion model (app/builder.rs). A path *)
(* is a sequence of names. A registry is a record: cmds, a function from   *)
(* the paths of the commands to what is registered there, groups, a set of *)
(* paths, and completion, the path of the framework's completion command   *)
(* (<<>> when there is none). An alias of one name is relative to the      *)
(* command's parent, a longer one is a path of its own.                    *)
(***************************************************************************)
EXTENDS Integers, Sequences

CONSTANT Segments   \* what a CommandPath is made of: strings without a slash

\* The paths that are registered.
Paths == Seq(Segments) \ {<<>>}

\* CommandRegistry::new.
EmptyRegistry == [cmds |-> <<>>, groups |-> {}, completion |-> <<>>]

Front(path) == SubSeq(path, 1, Len(path) - 1)
leaf(path) == IF path = <<>> THEN "" ELSE path[Len(path)]
push(path, segment) == Append(path, segment)

\* The proper prefixes of a path.
Ancestors(path) == {SubSeq(path, 1, n) : n \in 1 .. Len(path) - 1}

Below(path, q) == Len(path) < Len(q) /\ SubSeq(q, 1, Len(path)) = path

\* command_ancestor.
command_ancestor(r, path) == Ancestors(path) \cap DOMAIN r.cmds # {}

\* path_has_descendants.
path_has_descendants(r, path) ==
  \/ \E q \in DOMAIN r.cmds : Below(path, q)
  \/ \E q \in r.groups : Below(path, q)

\* qualified_alias_path.
qualified_alias_path(path, alias) ==
  IF Len(alias) > 1 THEN alias ELSE Front(path) \o alias

AliasPaths(path, cmd) == {qualified_alias_path(path, a) : a \in cmd.aliases}

\* existing_alias_for_path and existing_alias_ancestor.
existing_alias_for_path(r, path) ==
  \E c \in DOMAIN r.cmds : path \in AliasPaths(c, r.cmds[c])
existing_alias_ancestor(r, path) ==
  \E q \in Ancestors(path) : existing_alias_for_path(r, q)

\* get and resolve: only commands are found, not groups and not aliases.
resolve(r, path) == path \in DOMAIN r.cmds

\* Mutant: an alias may name what other commands are under.
AliasTakenNoDescendants(r, path) ==
  path \in DOMAIN r.cmds \/ path \in r.groups \/ existing_alias_for_path(r, path)

\* What an alias of a new command must not name.
AliasTaken(r, path) ==
  \/ path \in DOMAIN r.cmds
  \/ path \in r.groups
  \/ path_has_descendants(r, path)
  \/ existing_alias_for_path(r, path)

\* register_at: "none", or the RegistrationError.
register_at_error(r, path, cmd) ==
  IF \/ path \in DOMAIN r.cmds \cup r.groups
     \/ command_ancestor(r, path)
     \/ path_has_descendants(r, path)
  THEN "Collision"
  ELSE IF \/ existing_alias_for_path(r, path)
          \/ existing_alias_ancestor(r, path)
          \/ \E a \in AliasPaths(path, cmd) : AliasTaken(r, a)
  THEN "AliasConflict" ELSE "none"

register_at(r, path, cmd) ==
  [r EXCEPT !.cmds = [p \in DOMAIN r.cmds \cup {path} |->
                        IF p = path THEN cmd ELSE r.cmds[p]]]

\* register_group.
register_group_error(r, path) ==
  IF path \in DOMAIN r.cmds \cup r.groups \/ command_ancestor(r, path) THEN "Collision"
  ELSE IF existing_alias_for_path(r, path) \/ existing_alias_ancestor(r, path)
  THEN "AliasConflict" ELSE "none"

register_group(r, path) == [r EXCEPT !.groups = @ \cup {path}]

\* register_framework_completion_at and is_framework_completion.
register_framework_completion_at(r, path, cmd) ==
  [register_at(r, path, cmd) EXCEPT !.completion = path]
is_framework_completion(r, path) == r.completion = path

-----------------------------------------------------------------------------
(* The clap tree.                                                          *)

\* insert_command, insert_group and build_clap_node: a node is there when it
\* is a command or when something was inserted below it. A group with
\* nothing below is left out.
ClapNodes(r) == DOMAIN r.cmds \cup UNION {Ancestors(q) : q \in DOMAIN r.cmds \cup r.groups}

\* build_leaf_clap_command: the words that select a node under its parent. A
\* node with children is a group and loses the aliases.
IsGroup(r, path) == path_has_descendants(r, path)
WordsFor(r, path) ==
  {leaf(path)} \cup
  (IF path \in DOMAIN r.cmds /\ ~IsGroup(r, path)
   THEN {a[1] : a \in {b \in r.cmds[path].aliases : Len(b) = 1}} ELSE {})

\* build_clap_root: the implicit version command, unless a root command has
\* that name.
ImplicitVersion(r) == ~resolve(r, <<"version">>)

\* The node a word selects under a node. The names of the tree come before
\* the implicit version command.
Selected(r, at, word) ==
  {q \in ClapNodes(r) : Len(q) = Len(at) + 1 /\ Front(q) = at /\ word \in WordsFor(r, q)}

\* walk_subcommands over what clap matched: at is the path so far, more the
\* number of words it took, kind whether another word is expected.
Start == [at |-> <<>>, kind |-> "group", more |-> 0]
WalkStep(r, s, word) ==
  LET next == Selected(r, s.at, word)
  IN CASE s.kind # "group" -> s
       [] s.kind = "group" /\ next # {} ->
            LET q == CHOOSE q \in next : TRUE
            IN [at |-> q, kind |-> IF IsGroup(r, q) THEN "group" ELSE "leaf",
                more |-> s.more + 1]
       [] s.kind = "group" /\ next = {} /\ s.at = <<>> /\ word = "version"
            /\ ImplicitVersion(r) ->
            [at |-> <<"version">>, kind |-> "implicit", more |-> s.more + 1]
       [] OTHER -> [s EXCEPT !.kind = "unknown"]
Walk(r, words) ==
  LET after[n \in 0 .. Len(words)] ==
        IF n = 0 THEN Start ELSE WalkStep(r, after[n - 1], words[n])
  IN after[Len(words)]

\* parse_with_clap over an argv: its words and at most one flag. None of the
\* commands takes positional arguments, so a word left over at a leaf is an
\* unknown argument; a required argument that is not there is "missing".
parse_with_clap(r, argv) ==
  LET s == Walk(r, argv.words)
      outcome(kind) == [kind |-> kind, path |-> s.at]
  IN CASE s.kind = "unknown" ->
            outcome(IF Len(argv.words) > 1 THEN "E_NESTED_COMMAND_NOT_FOUND"
                    ELSE "E_UNKNOWN_COMMAND")
       [] s.kind # "unknown" /\ argv.flag = "--help" -> outcome("HelpShown")
       [] s.kind # "unknown" /\ argv.flag = "--version" -> outcome("VersionShown")
       [] s.kind = "group" /\ argv.flag \in {"none", "--bad"} ->
            outcome(IF argv.flag = "--bad" THEN "E_UNKNOWN_FLAG" ELSE "HelpShown")
       [] s.kind = "implicit" /\ argv.flag \in {"none", "--bad"} -> outcome("Parsed")
       [] s.kind = "leaf" /\ argv.flag \in {"none", "--bad"} ->
            outcome(IF argv.flag = "--bad" \/ s.more < Len(argv.words) THEN "E_UNKNOWN_FLAG"
                    ELSE IF r.cmds[s.at].needs THEN "E_MISSING_REQUIRED" ELSE "Parsed")

-----------------------------------------------------------------------------
(* Completion.                                                             *)

\* build_completion_model, insert_completion_path and completion_key: the
\* paths a completion script offers, word by word.
build_completion_model(r) ==
  LET shown == r.groups \cup {p \in DOMAIN r.cmds : ~r.cmds[p].hidden}
  IN shown \cup UNION {Ancestors(p) : p \in shown}
=============================================================================
