-------------------------------- MODULE App --------------------------------
(***************************************************************************)
(* An application from AppBuilder::new to the dispatch of its commands     *)
(* (app/builder.rs). The app configures the builder by a sequence of       *)
(* calls; build then registers the framework's own commands stage by       *)
(* stage, each guarded by its own idea of "the app already has one"; the   *)
(* built app runs the argv of its process. A build with all features is    *)
(* modelled. The commands have no arguments but a required one ("needs").  *)
(***************************************************************************)
EXTENDS CommandTree, Args, FiniteSets

CONSTANTS
  AppPaths,      \* the paths the app may register a command or a group at
  CommandsAt,    \* for a path, the commands the app may register there
  Namespaces,    \* the built-in command namespaces the app may choose
  Argvs,         \* the argument vectors that are run
  Variables,     \* the environment variables the app may declare
  MaxCalls       \* bound on the calls made on one builder

\* What the app may register: an alias has a segment at least.
AppCommands ==
  [owner : {"app"}, aliases : SUBSET Paths, needs : BOOLEAN, hidden : BOOLEAN, category : BOOLEAN,
   env : SUBSET Variables]

\* The names the framework's own commands are made of.
FrameworkSegments ==
  {"chat", "auth", "config", "telemetry", "spec", "doctor", "self", "completion", "completions",
   "mcp", "serve", "list", "version", "login", "logout", "status", "token", "show", "manifest",
   "profile", "refresh", "set", "info", "disable", "enable", "reset", "install", "update",
   "rollback", "uninstall"}

ASSUME AppAssumption ==
  /\ MaxCalls \in Nat /\ FrameworkSegments \subseteq Segments
  /\ AppPaths \subseteq Paths /\ Namespaces \subseteq Seq(Segments)
  /\ \A p \in AppPaths : CommandsAt[p] \subseteq AppCommands
  /\ Variables \subseteq [name : STRING, text : STRING]
  /\ Argvs \subseteq [words : Seq(Segments), flag : {"none", "--help", "--version", "--bad"}]

VARIABLES
  reg,     \* CommandRegistry
  env,     \* EnvironmentVariableRegistry: the variables declared, with their descriptions
  opts,    \* what the builder was told
  calls,   \* calls made on the builder
  stage,   \* where the builder, the build or the app is
  mine,    \* the groups the app registered (history)
  sees,    \* the commands each snapshot of the registry holds
  last     \* the last argv that ran, and what became of it

app_vars == <<reg, env, opts, calls, stage, mine, sees, last>>

Stages == <<"resolve", "checks", "chat", "auth", "config", "telemetry", "namespace", "spec",
            "doctor", "self", "completion", "mcp_serve", "mcp_install", "clap">>
None == [words |-> <<>>, flag |-> "none"]

Cmd(owner, aliases) ==
  [owner |-> owner, aliases |-> aliases, needs |-> FALSE, hidden |-> FALSE, category |-> FALSE, env |-> {}]
Framework(aliases, needs, category, vars) ==
  [owner |-> "framework", aliases |-> aliases, needs |-> needs, hidden |-> FALSE, category |-> category,
   env |-> vars]
Builtin == Framework({}, FALSE, FALSE, {})
Categorised == Framework({}, FALSE, TRUE, {})

\* The variables that the framework's chat command declares; no other command
\* of the framework declares any.
ChatVariables ==
  {[name |-> n, text |-> "chat"] :
     n \in {"ALLOW_DESTRUCTIVE_COMMANDS", "OPENAI_API_KEY", "AIKIT_LLM_URL", "AIKIT_MODEL"}}
ChatCommand == Framework({}, FALSE, TRUE, ChatVariables)

\* help_entries: what the framework's telemetry reads, the prefix of the app's
\* name left out.
HelpVariables ==
  {[name |-> n, text |-> "telemetry"] :
     n \in {"TELEMETRY_DISABLED", "DO_NOT_TRACK", "OTEL_SDK_DISABLED", "OTEL_EXPORTER_OTLP_ENDPOINT",
            "OTEL_EXPORTER_OTLP_HEADERS", "OTEL_TRACES_SAMPLER_ARG", "OTEL_SERVICE_NAME",
            "OTEL_RESOURCE_ATTRIBUTES", "TELEMETRY_LEVEL", "TELEMETRY_ATTRIBUTION",
            "TELEMETRY_ENDPOINT", "TELEMETRY_PROBE_ENABLED"}}

\* EnvironmentVariableRegistry::insert: a name or a description of blanks, and
\* one name with two descriptions, are errors.
EmptyEntry(e) == e.name = "blank" \/ e.text = "blank"
Agree(entries) == \A e, f \in entries : e.name = f.name => e.text = f.text

\* AppBuilder::new.
NewOpts ==
  [end_user |-> TRUE, explicit |-> FALSE, legacy |-> FALSE, withdrawn |-> FALSE,
   provider |-> FALSE, config |-> "none", manifest |-> FALSE, keys |-> "plain", self |-> "none",
   completion |-> TRUE, mcp |-> TRUE, ns |-> <<>>, checks |-> FALSE, probe |-> "none"]

AppInit ==
  /\ reg = EmptyRegistry
  /\ env = {}
  /\ opts = NewOpts
  /\ calls = 0
  /\ stage = "building"
  /\ mine = {}
  /\ sees = [mcp |-> {}, completion |-> {}]
  /\ last = [argv |-> None, ran |-> <<>>, exit |-> "none"]

-----------------------------------------------------------------------------
(* The builder's calls.                                                    *)

Call ==
  /\ stage = "building" /\ calls < MaxCalls
  /\ calls' = calls + 1
  /\ UNCHANGED <<sees, last>>

Set(field, value) ==
  /\ opts' = [opts EXCEPT ![field] = value]
  /\ UNCHANGED <<reg, env, stage, mine>>

with_token_provider == Call /\ Set("provider", TRUE)
with_telemetry == Call /\ Set("legacy", TRUE)
with_config == Call /\ \E c \in {"ok", "broken"} : Set("config", c)
without_completion == Call /\ Set("completion", FALSE)
without_mcp == Call /\ Set("mcp", FALSE)
with_self_install == Call /\ \E v \in {"valid", "invalid"} : Set("self", v)
with_builtin_command_namespace == Call /\ \E ns \in Namespaces : Set("ns", ns)
without_end_user_telemetry == Call /\ Set("withdrawn", TRUE)
register_doctor_checks == Call /\ Set("checks", TRUE)
with_telemetry_ops == Call /\ \E p \in {"new", "duplicate"} : Set("probe", p)

\* with_config_manifest: a manifest may have a field telemetry of its own
\* ("owned"), or one below telemetry whose description is blank.
with_config_manifest ==
  /\ Call
  /\ \E k \in {"plain", "owned", "blank"} : opts' = [opts EXCEPT !.manifest = TRUE, !.keys = k]
  /\ UNCHANGED <<reg, env, stage, mine>>

\* register_env_var: an error consumes the builder.
register_env_var ==
  /\ Call
  /\ \E e \in Variables :
       IF ~EmptyEntry(e) /\ Agree(env \cup {e})
       THEN env' = env \cup {e} /\ UNCHANGED stage
       ELSE stage' = "refused" /\ UNCHANGED env
  /\ UNCHANGED <<reg, opts, mine>>

\* with_deployment also marks the choice as the app's.
with_deployment ==
  /\ Call
  /\ \E e \in BOOLEAN : opts' = [opts EXCEPT !.end_user = e, !.explicit = TRUE]
  /\ UNCHANGED <<reg, env, stage, mine>>

\* register, register_command and register_command_at: an error consumes the
\* builder.
register_command_at ==
  /\ Call
  /\ \E path \in AppPaths : \E cmd \in CommandsAt[path] :
       IF register_at_error(reg, path, cmd) = "none"
       THEN reg' = register_at(reg, path, cmd) /\ UNCHANGED stage
       ELSE stage' = "refused" /\ UNCHANGED reg
  /\ UNCHANGED <<env, opts, mine>>

\* AppBuilder::register_group; a module's register makes the same calls.
register_group_at ==
  /\ Call
  /\ \E path \in AppPaths :
       IF register_group_error(reg, path) = "none"
       THEN reg' = register_group(reg, path) /\ mine' = mine \cup {path} /\ UNCHANGED stage
       ELSE stage' = "refused" /\ UNCHANGED <<reg, mine>>
  /\ UNCHANGED <<env, opts>>

-----------------------------------------------------------------------------
(* build, one action per step.                                             *)

NextStage(s) ==
  IF s = "clap" THEN "built"
  ELSE Stages[1 + CHOOSE i \in 1 .. Len(Stages) : Stages[i] = s]

\* The step of stage s ends well with the registry r, with an error, or with
\* a panic.
Done(s, r) == stage' = NextStage(s) /\ reg' = r
Err == stage' = "failed" /\ UNCHANGED reg
Panic == stage' = "panicked" /\ UNCHANGED reg
AtStage(s) == stage = s /\ UNCHANGED <<env, calls, mine, last>>

\* A registration inside build: failing is fail.
Put(s, r, path, cmd, fail) ==
  IF register_at_error(r, path, cmd) = "none" THEN Done(s, register_at(r, path, cmd)) ELSE fail

\* The register_*_commands functions: a group and its leaves, in one go; the
\* first registration that fails is the build's error.
PutGroup(s, group, leaves) ==
  LET paths == {push(group, l) : l \in leaves}
      g == register_group(reg, group)
  IN IF \/ register_group_error(reg, group) # "none"
        \/ \E p \in paths : register_at_error(g, p, Builtin) # "none"
     THEN Err
     ELSE Done(s, [g EXCEPT !.cmds = [p \in DOMAIN @ \cup paths |->
                                        IF p \in DOMAIN @ THEN @[p] ELSE Builtin]])

\* build: the deprecated telemetry configuration implies a service unless the
\* app chose a deployment; resolve_config loads the configuration;
\* telemetry_registry takes no probe twice and no malformed id; and
\* published_telemetry_manifest takes no manifest with a telemetry of its own.
BuildResolve ==
  /\ stage = "building" /\ UNCHANGED <<env, calls, mine, sees, last>>
  /\ opts' = [opts EXCEPT !.end_user = @ /\ ~(opts.legacy /\ ~opts.explicit)]
  /\ IF opts.config = "broken" \/ opts.probe = "duplicate" \/ opts.keys = "owned"
     THEN Err ELSE Done("resolve", reg)

Withdrawn == opts.withdrawn /\ opts.end_user

\* The telemetry checks are dropped when telemetry is withdrawn; self-install
\* options count, and are validated, only in an end-user deployment, and add
\* checks of their own.
BuildChecks ==
  /\ AtStage("checks") /\ UNCHANGED sees
  /\ opts' = [opts EXCEPT !.checks = @ \/ ~Withdrawn \/ (opts.self # "none" /\ opts.end_user),
                          !.self = IF opts.end_user THEN @ ELSE "none"]
  /\ IF opts.end_user /\ opts.self = "invalid" THEN Err ELSE Done("checks", reg)

\* The chat command is registered with register, which panics on an error,
\* when no command has its name. (It uses the running app's registry: the
\* snapshot it is given stands in only where there is none.)
BuildChat ==
  /\ AtStage("chat") /\ UNCHANGED <<opts, sees>>
  /\ IF resolve(reg, <<"chat">>) THEN Done("chat", reg)
     ELSE Put("chat", reg, <<"chat">>, ChatCommand, Panic)

\* register_auth_commands, when there is a token provider and no command auth.
BuildAuth ==
  /\ AtStage("auth") /\ UNCHANGED <<opts, sees>>
  /\ IF ~opts.provider \/ resolve(reg, <<"auth">>) THEN Done("auth", reg)
     ELSE PutGroup("auth", <<"auth">>, {"login", "logout", "status", "token"})

\* register_config_commands, when there is a manifest and no command config.
BuildConfig ==
  /\ AtStage("config") /\ UNCHANGED <<opts, sees>>
  /\ IF ~opts.manifest \/ resolve(reg, <<"config">>) THEN Done("config", reg)
     ELSE PutGroup("config", <<"config">>, {"show", "manifest", "profile", "refresh"})

\* register_telemetry_commands, for an end user whose telemetry is not
\* withdrawn, when neither a command nor a group has its name.
BuildTelemetry ==
  /\ AtStage("telemetry") /\ UNCHANGED <<opts, sees>>
  /\ IF ~opts.end_user \/ Withdrawn
        \/ resolve(reg, <<"telemetry">>) \/ <<"telemetry">> \in reg.groups
     THEN Done("telemetry", reg)
     ELSE PutGroup("telemetry", <<"telemetry">>,
                   {"status", "set", "info", "disable", "enable", "reset"})

\* The namespace of the built-in commands must not be a command.
BuildNamespace ==
  /\ AtStage("namespace") /\ UNCHANGED <<opts, sees>>
  /\ IF opts.ns # <<>> /\ resolve(reg, opts.ns) THEN Err ELSE Done("namespace", reg)

BuildSpec ==
  /\ AtStage("spec") /\ UNCHANGED <<opts, sees>>
  /\ IF resolve(reg, push(opts.ns, "spec")) THEN Done("spec", reg)
     ELSE Put("spec", reg, push(opts.ns, "spec"), Builtin, Err)

BuildDoctor ==
  /\ AtStage("doctor") /\ UNCHANGED <<opts, sees>>
  /\ IF ~opts.checks \/ resolve(reg, push(opts.ns, "doctor")) THEN Done("doctor", reg)
     ELSE Put("doctor", reg, push(opts.ns, "doctor"), Categorised, Err)

\* register_self_commands.
BuildSelf ==
  /\ AtStage("self") /\ UNCHANGED <<opts, sees>>
  /\ LET path == push(opts.ns, "self")
     IN IF opts.self = "none" \/ resolve(reg, path) \/ path \in reg.groups THEN Done("self", reg)
        ELSE PutGroup("self", path, {"install", "update", "rollback", "uninstall", "status"})

\* completion is registered whatever the app has; its scripts come from a
\* clap tree of the registry as it is now.
Completion == Framework({<<"completions">>}, TRUE, FALSE, {})

BuildCompletion ==
  /\ AtStage("completion") /\ UNCHANGED opts
  /\ sees' = IF opts.completion THEN [sees EXCEPT !.completion = DOMAIN reg.cmds] ELSE sees
  /\ LET path == push(opts.ns, "completion")
     IN IF ~opts.completion THEN Done("completion", reg)
        ELSE IF register_at_error(reg, path, Completion) # "none" THEN Err
        ELSE Done("completion", register_framework_completion_at(reg, path, Completion))

\* The group mcp, whose registration may fail, then mcp serve over a snapshot
\* of the registry.
WithMcpGroup(r) ==
  IF register_group_error(r, <<"mcp">>) = "none" THEN register_group(r, <<"mcp">>) ELSE r
\* Mutant: the snapshot that completion took is used again.
BuildMcpServeReused ==
  /\ AtStage("mcp_serve") /\ UNCHANGED opts
  /\ LET wanted == opts.mcp /\ ~resolve(reg, <<"mcp">>) /\ ~resolve(reg, <<"mcp", "serve">>)
     IN /\ sees' = IF wanted THEN [sees EXCEPT !.mcp = sees.completion] ELSE sees
        /\ IF wanted THEN Put("mcp_serve", WithMcpGroup(reg), <<"mcp", "serve">>, Builtin, Panic)
           ELSE Done("mcp_serve", reg)

BuildMcpServe ==
  /\ AtStage("mcp_serve") /\ UNCHANGED opts
  /\ LET wanted == opts.mcp /\ ~resolve(reg, <<"mcp">>) /\ ~resolve(reg, <<"mcp", "serve">>)
     IN /\ sees' = IF wanted THEN [sees EXCEPT !.mcp = DOMAIN reg.cmds] ELSE sees
        /\ IF wanted THEN Put("mcp_serve", WithMcpGroup(reg), <<"mcp", "serve">>, Builtin, Panic)
           ELSE Done("mcp_serve", reg)

\* mcp install and mcp list: no look at a root command mcp, and both panic.
BuildMcpInstall ==
  /\ AtStage("mcp_install") /\ UNCHANGED <<opts, sees>>
  /\ LET g == IF resolve(reg, <<"mcp">>) THEN reg ELSE WithMcpGroup(reg)
         new == {<<"mcp", "install">>, <<"mcp", "list">>} \ DOMAIN reg.cmds
     IN IF \E p \in new : register_at_error(g, p, Builtin) # "none" THEN Panic
        ELSE Done("mcp_install", [g EXCEPT !.cmds = [p \in DOMAIN @ \cup new |->
                                                      IF p \in DOMAIN @ THEN @[p] ELSE Builtin]])

\* The environment variables of the commands (register_commands), then, unless
\* telemetry is withdrawn, those that it reads and that nobody declared
\* (register_if_absent), and the clap root. A blank description in the
\* manifest's part about telemetry is an error.
BuildClap ==
  /\ stage = "clap" /\ UNCHANGED <<opts, calls, mine, sees, last>>
  /\ LET declared == UNION {reg.cmds[p].env : p \in DOMAIN reg.cmds}
         all == env \cup declared
     IN IF \/ \E e \in declared : EmptyEntry(e)
           \/ ~Agree(all)
           \/ ~Withdrawn /\ opts.keys = "blank"
        THEN Err /\ UNCHANGED env
        ELSE /\ env' = all \cup IF Withdrawn THEN {}
                             ELSE {h \in HelpVariables : \A e \in all : e.name # h.name}
             /\ Done("clap", reg)

-----------------------------------------------------------------------------
(* The built application.                                                  *)

\* should_show_help and has_categories: the framework's own help.
has_categories ==
  \/ \E p \in DOMAIN reg.cmds : Len(p) = 1 /\ reg.cmds[p].category
  \/ opts.self # "none" /\ <<"self">> \in reg.groups
should_show_help(argv) == argv.words = <<>> /\ argv.flag \in {"none", "--help"}

\* run_command, execute_command_with_globals and execute_command_direct: the
\* command that ran (<<>> for none, <<"version">> without such a command for
\* the framework's version line) and the exit.
run_command(argv) ==
  LET o == parse_with_clap(reg, argv)
      result(ran, exit) == [ran |-> ran, exit |-> exit]
  IN IF should_show_help(argv) /\ has_categories THEN result(<<>>, "ok")
     ELSE CASE o.kind = "Parsed" ->
                 IF leaf(o.path) = "version" /\ ImplicitVersion(reg)
                 THEN result(<<"version">>, "ok")
                 ELSE IF resolve(reg, o.path) THEN result(o.path, "command")
                 ELSE result(<<>>, "usage")
            [] o.kind \in {"HelpShown", "VersionShown"} -> result(<<>>, "ok")
            [] OTHER -> result(<<>>, "usage")

\* run_with_args, once in a process. run exits with status 2 on a usage error.
run_with_args ==
  /\ stage = "built" /\ last.exit = "none"
  /\ \E argv \in Argvs :
       last' = [argv |-> argv, ran |-> run_command(argv).ran, exit |-> run_command(argv).exit]
  /\ UNCHANGED <<reg, env, opts, calls, stage, mine, sees>>

Configure ==
  \/ with_token_provider \/ with_telemetry \/ with_config \/ with_config_manifest
  \/ without_completion \/ without_mcp \/ with_self_install \/ with_builtin_command_namespace
  \/ without_end_user_telemetry \/ register_doctor_checks \/ with_telemetry_ops
  \/ with_deployment \/ register_command_at \/ register_group_at \/ register_env_var

Build ==
  \/ BuildResolve \/ BuildChecks \/ BuildChat \/ BuildAuth \/ BuildConfig \/ BuildTelemetry
  \/ BuildNamespace \/ BuildSpec \/ BuildDoctor \/ BuildSelf \/ BuildCompletion
  \/ BuildMcpServe \/ BuildMcpInstall \/ BuildClap

AppNext == Configure \/ Build \/ run_with_args
AppSpec == AppInit /\ [][AppNext]_app_vars

-----------------------------------------------------------------------------
(* Properties.                                                             *)

\* The names the app took: its commands, their aliases, its groups.
AppCmds == {p \in DOMAIN reg.cmds : reg.cmds[p].owner = "app"}
AppAliases == UNION {AliasPaths(p, reg.cmds[p]) : p \in AppCmds}

\* What the options ask the framework to add, by path.
Wanted ==
  LET under(group, leaves) == {push(group, l) : l \in leaves}
  IN {<<"chat">>, push(opts.ns, "spec"), <<"mcp", "install">>, <<"mcp", "list">>}
     \cup (IF opts.provider THEN under(<<"auth">>, {"login", "logout", "status", "token"}) ELSE {})
     \cup (IF opts.manifest THEN under(<<"config">>, {"show", "manifest", "profile", "refresh"}) ELSE {})
     \cup (IF opts.end_user /\ ~opts.withdrawn
           THEN under(<<"telemetry">>, {"status", "set", "info", "disable", "enable", "reset"}) ELSE {})
     \cup (IF opts.self # "none" /\ opts.end_user
           THEN under(push(opts.ns, "self"), {"install", "update", "rollback", "uninstall", "status"})
           ELSE {})
     \cup (IF opts.completion THEN {push(opts.ns, "completion")} ELSE {})
     \cup (IF opts.mcp THEN {<<"mcp", "serve">>} ELSE {})

\* The app took a name of a framework command, one above it or one below it.
\* A group above a framework command is no conflict unless the framework
\* makes that group itself. The namespace may be such a name, too: then one
\* framework command is below another.
FrameworkNames == Wanted \cup {push(opts.ns, "completions"), push(opts.ns, "doctor")}
Clash ==
  \E f \in FrameworkNames :
    \/ \E p \in AppCmds \cup AppAliases : p = f \/ p \in Ancestors(f) \/ f \in Ancestors(p)
    \/ \E g \in FrameworkNames : g \in Ancestors(f)
    \/ f \in mine
    \/ \E p \in mine : f \in Ancestors(p) \/ p \in {<<"auth">>, <<"config">>, <<"telemetry">>,
                                                    push(opts.ns, "self")}

\* Types of the state.
AppTypeOK ==
  /\ DOMAIN reg = {"cmds", "groups", "completion"}
  /\ \A p \in DOMAIN reg.cmds : reg.cmds[p].owner \in {"app", "framework"}
  /\ stage \in {"building", "refused", "built", "failed", "panicked"}
               \cup {Stages[i] : i \in 1 .. Len(Stages)}
  /\ sees.mcp \cup sees.completion \subseteq DOMAIN reg.cmds
  /\ last.exit \in {"none", "ok", "usage", "command"}

\* Whatever the order in which the app and the framework registered commands,
\* aliases and groups, a name means one thing: one command, under its path or
\* an alias, or a group, and nothing is registered under a command. (An alias
\* of several segments may name what its own command is under: register_at
\* looks at what was there before.)
RegistryUnambiguous ==
  LET names == DOMAIN reg.cmds \cup reg.groups
               \cup UNION {AliasPaths(c, reg.cmds[c]) : c \in DOMAIN reg.cmds}
               \cup UNION {Ancestors(c) : c \in DOMAIN reg.cmds}
      meanings(n) == {c \in DOMAIN reg.cmds : n = c \/ n \in AliasPaths(c, reg.cmds[c])}
  IN \A n \in names :
       /\ Cardinality(meanings(n)) <= 1
       /\ \A c \in meanings(n) :
            n \notin reg.groups /\ \A q \in DOMAIN reg.cmds \cup reg.groups : Below(n, q) => q = c

\* The command that runs is the one the words name, by its path or by an alias
\* next to it, and a word too many or an unknown one runs nothing. (Where the
\* app has no root command version, a command called version further down
\* gives way to the framework's version line.)
DispatchRunsTheNamedCommand ==
  LET words == last.argv.words
      named == {c \in DOMAIN reg.cmds :
                  \/ words = c
                  \/ \E a \in reg.cmds[c].aliases : Len(a) = 1 /\ words = Front(c) \o a}
      hidden == {c \in named : leaf(c) = "version" /\ ImplicitVersion(reg)}
  IN stage = "built" /\ last.argv.flag = "none" =>
       /\ \A c \in named \ hidden : ~reg.cmds[c].needs => last.ran = c /\ last.exit = "command"
       /\ last.exit = "command" => last.ran \in named

\* What the app and the chat command say of the variables, told before build or
\* declared by a command, cannot be listed.
Declared == UNION {reg.cmds[p].env : p \in AppCmds}
VariablesRefused ==
  (\E e \in Declared : EmptyEntry(e)) \/ ~Agree(env \cup Declared \cup ChatVariables)

\* An app that keeps clear of the framework's names builds, with every command
\* its options ask for, whatever it registered and in whatever order, unless
\* its configuration cannot be loaded, a probe or its self-install options are
\* refused, its manifest has a telemetry of its own or documents it with
\* blanks, its namespace is a command of its own, or the variables that it and
\* chat declare have a blank or two descriptions for one name; and none of
\* this is let pass.
ClearAppGetsItsCommands ==
  LET refused == \/ opts.config = "broken" \/ opts.probe = "duplicate" \/ opts.keys = "owned"
                 \/ opts.self = "invalid" \/ opts.ns \in AppCmds \/ VariablesRefused
                 \/ opts.keys = "blank" /\ ~Withdrawn
  IN \/ stage \in {"building", "refused"}
     \/ /\ stage # "panicked"
        /\ stage = "failed" => refused
        /\ stage = "built" => ~refused /\ Wanted \subseteq DOMAIN reg.cmds
     \/ Clash

\* Every variable that a command of the built app declares is listed with that
\* command's own description, no name is listed with two, and those that
\* telemetry reads are listed, in the app's words where it has any, unless
\* telemetry is withdrawn; nothing else is (register_commands,
\* register_if_absent).
VariablesAreListed ==
  stage = "built" =>
    /\ Agree(env) /\ \A e \in env : ~EmptyEntry(e)
    /\ \A p \in DOMAIN reg.cmds : reg.cmds[p].env \subseteq env
    /\ ~Withdrawn => \A h \in HelpVariables : \E e \in env : e.name = h.name
    /\ \A e \in env \ (Variables \cup ChatVariables) : ~Withdrawn /\ e \in HelpVariables

\* build panics instead of returning an error only over the names chat and
\* mcp, taken by the app or as the namespace.
PanicsOnlyOverChatAndMcp ==
  stage = "panicked" =>
    \E p \in AppCmds \cup AppAliases \cup mine \cup ({opts.ns} \ {<<>>}) :
      p[1] \in {"chat", "mcp"}

\* mcp serve and completion work on copies of the registry taken during build:
\* they know every command of the built app but the framework's ones under mcp
\* and completion itself.
SnapshotsAreComplete ==
  LET ours == DOMAIN reg.cmds \ AppCmds
  IN stage = "built" =>
       /\ <<"mcp", "serve">> \in ours =>
            \A p \in DOMAIN reg.cmds \ sees.mcp : p[1] = "mcp" /\ p \in ours
       /\ opts.completion =>
            \A p \in DOMAIN reg.cmds \ sees.completion :
              p \in ours /\ (p[1] = "mcp" \/ is_framework_completion(reg, p))

\* A deprecated telemetry configuration makes the app a service unless it
\* chose a deployment, and a service gets neither the telemetry nor the self
\* commands of an end user's app. (The namespace itself may be called
\* telemetry.)
ServiceHasNoEndUserCommands ==
  stage = "built" /\ ((opts.legacy /\ ~opts.explicit) \/ ~opts.end_user) =>
    \A p \in DOMAIN reg.cmds \ AppCmds :
      /\ p[1] = "telemetry" => p \in {push(opts.ns, c) : c \in {"spec", "doctor", "completion"}}
      /\ push(opts.ns, "self") \notin Ancestors(p)

\* What a completion script offers, the parser knows, but for groups that have
\* nothing in them.
CompletionOffersParse ==
  stage = "built" /\ last.exit = "none" =>
    \A p \in build_completion_model(reg) :
      (p \in DOMAIN reg.cmds \/ path_has_descendants(reg, p)) =>
        parse_with_clap(reg, [words |-> p, flag |-> "none"]).kind
          \in {"Parsed", "HelpShown", "E_MISSING_REQUIRED"}

\* What follows does not depend on what was registered; it is looked at before
\* anything is.
\* An argument is accepted by an MCP tool exactly when the tool's published
\* schema allows it, but for the values that Withheld and Unpublished name,
\* and an argument published by a name that is not looked up is never found
\* (to_json_schema_property against json_value_to_typed_map and
\* validate_typed_args).
SchemaIsExact ==
  calls = 0 /\ stage = "building" => \A a \in ArgSpecs, j \in JsonValues : SchemaExact(a, j)

\* The command line and MCP convert arguments in code of their own and share
\* the validation: a value is accepted on both or on neither, but for the
\* values that OnlyOnTheLine and OnlyByMcp name, which one of them refuses
\* (map_matches_to_typed_args, json_value_to_typed_map).
SurfacesAgree ==
  calls = 0 /\ stage = "building" => \A a \in ArgSpecs, given \in CommandLines : SurfacesAlike(a, given)

-----------------------------------------------------------------------------
(* What the run asks, by part.                                             *)

\* However commands, groups and aliases were registered, a command line runs
\* the one command it names (CommandRegistry, parse_with_clap).
OneCommandPerLine == AppTypeOK /\ RegistryUnambiguous /\ DispatchRunsTheNamedCommand

\* The app that build returns has what it was configured with, its own
\* commands and the framework's, wherever names meet (AppBuilder::build).
BuildIsComplete ==
  /\ ClearAppGetsItsCommands /\ VariablesAreListed /\ PanicsOnlyOverChatAndMcp /\ SnapshotsAreComplete
  /\ ServiceHasNoEndUserCommands /\ CompletionOffersParse

\* The command line, MCP and the published schema accept the same arguments,
\* but for exactly the disagreements that are named.
ArgumentsAreAlike == SchemaIsExact /\ SurfacesAgree
=============================================================================
