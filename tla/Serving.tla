------------------------------ MODULE Serving -------------------------------
(***************************************************************************)
(* The surfaces on which an application serves, commands as tools, the API *)
(* server and the doctor, and the secrets and plugins it keeps for them.   *)
(* They share no state, so a behaviour is one of either, by side; "rules"  *)
(* stands for what holds without one: the bridge, the resources, the       *)
(* memory of a chat, the routes, private files and the stores' answers.    *)
(***************************************************************************)
EXTENDS ToolCalls, ApiServer, Doctor, ChatTurns, Secrets, Plugins

VARIABLE side

kept == <<secrets, plugins, side>>
vars == <<toolcalls, api, doctor, kept>>

Init ==
  /\ side \in {"tools", "api", "doctor", "secrets", "plugins", "rules"}
  /\ ToolCallsInit /\ ApiInit /\ DoctorInit /\ SecretsInit /\ PluginsInit
  /\ side # "tools" => \A u \in Identities : grants[u] = <<>>
  /\ side # "api" => ~probe.on
  /\ pid[CHOOSE w \in Writers : TRUE] = 1       \* which process is which says nothing
  /\ side # "secrets" => os = "unix" /\ target = NoFile /\ \A w \in Writers : pid[w] = 1
  /\ side # "plugins" => saved = <<>>

Next ==
  \/ side = "tools" /\ ToolCallsNext /\ UNCHANGED <<api, doctor, kept>>
  \/ side = "api" /\ ApiNext /\ UNCHANGED <<toolcalls, doctor, kept>>
  \/ side = "doctor" /\ DoctorNext /\ UNCHANGED <<toolcalls, api, kept>>
  \/ side = "secrets" /\ SecretsNext /\ UNCHANGED <<toolcalls, api, doctor, plugins, side>>
  \/ side = "plugins" /\ PluginsNext /\ UNCHANGED <<toolcalls, api, doctor, secrets, side>>

\* Tasks of the runtime make progress, a command ends, fails or panics, the
\* lock of stdio is handed to whoever waits longest, and the application's
\* readiness check answers.
Fairness ==
  /\ \A c \in Calls : WF_vars(side = "tools" /\ Proceed(c) /\ UNCHANGED <<api, doctor, kept>>)
                      /\ SF_vars(side = "tools" /\ Acquire(c) /\ UNCHANGED <<api, doctor, kept>>)
  /\ WF_vars(side = "api" /\ Shutdown /\ UNCHANGED <<toolcalls, doctor, kept>>)
  /\ WF_vars(side = "api" /\ readyz /\ UNCHANGED <<toolcalls, doctor, kept>>)
  /\ WF_vars(side = "api" /\ ReadinessReport /\ UNCHANGED <<toolcalls, doctor, kept>>)
  /\ \A r \in Requests : WF_vars(side = "api" /\ Answer(r) /\ UNCHANGED <<toolcalls, doctor, kept>>)
Spec == Init /\ [][Next]_vars /\ Fairness

-----------------------------------------------------------------------------
(* Properties.                                                             *)

\* The types; that the lock of stdio is a call's that is under way is part of
\* them.
TypeOK ==
  /\ server.phase \in {"configured", "refused", "serving"}
  /\ guard = Unlocked \/ (guard \in Calls /\ call[guard].pc \notin {"none", "lock", "done"})
  /\ \A c \in Calls : call[c].id # "" <=> call[c].could # {}
  /\ task \in {"waiting", "signalled", "unready", "cancelled", "sent"}
  /\ running \subseteq DOMAIN entry.ids

-----------------------------------------------------------------------------
(* What holds whatever the state.                                          *)

Before == side = "rules"

Policies == [tiers : {[c \in {} |-> ""], [c \in {"c"} |-> "Safe"], [c \in {"c"} |-> "Destructive"]},
             default_tier : {"Safe", "Sensitive"}]
Categories == {"admin", "destructive", "data", "config", "deployment", "ops"}
Environment == [interactive : BOOLEAN, allow_destructive : BOOLEAN]
Consent ==
  \A policy \in Policies, category \in Categories, yolo \in BOOLEAN,
     env \in Environment, answer \in {"yes", "no"} :
    LET confirmation == ChatConfirmation(yolo, env.interactive)
        tier == classify(policy, "c", category)
        said == confirmation = "AssumeYes" \/ (confirmation = "InteractiveStdin" /\ answer = "yes")
    IN invoke_interactive(tier, confirmation, env, answer) = "ok" =>
         /\ tier # "Safe" => said
         /\ tier = "Destructive" => env.allow_destructive /\ env.interactive
         /\ (category \in {"admin", "destructive", "deployment"} /\ policy.tiers # [c \in {"c"} |-> "Safe"])
              => env.allow_destructive

\* A command runs on the interactive surfaces only with the consent its tier
\* asks for: a destructive one in an environment that allows it and a terminal,
\* whatever was said beforehand, and what is not safe only after a yes
\* (CommandRiskPolicy::classify, enforce_preflight, invoke_interactive,
\* McpHostToolAdapter::call_tool).
DestructiveNeedsConsent == Before => Consent

\* How mcp serve reads the words that follow the program's name.
Words(args) ==
  [transport |-> IF \E i \in DOMAIN args : args[i] = "--transport" /\ args[i + 1] = "stdio" THEN "stdio" ELSE "http",
   address |-> FALSE, port |-> "number"]
InstallArgs == [stdio : BOOLEAN, url : {"", "http://elsewhere"}, address : {"default", "own"},
                arg : {<<>>, <<"serve-mine">>}]
Installs ==
  \A given \in InstallArgs :
    LET told == run_mcp_install(parse_mcp_install_args(given))
    IN /\ given.stdio /\ given.arg = <<>> =>
            ~Refused(Words(told.args)) /\ Words(told.args).transport = "stdio"
       /\ ~given.stdio /\ given.url = "" => told.url = given.address

\* An agent that was told of the server by mcp install reaches it: the words it
\* starts are a mcp serve that talks on its pipes, the address is the one that
\* mcp serve has under the same options (parse_mcp_install_args,
\* run_mcp_install, create_mcp_serve_command).
InstalledServerIsReached == Before => Installs

Uris == {<<"a">>, <<"a", "b">>, <<"a", "b", "c">>, <<"d">>}
Registrations == [1 .. 3 -> {<<"a">>, <<"a", "b">>, <<"a", "b", "c">>}]
Registered3(s) ==
  LET after[n \in 0 .. 3] == IF n = 0 THEN <<>> ELSE register_prefix(after[n - 1], s[n], n)
  IN after[3]
Resources ==
  \A s \in Registrations, exact \in {[u \in {} |-> 0], [u \in {<<"a", "b">>} |-> 9]}, uri \in Uris :
    LET fit == {n \in 1 .. 3 : StartsWith(uri, s[n])}
        best == {n \in fit : \A m \in fit : Len(s[m]) < Len(s[n]) \/ (Len(s[m]) = Len(s[n]) /\ m <= n)}
    IN read(exact, Registered3(s), uri) = IF uri \in DOMAIN exact THEN {exact[uri]} ELSE best

\* A resource is read from its exact entry, else from the longest prefix that
\* fits, the last registered of it, whatever the order of the registrations
\* (ResourceRegistry).
MostSpecificIsRead == Before => Resources

Steps == {[calls |-> <<>>, results |-> <<>>, text |-> "t"]} \cup
         {[calls |-> calls, results |-> r, text |-> "u"] :
            calls \in {<<1>>, <<1, 2>>, <<2, 1>>}, r \in UNION {[ids -> {"x", "y"}] : ids \in SUBSET {1, 2}}}
WellFormed == {s \in Steps : DOMAIN s.results \subseteq {s.calls[i] : i \in DOMAIN s.calls}}
Orders(s) == {o \in UNION {[1 .. n -> DOMAIN s.results] : n \in {Cardinality(DOMAIN s.results)}} :
                \A i, j \in DOMAIN o : o[i] = o[j] => i = j}
Memory ==
  \A one, two \in WellFormed :
    \A a \in Orders(one), b \in Orders(two) :
      LET events == StepEvents(one, a) \o StepEvents(two, b)
          last == SubSeq(events, 1, Len(events) - 1)
          expected == <<Turn("user", <<>>, <<"p">>)>> \o StepTurns(one) \o StepTurns(two)
      IN turns_from_events("p", events) = expected /\ turns_from_events("p", last) = expected

\* What the model is told of a turn: each step's calls, directly followed by
\* one result per call, that of the same step or an error, although the calls
\* of two steps may have the same id, some have no result and the last step was
\* not closed (turns_from_events).
EveryCallHasItsResult == Before => Memory

ApiPaths ==
  {<<>>, <<"api">>, <<"api", "v1">>, <<"api", "v1", "x">>, <<"api", "v2beta1">>, <<"api", "x">>, <<"api", "docs">>,
   <<"api", "v1", "openapi.json">>, <<"healthz">>, <<"readyz">>, <<"mcp", "x">>, <<"m">>, <<"m", "x">>, <<"n">>}
MountPaths == {<<>>, <<"m">>, <<"m", "x">>, <<"api", "x">>, <<"api", "v1", "x">>, <<"healthz">>, <<"mcp", "x">>}
Mounts == {[form |-> "absolute", path |-> p] : p \in MountPaths} \cup {[form |-> "trailing", path |-> <<"m">>]}
Configs ==
  [versions : {{}, {"v1"}, {"v1", "v2beta1"}, {"docs"}, {"x"}}, default_version : {"None", "v1", "v2beta1"},
   mounts : {{}} \cup {{m, n} : m, n \in Mounts}, reserved : {{}, {<<"k">>}, {<<"mcp", "k">>}}, auth : BOOLEAN, mcp : BOOLEAN,
   protect_health : {FALSE}, openapi : {{}, {"v1"}}, root_fallback : BOOLEAN]
Documented(c, path) ==
  /\ c.openapi \cap c.versions # {}
  /\ path = <<"api", "docs">> \/ (path = <<"api", "v1", "openapi.json">> /\ "v1" \in c.openapi)
\* Which handler a path belongs to.
Owner(c, path) ==
  CASE path = <<>> -> IF c.root_fallback THEN "fallback" ELSE "404"
    [] path # <<>> /\ path[1] = "api" ->
         IF Documented(c, path) THEN "docs"
         ELSE IF Len(path) > 1 /\ path[2] \in c.versions THEN path[2] ELSE "unversioned"
    [] path # <<>> /\ path[1] \in {"healthz", "readyz"} -> path[1]
    [] path # <<>> /\ path[1] = "mcp" /\ c.mcp -> "mcp"
    [] OTHER -> IF \E m \in c.mounts : is_prefix_path(m.path, path) THEN "mount"
                ELSE IF c.root_fallback THEN "fallback" ELSE "404"
Apart ==
  \A c \in Configs : build(c) = "ok" =>
    \A path \in ApiPaths :
      LET h == Route(c, path)
      IN /\ h.name = Owner(c, path)
         /\ c.auth /\ h.name \notin {"unversioned", "fallback", "404", "healthz", "readyz"} => h.auth
         /\ h.name = "unversioned" => handle_unversioned(c, path).name \in {"404", "docs", c.default_version}

\* In every server that build accepts each path reaches the handler it belongs
\* to: no mount takes a path of the API, of a version or of the probes, what a
\* version or a mount answers is behind the auth layer, and the redirect of a
\* path without a version ends at the default version
\* (ApiServerBuilder::build, handle_unversioned).
RoutesAreApart == Before => Apart

Descriptors ==
  LET aces == [kind : {"allow", "deny"}, sid : {"user", "system", "administrators", "other"},
               mask : {{"read"}, {"write"}, {"read", "write"}}]
  IN [owner : {"user", "other"}, protected : BOOLEAN, dacl : UNION {[1 .. n -> aces] : n \in 0 .. 2}]
\* Windows takes the first entry that speaks of the user and the right, and an
\* unprotected list goes on with what the directory grants.
Allows(d, sid, right) ==
  LET dacl == IF d.protected THEN d.dacl
              ELSE Append(d.dacl, [kind |-> "allow", sid |-> "other", mask |-> {"read"}])
      speak == {i \in DOMAIN dacl : dacl[i].sid = sid /\ right \in dacl[i].mask}
  IN speak # {} /\ dacl[CHOOSE i \in speak : \A j \in speak : i <= j].kind = "allow"
Private ==
  /\ validate_descriptor(Created)
  /\ \A d \in Descriptors : validate_descriptor(d) =>
       /\ d.owner = "user" /\ Allows(d, "user", "read")
       /\ ~Allows(d, "other", "read") /\ ~Allows(d, "other", "write")
  /\ \A meta \in [regular : BOOLEAN, owner : {"user", "other"}, others : SUBSET {"group", "world"}] :
       validate(meta) => meta.regular /\ meta.owner = "user" /\ "world" \notin meta.others

StoreOps == [op : {"put"}, key : {<<"a">>, <<"b", "c">>}, value : {"x", "y"}] \cup
            [op : {"get", "delete"}, key : {<<"a">>, <<"b", "c">>}, value : {"none"}]
\* The answers of a store, which begins empty, to three operations.
Answered(Store(_, _, _, _), ops) ==
  LET after[n \in 0 .. 3] == IF n = 0 THEN Returns("none", [k \in {} |-> ""])
                             ELSE Store(ops[n].op, ops[n].key, ops[n].value, after[n - 1].holds)
  IN [n \in 1 .. 3 |-> after[n].result]
Alike ==
  \A ops \in [1 .. 3 -> StoreOps] :
    LET plain(op, k, v, s) == env_file(op, k, v, s, [e \in {} |-> ""])
    IN /\ Answered(plain, ops) = Answered(in_memory, ops)
       /\ Answered(keychain, ops) = Answered(in_memory, ops)
       /\ Answered(openbao, ops) = Answered(in_memory, ops)
Replies == {[kind |-> "failure", error |-> e] : e \in {"connect", "timeout", "decode"}} \cup
           [kind : {"status"}, status : {200, 401, 403, 404, 429, 503}, body : {"null", "garbled", "x"}]
Absent ==
  \A reply \in Replies : openbao_get(reply) = "NotFound" \/ openbao_delete(reply) = "ok" =>
    reply.kind = "status" /\ reply.status \in {200, 404}

\* A file that passes for private is the user's and nobody unprivileged can
\* read or write it (validate, validate_descriptor, validate_dacl), what
\* create_new_private makes passes, the four kinds of store answer alike as
\* long as the environment, prefixes of keys and bytes that are no text stay out
\* of it, and no outage of OpenBao is taken for an absent secret.
StoresAreAlike == Before => Private /\ Alike /\ Absent

-----------------------------------------------------------------------------
(* What the run asks, by part.                                             *)

\* Calls of tools do not touch each other: one at a time on stdio, each runs
\* what its caller's list has and the gate let through, each answer is its own
\* (CliFrameworkHandler, dispatch_tool_call_with_identity, invoke_inner).
CallsAreApart == TypeOK /\ StdioIsSerial /\ RunsWhatIsListed /\ GateIsPassed /\ OutputIsOwn

\* From the signal to its end the server neither refuses a request of a
\* balancer that probes nor leaves one unanswered (serve_with_listener).
NothingIsDropped == NoRequestIsRefused /\ TakenIsAnswered

\* The doctor's report has every finding in its place, whichever checks panic
\* and in whatever order they end, and at most one per place (DoctorRunner).
FindingsSurvive ==
  Len(report.findings) <= Len(slots) /\ NormalFindingsSurvive /\ RunAllAttributesPanics

\* The rules without a state: consent, resources, a chat's memory, routes, the
\* registration of the server with an agent, private files and the stores.
SurfaceRules ==
  /\ DestructiveNeedsConsent /\ MostSpecificIsRead /\ EveryCallHasItsResult
  /\ RoutesAreApart /\ InstalledServerIsReached /\ StoresAreAlike

\* Secrets are whole and plugins loaded only when enabled, through kills,
\* failures and every order of operations (replace_private,
\* PluginRegistryManager).
KeptIsSound == SecretIsWhole /\ LoadedIsEnabled

\* Every call is answered and every signal ends the server.
EveryoneIsServed == EveryCallIsAnswered /\ SignalEndsServer
=============================================================================
