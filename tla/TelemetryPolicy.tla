--------------------------- MODULE TelemetryPolicy ---------------------------
(***************************************************************************)
(* What telemetry may send, as pure functions: levels, probes, the layers  *)
(* a level comes from, the notice, the redaction of spans and metrics, and *)
(* what the telemetry commands and doctor checks say about all of it.      *)
(***************************************************************************)
EXTENDS Integers, Sequences, FiniteSets

CONSTANTS
  None,        \* an absent optional value
  InstallIds,  \* install ids that may be minted
  OpsProbes    \* probes the author registers with with_telemetry_ops

(***************************************************************************)
(* Axes                                                                    *)
(***************************************************************************)
Deployments == {"end_user", "service"}
Off == 0
Usage == 1
Diagnostic == 2
Debug == 3
TelemetryLevel == Off..Debug
OptLevel == TelemetryLevel \cup {None}
Attribution == {"anonymous", "pseudonymous", "identified"}
OptAttribution == Attribution \cup {None}
ASSUME NoneAssumption == None \notin TelemetryLevel /\ None \notin Attribution

(***************************************************************************)
(* Probes; an id is the sequence of its segments                           *)
(***************************************************************************)
UsageProbes ==
  { <<"cli", "process">>, <<"cli", "command">>, <<"cli", "usage_error">>,
    <<"cli", "panic">>, <<"cli", "help">>, <<"cli", "feature">>,
    <<"cli", "auth">>, <<"cli", "doctor">>, <<"cli", "chat">>,
    <<"http", "server">>, <<"mcp", "session">> }
DiagnosticProbes ==
  { <<"cli", "command", "args">>, <<"cli", "config">>, <<"cli", "secrets">>,
    <<"cli", "plugin">>, <<"http", "client">>,
    <<"http", "client", "server_address">> }
DebugProbes ==
  { <<"cli", "command", "arg_values">>, <<"cli", "usage_error", "token">>,
    <<"cli", "panic", "message">> }
BUILTIN_PROBES == UsageProbes \cup DiagnosticProbes \cup DebugProbes

RESERVED_FIRST_SEGMENTS ==
  {"level", "attribution", "install_id", "notice_shown", "endpoint", "traces", "metrics", "logs"}
OWNED_PROBE_LEAF == "enabled"

\* An author's id collides neither with the other keys of the telemetry section
\* nor with the switch that a probe's own section holds in the manifest; the
\* registry refuses a duplicate.
validate_probe_id(id) ==
  /\ Len(id) > 0 /\ id[1] \notin RESERVED_FIRST_SEGMENTS
  /\ \A i \in 2..Len(id) : id[i] # OWNED_PROBE_LEAF
register(registry, id) == validate_probe_id(id) /\ id \notin registry
ASSUME OpsProbesAreRegistered ==
  \A id \in OpsProbes : id \in Seq(STRING) /\ register(BUILTIN_PROBES, id)

\* ProbeRegistry::with_builtins, and the builder's telemetry_registry.
with_builtins == BUILTIN_PROBES
telemetry_registry == with_builtins \cup OpsProbes

min_level(probe) ==
  IF probe \in DebugProbes THEN Debug
  ELSE IF probe \in DiagnosticProbes THEN Diagnostic ELSE Usage

\* A registered prefix that is switched off takes everything below it along.
effective(registry, level, disabled, probe) ==
  /\ probe \in registry
  /\ level # Off /\ level >= min_level(probe)
  /\ \A n \in 1..Len(probe) :
       LET prefix == SubSeq(probe, 1, n)
       IN prefix \in registry => prefix \notin disabled

(***************************************************************************)
(* Settings, environment, policy                                           *)
(***************************************************************************)
\* TelemetrySettings; off holds the probes stored as false.
Settings == [level : OptLevel, attribution : OptAttribution, endpoint : BOOLEAN,
             install_id : InstallIds \cup {None}, notice_shown : OptLevel,
             off : SUBSET telemetry_registry]
DefaultSettings == [level |-> None, attribution |-> None, endpoint |-> FALSE,
                    install_id |-> None, notice_shown |-> None, off |-> {}]

\* EnvScan: the variables that match a leaf of the published manifest, by what
\* they say; unmatched counts the misspelt ones.  A value that does not parse
\* says nothing.
EnvScan == [level : OptLevel, attribution : OptAttribution, endpoint : BOOLEAN,
            on : SUBSET telemetry_registry, off : SUBSET telemetry_registry,
            unmatched : 0..1]
EmptyEnv == [level |-> None, attribution |-> None, endpoint |-> FALSE,
             on |-> {}, off |-> {}, unmatched |-> 0]

\* How one run of the application was built and started.  with_telemetry is the
\* deprecated configuration that bypasses the policy; withdrawn is
\* without_end_user_telemetry.
StartupInputs ==
  [deployment : Deployments, kill_switch : BOOLEAN, with_telemetry : BOOLEAN,
   withdrawn : BOOLEAN, endpoint : BOOLEAN, store : BOOLEAN, tty : BOOLEAN,
   env : EnvScan, allowlist : SUBSET {"author.attr"}]

\* TelemetryInputs as telemetry_inputs builds them, before any file is read.
telemetry_inputs(in) ==
  [config_file |-> None, environment |-> None, endpoint |-> in.endpoint,
   attribution |-> "pseudonymous", install_id |-> None, off |-> {}, store_available |-> FALSE]

fold_store(base, in, s) ==
  [base EXCEPT !.config_file = s.level,
               !.attribution = IF s.attribution = None THEN @ ELSE s.attribution,
               !.endpoint = @ \/ s.endpoint,
               !.install_id = s.install_id,
               !.off = s.off,
               !.store_available = in.store]

\* The environment overrides the file key by key; install_id and notice_shown
\* are not taken from it.
fold_environment(base, env) ==
  [base EXCEPT !.environment = env.level,
               !.attribution = IF env.attribution = None THEN @ ELSE env.attribution,
               !.endpoint = @ \/ env.endpoint,
               !.off = (@ \ env.on) \cup env.off]

\* Mutant: an inherited variable counts for an end user's app too.
FoldLayersUnclamped(default, base, clamped) ==
  IF base.environment # None THEN [level |-> base.environment, source |-> "environment"]
  ELSE IF base.config_file # None THEN [level |-> base.config_file, source |-> "config_file"]
  ELSE [level |-> default, source |-> "default"]

\* Nothing in this repository sets the recommended and builder_override layers.
fold_layers(default, base, clamped) ==
  IF ~clamped /\ base.environment # None
    THEN [level |-> base.environment, source |-> "environment"]
  ELSE IF base.config_file # None
    THEN [level |-> base.config_file, source |-> "config_file"]
  ELSE [level |-> default, source |-> "default"]

\* On an end user's machine the environment may lower the level, never raise it.
resolve_level(deployment, kill_switch, base) ==
  LET default == IF deployment = "end_user" \/ ~base.endpoint THEN Off ELSE Diagnostic
      full == fold_layers(default, base, FALSE)
      restricted == fold_layers(default, base, TRUE)
  IN IF kill_switch THEN [level |-> Off, source |-> "enforced"]
     ELSE IF deployment = "end_user" /\ restricted.level < full.level
       THEN restricted ELSE full

resolve_policy(deployment, kill_switch, base) ==
  LET lv == resolve_level(deployment, kill_switch, base)
      attribution == IF base.store_available THEN base.attribution ELSE "anonymous"
  IN [deployment |-> deployment, kill_switch |-> kill_switch,
      level |-> lv.level, source |-> lv.source, attribution |-> attribution,
      endpoint |-> base.endpoint, off |-> base.off,
      install_id |-> IF attribution = "anonymous" THEN None ELSE base.install_id]
TelemetryPolicies ==
  [deployment : Deployments, kill_switch : BOOLEAN, level : TelemetryLevel,
   source : {"default", "config_file", "environment", "enforced"},
   attribution : Attribution, endpoint : BOOLEAN, off : SUBSET telemetry_registry,
   install_id : InstallIds \cup {None}]

exports(pol) == ~pol.kill_switch /\ pol.level > Off /\ pol.endpoint
policy_effective(pol, probe) == effective(telemetry_registry, pol.level, pol.off, probe)
sampler_is_always_on(pol) == pol.deployment = "end_user" \/ pol.level = Debug

\* The level to announce, or None; a run started by startup_inputs is on the
\* command line.
notice_decision(pol, notice_shown, tty) ==
  IF pol.deployment = "service" \/ pol.kill_switch \/ ~tty THEN None
  ELSE IF pol.level = Off THEN IF notice_shown = None THEN Off ELSE None
  ELSE IF pol.source = "config_file" THEN None
  ELSE IF notice_shown # None /\ pol.level <= notice_shown THEN None
  ELSE pol.level

(***************************************************************************)
(* Spans, metrics and what redaction leaves of them                        *)
(***************************************************************************)
\* Attributes by the class of their key.
ArgNames == "cli.command.arg_names"
InstallId == "cli.install.id"
SessionId == "session.id"
Labels == {"command", "surface", "status"}
PanicLocation == "panic.location"
PanicMessage == "panic.message"
AuthorAttr == "author.attr"    \* the author's own key
TokenAttr == "author.token"    \* contains a never-listed fragment

NEVER_LIST == {TokenAttr}
ELEVATED == [Diagnostic |-> {ArgNames}, Debug |-> {PanicMessage}]
is_never_listed(key) == key \in NEVER_LIST
is_framework_key(key) == key \notin {AuthorAttr, TokenAttr}
attribute_min_level(key) ==
  IF key \in ELEVATED.Debug THEN Debug
  ELSE IF key \in ELEVATED.Diagnostic THEN Diagnostic ELSE Usage
metric_label_is_allowed(key) == key \in Labels

keeps_attribute(level, allowlist, key) ==
  /\ ~is_never_listed(key)
  /\ level # Off
  /\ is_framework_key(key) \/ key \in allowlist
  /\ level >= attribute_min_level(key)

\* What the root span of a command starts with and what is recorded in it when
\* the handler has returned; only then does it name its probe.
root_span == [probe |-> None, events |-> {}, attrs |-> {ArgNames}]
command_span_attrs(pol) ==
  {SessionId} \cup Labels \cup IF pol.install_id = None THEN {} ELSE {InstallId}
command_metric_labels == Labels
\* What the author's own code may have added meanwhile.
AuthorAttrs == {AuthorAttr, TokenAttr}

\* The panic hook writes an event into the open span.
panic_event(pol) ==
  [probe |-> <<"cli", "panic">>,
   attrs |-> {PanicLocation} \cup
             IF policy_effective(pol, <<"cli", "panic", "message">>) THEN {PanicMessage} ELSE {}]

span_verdict(pol, probe) == probe # None /\ policy_effective(pol, probe)
redact_span(pol, allowlist, s) ==
  LET retain(attrs) == {k \in attrs : keeps_attribute(pol.level, allowlist, k)}
  IN [s EXCEPT !.attrs = retain(@),
               !.events = {[e EXCEPT !.attrs = retain(@)] :
                             e \in {e \in s.events : span_verdict(pol, e.probe)}}]
filter(pol, allowlist, batch) ==
  {redact_span(pol, allowlist, s) : s \in {s \in batch : span_verdict(pol, s.probe)}}

\* The view of build_meter_provider_from_policy.
view(labels) == {k \in labels : metric_label_is_allowed(k)}

(***************************************************************************)
(* What telemetry status, info and doctor say                              *)
(***************************************************************************)
\* build_policy reads the file again and leaves everything else at its default:
\* an end-user deployment without environment variables.
build_policy(kill_switch, store, s) ==
  LET base == fold_store(telemetry_inputs([endpoint |-> FALSE]), [store |-> store], s)
  IN resolve_policy("end_user", kill_switch, base)

status_report(pol) ==
  [level |-> pol.level, source |-> pol.source, attribution |-> pol.attribution,
   install_id |-> pol.install_id,
   effective |-> {p \in with_builtins : effective(with_builtins, pol.level, pol.off, p)}]

\* The report run_startup leaves behind; the outcome of the subscriber is
\* Installed unless a foreign one was met; under a kill switch neither the
\* store nor the environment was looked at.
startup_report(in, foreign) ==
  [foreign |-> foreign, store |-> in.store /\ ~in.kill_switch,
   unmatched |-> IF in.kill_switch THEN 0 ELSE in.env.unmatched]
Reports == [foreign : BOOLEAN, store : BOOLEAN, unmatched : 0..1]
ASSUME ReportAssumption == None \notin Reports

awaiting_startup == "skipped"
SubscriberCheck(report) ==
  IF report = None THEN awaiting_startup ELSE IF report.foreign THEN "warning" ELSE "ok"
StoreCheck(report) ==
  IF report = None THEN awaiting_startup ELSE IF report.store THEN "ok" ELSE "warning"
EnvCheck(report) ==
  IF report = None THEN awaiting_startup ELSE IF report.unmatched = 0 THEN "ok" ELSE "warning"
EndpointCheck(pol, reached) ==
  IF ~pol.endpoint THEN "skipped" ELSE IF reached THEN "ok" ELSE "warning"
PolicyCheck == "skipped"
IdentityCheck(pol) == pol.attribution
telemetry_checks(pol, report, reached) ==
  [subscriber |-> SubscriberCheck(report), store |-> StoreCheck(report),
   endpoint |-> EndpointCheck(pol, reached), policy |-> PolicyCheck,
   identity |-> IdentityCheck(pol), env |-> EnvCheck(report)]
=============================================================================
