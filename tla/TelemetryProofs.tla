-------------------------- MODULE TelemetryProofs --------------------------
(***************************************************************************)
(* What leaves a machine, for every value of the constants: any number of  *)
(* processes and runs, any settings files, any commands and environments.  *)
(***************************************************************************)
EXTENDS Telemetry, TLAPS

-----------------------------------------------------------------------------
(* Probes and levels.                                                      *)

\* Every probe is a sequence of at least one segment.
LEMMA ProbesHaveSegments ==
  \A id \in telemetry_registry : Len(id) \in Nat /\ Len(id) > 0
<1>1. \A a, b : Len(<<a, b>>) = 2
  OBVIOUS
<1>2. \A a, b, c : Len(<<a, b, c>>) = 3
  OBVIOUS
<1>3. \A id \in UsageProbes : Len(id) \in Nat /\ Len(id) > 0
  BY <1>1 DEF UsageProbes
<1>4. \A id \in DiagnosticProbes : Len(id) \in Nat /\ Len(id) > 0
  BY <1>1, <1>2 DEF DiagnosticProbes
<1>5. \A id \in DebugProbes : Len(id) \in Nat /\ Len(id) > 0
  BY <1>2 DEF DebugProbes
<1>6. \A id \in OpsProbes : Len(id) \in Nat /\ Len(id) > 0
  BY OpsProbesAreRegistered DEF register, validate_probe_id
<1> QED BY <1>3, <1>4, <1>5, <1>6 DEF telemetry_registry, with_builtins, BUILTIN_PROBES

\* No probe that was switched off, nor one below it, is effective.
LEMMA OffIsOff ==
    ASSUME NEW off \in SUBSET telemetry_registry, NEW level, NEW probe,
           effective(telemetry_registry, level, off, probe), NEW o \in off
    PROVE  ~(Len(o) <= Len(probe) /\ SubSeq(probe, 1, Len(o)) = o)
<1> SUFFICES ASSUME Len(o) <= Len(probe), SubSeq(probe, 1, Len(o)) = o
             PROVE  FALSE
  OBVIOUS
<1>1. probe \in telemetry_registry /\ o \in telemetry_registry
  BY DEF effective
<1>2. Len(o) \in 1 .. Len(probe)
  BY <1>1, ProbesHaveSegments
<1> QED BY <1>1, <1>2 DEF effective

-----------------------------------------------------------------------------
(* Policies.                                                               *)

Sources == {"default", "config_file", "environment", "enforced"}
Bases ==
  [config_file : OptLevel, environment : OptLevel, endpoint : BOOLEAN, attribution : Attribution,
   install_id : InstallIds \cup {None}, off : SUBSET telemetry_registry, store_available : BOOLEAN]

Consent(level) == IF level = None THEN Off ELSE level

LEMMA Levels == TelemetryLevel = 0 .. 3 /\ Off = 0 /\ OptLevel = (0 .. 3) \cup {None}
BY DEF TelemetryLevel, OptLevel, Off, Debug

\* On an end user's machine no level exceeds the consent on file, and under a
\* kill switch there is none.
LEMMA LevelIsGranted ==
    ASSUME NEW d \in Deployments, NEW k \in BOOLEAN, NEW base \in Bases,
           NEW lv, lv = resolve_level(d, k, base)
    PROVE  /\ lv.level \in TelemetryLevel /\ lv.source \in Sources
           /\ k => lv.level = Off
           /\ d = "end_user" => lv.level <= Consent(base.config_file)
<1> DEFINE default == IF d = "end_user" \/ ~base.endpoint THEN Off ELSE Diagnostic
           full == fold_layers(default, base, FALSE)
           restricted == fold_layers(default, base, TRUE)
<1>1. default \in 0 .. 3 /\ (d = "end_user" => default = 0)
  BY Levels DEF Diagnostic
<1>2. base.config_file \in OptLevel /\ base.environment \in OptLevel
  BY DEF Bases
<1> HIDE DEF default
<1>3. full.level \in 0 .. 3 /\ full.source \in Sources
  BY <1>1, <1>2, Levels DEF fold_layers, Sources
<1>4. restricted.level \in 0 .. 3 /\ restricted.source \in Sources
  BY <1>1, <1>2, Levels DEF fold_layers, Sources
<1>5. d = "end_user" => restricted.level <= Consent(base.config_file)
  BY <1>1, <1>2, Levels DEF fold_layers, Consent
<1>6. lv = IF k THEN [level |-> Off, source |-> "enforced"]
           ELSE IF d = "end_user" /\ restricted.level < full.level THEN restricted ELSE full
  BY DEF resolve_level, default
<1> HIDE DEF full, restricted
<1>7. CASE k
  <2>1. lv.level = Off /\ lv.source = "enforced"
    BY <1>6, <1>7
  <2> QED BY <1>2, <2>1, <1>7, Levels DEF Sources, Consent
<1>8. CASE ~k
  <2>1. lv = restricted \/ lv = full
    BY <1>6, <1>8
  <2>2. d = "end_user" => lv.level <= restricted.level
    BY <1>3, <1>4, <1>6, <1>8
  <2>3. Consent(base.config_file) \in 0 .. 3
    BY <1>2, Levels DEF Consent
  <2> QED BY <1>3, <1>4, <1>5, <1>8, <2>1, <2>2, <2>3, Levels
<1> QED BY <1>7, <1>8

\* What a policy takes from its inputs.
LEMMA PolicyResolved ==
    ASSUME NEW d \in Deployments, NEW k \in BOOLEAN, NEW base \in Bases,
           NEW pol, pol = resolve_policy(d, k, base)
    PROVE  /\ pol \in TelemetryPolicies /\ pol.deployment = d /\ pol.kill_switch = k
           /\ pol.off = base.off
           /\ k => pol.level = Off
           /\ d = "end_user" => pol.level <= Consent(base.config_file)
           /\ pol.attribution # "anonymous" => base.store_available /\ pol.attribution = base.attribution
           /\ pol.install_id # None => pol.attribution # "anonymous"
<1> PICK lv : lv = resolve_level(d, k, base)
  OBVIOUS
<1>1. /\ lv.level \in TelemetryLevel /\ lv.source \in Sources
      /\ k => lv.level = Off
      /\ d = "end_user" => lv.level <= Consent(base.config_file)
  BY LevelIsGranted
<1> PICK a : a = IF base.store_available THEN base.attribution ELSE "anonymous"
  OBVIOUS
<1>2. pol = [deployment |-> d, kill_switch |-> k, level |-> lv.level, source |-> lv.source,
             attribution |-> a, endpoint |-> base.endpoint, off |-> base.off,
             install_id |-> IF a = "anonymous" THEN None ELSE base.install_id]
  BY DEF resolve_policy
<1>3. a \in Attribution /\ base.endpoint \in BOOLEAN /\ base.off \in SUBSET telemetry_registry
      /\ base.install_id \in InstallIds \cup {None}
  BY DEF Attribution, Bases
<1>4. pol.kill_switch = k
  BY <1>2
<1>5. pol \in TelemetryPolicies
  BY <1>1, <1>2, <1>3 DEF TelemetryPolicies, Sources
<1>6. a # "anonymous" => base.store_available /\ a = base.attribution
  OBVIOUS
<1>7. /\ pol.deployment = d /\ pol.off = base.off /\ pol.level = lv.level /\ pol.attribution = a
      /\ pol.install_id = IF a = "anonymous" THEN None ELSE base.install_id
  BY <1>2
<1> QED BY <1>1, <1>4, <1>5, <1>6, <1>7

\* The inputs of a policy: as the program was built, then with the settings and
\* the environment of the run.
LEMMA BuiltBase ==
    ASSUME NEW in, in.endpoint \in BOOLEAN, NEW base, base = telemetry_inputs(in)
    PROVE  /\ base \in Bases /\ base.off = {} /\ ~base.store_available
           /\ base.config_file = None /\ base.attribution = "pseudonymous"
BY DEF telemetry_inputs, Bases, OptLevel, Attribution

LEMMA StoreFolded ==
    ASSUME NEW base \in Bases, NEW in, in.store \in BOOLEAN, NEW s \in Settings,
           NEW folded, folded = fold_store(base, in, s)
    PROVE  /\ folded \in Bases /\ folded.off = s.off /\ folded.store_available = in.store
           /\ folded.config_file = s.level
           /\ folded.attribution = IF s.attribution = None THEN base.attribution ELSE s.attribution
<1>1. s.level \in OptLevel /\ s.attribution \in OptAttribution /\ s.endpoint \in BOOLEAN
      /\ s.install_id \in InstallIds \cup {None} /\ s.off \in SUBSET telemetry_registry
  BY DEF Settings
<1>2. folded.store_available = in.store
  BY Zenon DEF fold_store, Bases
<1>3. /\ folded.off = s.off /\ folded.config_file = s.level
      /\ folded.attribution = IF s.attribution = None THEN base.attribution ELSE s.attribution
      /\ folded.environment = base.environment /\ folded.install_id = s.install_id
  BY DEF fold_store, Bases
<1>4. folded \in Bases
  BY <1>1, <1>3 DEF fold_store, Bases, OptAttribution
<1> QED BY <1>2, <1>3, <1>4

LEMMA EnvironmentFolded ==
    ASSUME NEW base \in Bases, NEW env \in EnvScan, NEW folded, folded = fold_environment(base, env)
    PROVE  /\ folded \in Bases /\ folded.off = (base.off \ env.on) \cup env.off
           /\ folded.store_available = base.store_available
           /\ folded.config_file = base.config_file
           /\ folded.attribution = IF env.attribution = None THEN base.attribution ELSE env.attribution
<1>1. /\ env.level \in OptLevel /\ env.attribution \in OptAttribution /\ env.endpoint \in BOOLEAN
      /\ env.on \in SUBSET telemetry_registry /\ env.off \in SUBSET telemetry_registry
  BY DEF EnvScan
<1>2. folded.store_available = base.store_available
  BY Zenon DEF fold_environment, Bases
<1>3. /\ folded.off = (base.off \ env.on) \cup env.off /\ folded.config_file = base.config_file
      /\ folded.attribution = IF env.attribution = None THEN base.attribution ELSE env.attribution
  BY DEF fold_environment, Bases
<1>4. folded \in Bases
  BY <1>1, <1>3 DEF fold_environment, Bases, OptAttribution
<1> QED BY <1>2, <1>3, <1>4

-----------------------------------------------------------------------------
(* Spans and what redaction leaves of them.                                *)

Keys == {ArgNames, InstallId, SessionId, PanicLocation, PanicMessage, AuthorAttr, TokenAttr} \cup Labels
Events == [probe : {<<"cli", "panic">>}, attrs : SUBSET Keys]
Spans == [probe : {None, <<"cli", "command">>}, events : SUBSET Events, attrs : SUBSET Keys]

\* A span or an event that may leave under a policy.
Clean(pol, allowlist, x) ==
  /\ policy_effective(pol, x.probe)
  /\ \A k \in x.attrs : keeps_attribute(pol.level, allowlist, k)

LEMMA Redacted ==
    ASSUME NEW pol, NEW allowlist, NEW batch \in SUBSET Spans, NEW s \in filter(pol, allowlist, batch)
    PROVE  /\ s \in Spans /\ Clean(pol, allowlist, s)
           /\ \A e \in s.events : Clean(pol, allowlist, e)
           /\ \E t \in batch : /\ s.attrs \subseteq t.attrs
                              /\ \A e \in s.events : \E f \in t.events : e.attrs \subseteq f.attrs
<1> DEFINE retain(attrs) == {k \in attrs : keeps_attribute(pol.level, allowlist, k)}
<1> PICK t \in batch : span_verdict(pol, t.probe) /\ s = redact_span(pol, allowlist, t)
  BY DEF filter
<1>1. t \in Spans
  OBVIOUS
<1> PICK events : events = {[e EXCEPT !.attrs = retain(@)] : e \in {e \in t.events : span_verdict(pol, e.probe)}}
  OBVIOUS
<1>2. s = [t EXCEPT !.attrs = retain(@), !.events = events]
  BY DEF redact_span
<1>3. s.probe = t.probe /\ s.attrs = retain(t.attrs) /\ s.events = events
  BY <1>1, <1>2 DEF Spans
<1>4. ASSUME NEW e \in events
      PROVE  /\ e \in Events /\ Clean(pol, allowlist, e)
             /\ \E f \in t.events : e.attrs \subseteq f.attrs
  <2> PICK f \in t.events : span_verdict(pol, f.probe) /\ e = [f EXCEPT !.attrs = retain(@)]
    BY <1>4
  <2>1. f \in Events
    BY <1>1 DEF Spans
  <2>2. e \in Events /\ e.probe = f.probe /\ e.attrs = retain(f.attrs)
    BY <2>1 DEF Events
  <2> QED BY <2>2 DEF Clean, span_verdict
<1>5. s \in Spans
  <2>1. retain(t.attrs) \in SUBSET Keys
    BY <1>1 DEF Spans
  <2>2. events \in SUBSET Events
    BY <1>4
  <2> HIDE DEF retain
  <2> QED BY <1>1, <1>2, <2>1, <2>2 DEF Spans
<1>6. Clean(pol, allowlist, s)
  BY <1>3 DEF Clean, span_verdict
<1> QED BY <1>3, <1>4, <1>5, <1>6

\* What a handler may have recorded.
LEMMA Recorded ==
    ASSUME NEW pol
    PROVE  /\ root_span \in Spans
           /\ panic_event(pol) \in Events /\ InstallId \notin panic_event(pol).attrs
           /\ command_span_attrs(pol) \in SUBSET Keys
           /\ InstallId \in command_span_attrs(pol) => pol.install_id # None
           /\ AuthorAttrs \in SUBSET Keys /\ InstallId \notin AuthorAttrs
           /\ root_span.attrs = {ArgNames} /\ InstallId # ArgNames
<1>1. root_span \in Spans /\ root_span.attrs = {ArgNames}
  BY DEF root_span, Spans, Keys
<1> PICK message \in {{}, {PanicMessage}} :
         panic_event(pol) = [probe |-> <<"cli", "panic">>, attrs |-> {PanicLocation} \cup message]
  BY DEF panic_event
<1>2. {PanicLocation} \cup message \in SUBSET Keys /\ InstallId \notin {PanicLocation} \cup message
  BY DEF Keys, PanicLocation, PanicMessage, InstallId
<1>3. panic_event(pol) \in Events /\ panic_event(pol).attrs = {PanicLocation} \cup message
  BY <1>2 DEF Events
<1>4. command_span_attrs(pol) \in SUBSET Keys
  BY DEF command_span_attrs, Keys
<1>5. InstallId \in command_span_attrs(pol) => pol.install_id # None
  BY DEF command_span_attrs, InstallId, SessionId, Labels
<1>6. AuthorAttrs \in SUBSET Keys /\ InstallId \notin AuthorAttrs /\ InstallId # ArgNames
  BY DEF AuthorAttrs, Keys, InstallId, AuthorAttr, TokenAttr, ArgNames
<1> QED BY <1>1, <1>2, <1>3, <1>4, <1>5, <1>6

-----------------------------------------------------------------------------
(* One run.                                                                *)

Checked == {"skipped", "warning", "ok"}
DoctorSays ==
  [subscriber : Checked, store : Checked, endpoint : Checked, policy : Checked,
   identity : Attribution, env : Checked]
StatusSays ==
  [level : TelemetryLevel, source : Sources, attribution : Attribution,
   install_id : InstallIds \cup {None}, effective : SUBSET with_builtins]
Results == {None, "ok", "failed", "clamped", "panicked"}
Runs ==
  [phase : Phases, runs : 0 .. MaxRuns, in : StartupInputs, seen : Settings, pol : TelemetryPolicies,
   copy : Settings, change : Changes, stale : BOOLEAN, cmd : CommandType, live : BOOLEAN,
   plain : BOOLEAN, bridged : BOOLEAN, report : Reports \cup {None}, spans : SUBSET Spans,
   sent : SUBSET Spans, counted : SUBSET (SUBSET Keys), result : Results,
   said : DoctorSays \cup StatusSays \cup {None}]

EndUser(r) == r.in.deployment = "end_user"
\* No provider has been built yet.
Early(r) ==
  \/ r.phase \in {"open", "ensure", "build"}
  \/ r.phase \in {"load", "save"} /\ r.change.kind = "install_id"

\* What the policy of a run comes from.
PolicyInv(r) ==
  /\ r.pol.kill_switch = r.in.kill_switch /\ r.pol.deployment = r.in.deployment
  /\ EndUser(r) => r.pol.level <= Consent(r.seen.level)
  /\ EndUser(r) /\ r.in.withdrawn => r.pol.level = Off
  /\ r.pol.attribution # "anonymous" =>
       /\ r.in.store /\ r.in.env.attribution # "anonymous"
       /\ r.in.env.attribution = None => r.seen.attribution # "anonymous"
  /\ r.pol.install_id # None => r.pol.attribution # "anonymous"
  /\ exports(r.pol) /\ ~r.plain /\ r.phase # "open" =>
       r.pol.off = (r.seen.off \ r.in.env.on) \cup r.in.env.off

\* A provider was built only where the policy exports, and what was noted of it.
ProviderInv(r) ==
  /\ r.live /\ ~r.plain => exports(r.pol)
  /\ r.bridged => r.live
  /\ r.plain => r.live
  /\ Early(r) => ~r.live
  /\ r.live /\ r.report = None => r.plain
  /\ r.report # None => (r.report.foreign <=> r.live /\ ~r.bridged)
  /\ r.cmd.kind = "doctor" /\ r.said # None /\ r.live =>
       /\ r.said.subscriber = "ok" => r.bridged
       /\ r.said.subscriber = "skipped" => r.plain

\* What was recorded, counted and sent.
SentInv(r) ==
  /\ r.spans # {} => r.live
  /\ r.sent # {} \/ r.counted # {} => r.live
  /\ r.phase \notin {"flush", "idle"} => r.spans = {} /\ r.sent = {} /\ r.counted = {}
  /\ r.phase \notin {"work", "flush", "idle"} => r.said = None
  /\ \A s \in r.spans \cup r.sent :
       /\ InstallId \in s.attrs => r.pol.install_id # None
       /\ \A e \in s.events : InstallId \notin e.attrs
  /\ ~r.plain =>
       /\ \A s \in r.sent : /\ Clean(r.pol, r.in.allowlist, s)
                           /\ \A e \in s.events : Clean(r.pol, r.in.allowlist, e)
       /\ \A labels \in r.counted : labels \subseteq Labels

\* What is about to be changed in the settings file.
ChangeInv(r) ==
  /\ r.phase = "open" => ~telemetry_withdrawn(r.in)
  /\ r.phase = "ensure" => r.pol.attribution # "anonymous"
  /\ r.phase \in {"load", "save"} /\ r.change.kind = "install_id" => r.pol.attribution # "anonymous"
  /\ r.change.kind \in {"disable", "enable"} => r.change.probe \in with_builtins
  /\ r.change.kind = "notice_shown" => r.change.level \in TelemetryLevel
  /\ r.phase = "print" => r.change.kind = "notice_shown"

RunInv(r) == PolicyInv(r) /\ ProviderInv(r) /\ SentInv(r) /\ ChangeInv(r)

\* The parts of a run that a step leaves as they are.
SameStart(k, r) == k.in = r.in /\ k.cmd = r.cmd /\ k.seen = r.seen
SameProvider(k, r) == k.live = r.live /\ k.plain = r.plain /\ k.bridged = r.bridged /\ k.report = r.report
SameSent(k, r) == k.spans = r.spans /\ k.sent = r.sent /\ k.counted = r.counted

\* Settings and inputs by field.
LEMMA Defaults ==
  /\ DefaultSettings \in Settings /\ DefaultSettings.level = None /\ DefaultSettings.notice_shown = None
  /\ DefaultSettings.off = {}
  /\ NoChange \in Changes /\ NoChange.kind = "level"
  /\ NoLaunch \in StartupInputs /\ NoLaunch.deployment = "end_user"
  /\ NoCommand \in CommandType /\ NoCommand.kind = "app"
<1>1. EmptyEnv \in EnvScan
  BY DEF EmptyEnv, EnvScan, OptLevel, OptAttribution
<1>2. DefaultSettings \in Settings
  BY DEF DefaultSettings, Settings, OptLevel, OptAttribution
<1>3. NoChange \in Changes
  BY DEF NoChange, Changes, OptLevel
<1>4. NoLaunch \in StartupInputs
  BY <1>1 DEF NoLaunch, StartupInputs, Deployments
<1>5. NoCommand \in CommandType
  BY DEF NoCommand, CommandType, OptLevel
<1> QED BY <1>2, <1>3, <1>4, <1>5 DEF DefaultSettings, NoChange, NoLaunch, NoCommand

LEMMA Read == ASSUME NEW f \in Settings \cup {None, Newer} PROVE load(f) \in Settings
BY Defaults DEF load

\* The policy that a program is built with takes nothing from anybody.
LEMMA BuiltPolicy ==
    ASSUME NEW in \in StartupInputs, NEW pol, pol = build_time_policy(in)
    PROVE  /\ pol \in TelemetryPolicies /\ pol.kill_switch = in.kill_switch
           /\ pol.deployment = in.deployment
           /\ in.deployment = "end_user" => pol.level = Off
           /\ in.kill_switch => pol.level = Off
           /\ pol.attribution = "anonymous" /\ pol.install_id = None
<1> PICK base : base = telemetry_inputs(in)
  OBVIOUS
<1>1. in.endpoint \in BOOLEAN /\ in.deployment \in Deployments /\ in.kill_switch \in BOOLEAN
  BY DEF StartupInputs
<1>2. base \in Bases /\ ~base.store_available /\ base.config_file = None
  BY <1>1, BuiltBase
<1>3. pol = resolve_policy(in.deployment, in.kill_switch, base)
  BY DEF build_time_policy
<1>4. /\ pol \in TelemetryPolicies /\ pol.kill_switch = in.kill_switch
      /\ pol.deployment = in.deployment
      /\ in.kill_switch => pol.level = Off
      /\ in.deployment = "end_user" => pol.level <= Consent(base.config_file)
      /\ pol.attribution # "anonymous" => base.store_available
      /\ pol.install_id # None => pol.attribution # "anonymous"
  BY <1>1, <1>2, <1>3, PolicyResolved
<1>5. pol.level \in 0 .. 3
  BY <1>4, Levels DEF TelemetryPolicies
<1>6. Consent(base.config_file) = 0
  BY <1>2, Levels DEF Consent
<1> QED BY <1>2, <1>4, <1>5, <1>6, Levels

\* A slot between two runs.
LEMMA IdleRun ==
    ASSUME NEW n \in 0 .. MaxRuns, NEW k, k = Idle(n)
    PROVE  /\ k \in Runs /\ RunInv(k) /\ k.phase = "idle" /\ k.runs = n /\ k.seen = DefaultSettings
           /\ k.copy = DefaultSettings /\ k.change = NoChange /\ ~k.live /\ ~k.plain
           /\ ~k.bridged /\ k.report = None /\ ~k.stale /\ k.said = None /\ k.result = None
           /\ k.spans = {} /\ k.sent = {} /\ k.counted = {}
<1> PICK pol : pol = build_time_policy(NoLaunch)
  OBVIOUS
<1>1. /\ pol \in TelemetryPolicies /\ pol.kill_switch = NoLaunch.kill_switch /\ pol.level = Off
      /\ pol.deployment = NoLaunch.deployment
      /\ pol.attribution = "anonymous" /\ pol.install_id = None
  BY Defaults, BuiltPolicy
<1>2. k = [phase |-> "idle", runs |-> n, in |-> NoLaunch, seen |-> DefaultSettings,
           pol |-> pol, copy |-> DefaultSettings, change |-> NoChange,
           stale |-> FALSE, cmd |-> NoCommand, live |-> FALSE, plain |-> FALSE, bridged |-> FALSE,
           report |-> None, spans |-> {}, sent |-> {}, counted |-> {}, result |-> None, said |-> None]
  BY DEF Idle
<1>3. k \in Runs
  BY <1>1, <1>2, Defaults DEF Runs, Phases, Results
<1>4. ~k.live /\ ~k.plain /\ ~k.bridged /\ ~k.stale
  BY <1>2
<1>5. /\ k.phase = "idle" /\ k.runs = n /\ k.seen = DefaultSettings
      /\ k.copy = DefaultSettings /\ k.change = NoChange /\ k.report = None /\ k.said = None /\ k.result = None
      /\ k.spans = {} /\ k.sent = {} /\ k.counted = {} /\ k.in = NoLaunch /\ k.pol = pol /\ k.cmd = NoCommand
  BY <1>2
<1> HIDE DEF Idle
<1>6. PolicyInv(k)
  BY <1>1, <1>4, <1>5, Defaults, Levels DEF PolicyInv, Consent, exports, EndUser
<1>7. ProviderInv(k) /\ SentInv(k) /\ ChangeInv(k)
  BY <1>1, <1>4, <1>5, Defaults DEF ProviderInv, SentInv, ChangeInv, Early
<1> QED BY <1>3, <1>4, <1>5, <1>6, <1>7 DEF RunInv

\* A step that leaves the policy, the provider and what was sent alone.
LEMMA Moved ==
    ASSUME NEW r \in Runs, RunInv(r), NEW k \in Runs,
           SameStart(k, r), k.pol = r.pol, SameProvider(k, r), SameSent(k, r), k.said = r.said,
           r.phase # "open" \/ k.phase = "open", Early(k) => Early(r),
           k.phase \notin {"flush", "idle"} => r.phase \notin {"flush", "idle"},
           k.phase \notin {"work", "flush", "idle"} => r.phase \notin {"work", "flush", "idle"},
           ChangeInv(k)
    PROVE  RunInv(k)
<1>1. PolicyInv(k)
  BY DEF RunInv, PolicyInv, SameStart, SameProvider, EndUser
<1>2. ProviderInv(k)
  BY DEF RunInv, ProviderInv, SameStart, SameProvider
<1>3. SentInv(k)
  BY DEF RunInv, SentInv, SameStart, SameProvider, SameSent
<1> QED BY <1>1, <1>2, <1>3 DEF RunInv

\* A run goes on to another phase, with another change to make.
Onto(r, phase) == [r EXCEPT !.phase = phase]
OntoChange(r, phase, change) == [r EXCEPT !.phase = phase, !.change = change]

LEMMA Phased ==
    ASSUME NEW r \in Runs, NEW phase \in Phases, NEW k, k = Onto(r, phase)
    PROVE  /\ k \in Runs /\ k.phase = phase /\ SameStart(k, r) /\ SameProvider(k, r) /\ SameSent(k, r)
           /\ k.pol = r.pol /\ k.said = r.said /\ k.change = r.change /\ k.copy = r.copy
<1>1. k \in Runs
  BY DEF Runs, Onto
<1>2. k.live = r.live /\ k.plain = r.plain /\ k.bridged = r.bridged
  BY Zenon DEF Runs, Onto
<1>3. /\ k.in = r.in /\ k.cmd = r.cmd /\ k.pol = r.pol /\ k.phase = phase /\ k.seen = r.seen
      /\ k.change = r.change /\ k.copy = r.copy /\ k.report = r.report /\ k.said = r.said
      /\ k.spans = r.spans /\ k.sent = r.sent /\ k.counted = r.counted
  BY DEF Runs, Onto
<1> QED BY <1>1, <1>2, <1>3, Zenon DEF SameStart, SameProvider, SameSent

LEMMA Changed ==
    ASSUME NEW r \in Runs, NEW phase \in Phases, NEW change \in Changes,
           NEW k, k = OntoChange(r, phase, change)
    PROVE  /\ k \in Runs /\ k.phase = phase /\ SameStart(k, r) /\ SameProvider(k, r) /\ SameSent(k, r)
           /\ k.pol = r.pol /\ k.said = r.said /\ k.change = change /\ k.copy = r.copy
<1>1. k \in Runs
  BY DEF Runs, OntoChange
<1>2. k.live = r.live /\ k.plain = r.plain /\ k.bridged = r.bridged
  BY Zenon DEF Runs, OntoChange
<1>3. /\ k.in = r.in /\ k.cmd = r.cmd /\ k.pol = r.pol /\ k.phase = phase /\ k.seen = r.seen
      /\ k.change = change /\ k.copy = r.copy /\ k.report = r.report /\ k.said = r.said
      /\ k.spans = r.spans /\ k.sent = r.sent /\ k.counted = r.counted
  BY DEF Runs, OntoChange
<1> QED BY <1>1, <1>2, <1>3, Zenon DEF SameStart, SameProvider, SameSent

\* A provider is noted.
LEMMA Provided ==
    ASSUME NEW r \in Runs, NEW live \in BOOLEAN, NEW plain \in BOOLEAN, NEW bridged \in BOOLEAN,
           NEW k, k = [r EXCEPT !.live = live, !.plain = plain, !.bridged = bridged]
    PROVE  k \in Runs
BY DEF Runs

\* What startup notes of a provider that it built.
LEMMA Noted ==
    ASSUME NEW r \in Runs, NEW live \in BOOLEAN, NEW bridged \in BOOLEAN, NEW report \in Reports,
           NEW k, k = [r EXCEPT !.live = live, !.bridged = bridged, !.report = report]
    PROVE  k \in Runs
BY DEF Runs

LEMMA Reported ==
    ASSUME NEW in \in StartupInputs, NEW foreign \in BOOLEAN, NEW report,
           report = startup_report(in, foreign)
    PROVE  report \in Reports /\ report.foreign = foreign
<1> PICK unmatched : unmatched = IF in.kill_switch THEN 0 ELSE in.env.unmatched
  OBVIOUS
<1>1. unmatched \in 0 .. 1
  BY DEF StartupInputs, EnvScan
<1> PICK store \in BOOLEAN : store = (in.store /\ ~in.kill_switch)
  OBVIOUS
<1>2. report = [foreign |-> foreign, store |-> store, unmatched |-> unmatched]
  BY DEF startup_report
<1> QED BY <1>1, <1>2 DEF Reports

\* A run as it starts: by the policy, or with the deprecated configuration.
Started(n, in, c, phase) ==
  [Idle(n) EXCEPT !.in = in, !.cmd = c, !.pol = build_time_policy(in), !.phase = phase]
LEMMA Launched ==
    ASSUME NEW n \in 0 .. MaxRuns, NEW in \in StartupInputs, NEW c \in CommandType,
           NEW phase \in {"dispatch", "build", "open"}, NEW k,
           k = Started(n, in, c, phase),
           phase # "open" => in.kill_switch \/ telemetry_withdrawn(in),
           phase = "open" => ~telemetry_withdrawn(in)
    PROVE  k \in Runs /\ RunInv(k) /\ k.phase = phase /\ k.seen = DefaultSettings /\ ~k.live
<1> PICK r : r = Idle(n)
  OBVIOUS
<1> PICK pol : pol = build_time_policy(in)
  OBVIOUS
<1>1. /\ r \in Runs /\ RunInv(r) /\ r.phase = "idle" /\ r.seen = DefaultSettings
      /\ r.change = NoChange /\ ~r.live /\ ~r.plain /\ ~r.bridged /\ r.report = None
      /\ r.said = None /\ r.spans = {} /\ r.sent = {} /\ r.counted = {}
  BY IdleRun
<1>2. /\ pol \in TelemetryPolicies /\ pol.kill_switch = in.kill_switch
      /\ pol.deployment = in.deployment
      /\ in.deployment = "end_user" => pol.level = Off
      /\ in.kill_switch => pol.level = Off
      /\ pol.attribution = "anonymous" /\ pol.install_id = None
  BY BuiltPolicy
<1>3. k = [r EXCEPT !.in = in, !.cmd = c, !.pol = pol, !.phase = phase]
  BY DEF Started
<1>4. k \in Runs
  BY <1>1, <1>2, <1>3, ZenonT(60) DEF Runs, Phases
<1>5. k.live = r.live /\ k.plain = r.plain /\ k.bridged = r.bridged
  BY <1>1, <1>3, Zenon DEF Runs
<1>6. /\ k.in = in /\ k.cmd = c /\ k.pol = pol /\ k.phase = phase /\ k.seen = DefaultSettings
      /\ k.change = NoChange /\ k.report = None /\ k.said = None /\ k.spans = {} /\ k.sent = {} /\ k.counted = {}
  BY <1>1, <1>3 DEF Runs
<1>7. ~k.live /\ ~k.plain /\ ~k.bridged
  BY <1>1, <1>5, Zenon
<1>8. k.phase # "open" => pol.level = Off
  BY <1>2, <1>6 DEF telemetry_withdrawn
<1>9. PolicyInv(k)
  BY <1>2, <1>6, <1>8, Defaults, Levels DEF PolicyInv, Consent, exports, EndUser
<1>10. ProviderInv(k) /\ SentInv(k) /\ ChangeInv(k)
  BY <1>2, <1>6, <1>7, Defaults DEF ProviderInv, SentInv, ChangeInv, Early
<1> QED BY <1>4, <1>6, <1>7, <1>9, <1>10 DEF RunInv

StartedPlain(n, in, c, bridged) ==
  [[Idle(n) EXCEPT !.in = in, !.cmd = c, !.pol = build_time_policy(in)]
     EXCEPT !.live = TRUE, !.plain = TRUE, !.bridged = bridged, !.phase = "dispatch"]
LEMMA LaunchedPlain ==
    ASSUME NEW n \in 0 .. MaxRuns, NEW in \in StartupInputs, NEW c \in CommandType,
           NEW bridged \in BOOLEAN, NEW k, k = StartedPlain(n, in, c, bridged)
    PROVE  k \in Runs /\ RunInv(k) /\ k.phase = "dispatch" /\ k.seen = DefaultSettings /\ k.plain
<1> PICK r : r = Idle(n)
  OBVIOUS
<1> PICK pol : pol = build_time_policy(in)
  OBVIOUS
<1>1. /\ r \in Runs /\ r.phase = "idle" /\ r.seen = DefaultSettings
      /\ r.change = NoChange /\ r.report = None
      /\ r.said = None /\ r.spans = {} /\ r.sent = {} /\ r.counted = {}
  BY IdleRun
<1>2. /\ pol \in TelemetryPolicies /\ pol.kill_switch = in.kill_switch
      /\ pol.deployment = in.deployment
      /\ in.deployment = "end_user" => pol.level = Off
      /\ pol.attribution = "anonymous" /\ pol.install_id = None
  BY BuiltPolicy
<1>3. k = [r EXCEPT !.in = in, !.cmd = c, !.pol = pol, !.live = TRUE, !.plain = TRUE,
                    !.bridged = bridged, !.phase = "dispatch"]
  BY <1>1 DEF Runs, StartedPlain
<1>4. k \in Runs
  <2> PICK j : j = [r EXCEPT !.in = in, !.cmd = c, !.pol = pol, !.phase = "dispatch"]
    OBVIOUS
  <2>1. j \in Runs
    BY <1>1, <1>2 DEF Runs, Phases
  <2> PICK yes \in BOOLEAN : yes
    OBVIOUS
  <2>2. k = [j EXCEPT !.live = yes, !.plain = yes, !.bridged = bridged]
    BY <1>1, <1>3 DEF Runs
  <2> QED BY <2>1, <2>2, Provided
<1>5. k.live /\ k.plain /\ k.bridged = bridged
  BY <1>1, <1>3 DEF Runs
<1>6. /\ k.in = in /\ k.cmd = c /\ k.pol = pol /\ k.phase = "dispatch" /\ k.seen = DefaultSettings
      /\ k.change = NoChange /\ k.report = None /\ k.said = None /\ k.spans = {} /\ k.sent = {} /\ k.counted = {}
  BY <1>1, <1>3 DEF Runs
<1>7. PolicyInv(k)
  BY <1>2, <1>5, <1>6, Defaults, Levels DEF PolicyInv, Consent, EndUser
<1>8. ProviderInv(k) /\ SentInv(k) /\ ChangeInv(k)
  BY <1>2, <1>5, <1>6, Defaults DEF ProviderInv, SentInv, ChangeInv, Early
<1> QED BY <1>4, <1>5, <1>6, <1>7, <1>8 DEF RunInv

\* A run that has read the settings: what it may export is what they and the
\* environment leave on.
Opens(pol) ==
  IF pol.level > Off /\ pol.attribution # "anonymous" /\ pol.install_id = None THEN "ensure" ELSE "build"
Resolved(in, s) ==
  resolve_policy(in.deployment, in.kill_switch,
    fold_environment(fold_store(telemetry_inputs(in), in, s), in.env))
Reading(r, s) == [r EXCEPT !.seen = s, !.pol = Resolved(r.in, s), !.phase = Opens(Resolved(r.in, s))]
LEMMA Opened ==
    ASSUME NEW r \in Runs, RunInv(r), r.phase = "open",
           NEW s \in Settings, ~r.in.store => s = DefaultSettings,
           NEW k, k = Reading(r, s)
    PROVE  k \in Runs /\ RunInv(k) /\ k.phase \in {"ensure", "build"} /\ k.seen = s /\ ~k.live
<1> PICK pol : pol = Resolved(r.in, s)
  OBVIOUS
<1> PICK phase : phase = Opens(pol)
  OBVIOUS
<1>0. k = [r EXCEPT !.seen = s, !.pol = pol, !.phase = phase] /\ phase \in {"ensure", "build"}
  BY DEF Reading, Opens
<1> PICK in \in StartupInputs : in = r.in
  BY DEF Runs
<1>1. /\ in.endpoint \in BOOLEAN /\ in.deployment \in Deployments /\ in.kill_switch \in BOOLEAN
      /\ in.store \in BOOLEAN /\ in.env \in EnvScan
  BY DEF StartupInputs
<1> PICK base : base = telemetry_inputs(in)
  OBVIOUS
<1>2. base \in Bases /\ base.attribution = "pseudonymous"
  BY <1>1, BuiltBase
<1> PICK stored : stored = fold_store(base, in, s)
  OBVIOUS
<1>3. /\ stored \in Bases /\ stored.off = s.off /\ stored.store_available = in.store
      /\ stored.config_file = s.level
      /\ stored.attribution = IF s.attribution = None THEN base.attribution ELSE s.attribution
  BY <1>1, <1>2, StoreFolded
<1> PICK folded : folded = fold_environment(stored, in.env)
  OBVIOUS
<1>4. /\ folded \in Bases /\ folded.off = (s.off \ in.env.on) \cup in.env.off
      /\ folded.store_available = in.store /\ folded.config_file = s.level
      /\ folded.attribution = IF in.env.attribution = None THEN stored.attribution ELSE in.env.attribution
  BY <1>1, <1>3, EnvironmentFolded
<1>5. /\ pol \in TelemetryPolicies /\ pol.kill_switch = in.kill_switch
      /\ pol.deployment = in.deployment
      /\ pol.off = (s.off \ in.env.on) \cup in.env.off
      /\ in.deployment = "end_user" => pol.level <= Consent(s.level)
      /\ pol.attribution # "anonymous" => in.store /\ pol.attribution = folded.attribution
      /\ pol.install_id # None => pol.attribution # "anonymous"
  BY <1>1, <1>4, PolicyResolved DEF Resolved
<1>6. k \in Runs /\ phase \in {"ensure", "build"}
  BY <1>0, <1>5, ZenonT(60) DEF Runs, Phases
<1>7. k.live = r.live /\ k.plain = r.plain /\ k.bridged = r.bridged
  BY <1>0, Zenon DEF Runs
<1>8. /\ k.in = in /\ k.cmd = r.cmd /\ k.pol = pol /\ k.phase = phase /\ k.seen = s
      /\ k.change = r.change /\ k.report = r.report /\ k.said = r.said
      /\ k.spans = r.spans /\ k.sent = r.sent /\ k.counted = r.counted
  BY <1>0 DEF Runs
<1>9. pol.attribution # "anonymous" =>
        /\ in.env.attribution # "anonymous"
        /\ in.env.attribution = None => s.attribution # "anonymous"
  BY <1>3, <1>4, <1>5, NoneAssumption DEF Attribution
<1>10. PolicyInv(k)
  <2>1. ~(in.deployment = "end_user" /\ in.withdrawn)
    BY DEF RunInv, ChangeInv, telemetry_withdrawn
  <2> QED BY <1>5, <1>8, <1>9, <2>1 DEF PolicyInv, EndUser
<1>11. ~r.live /\ r.spans = {} /\ r.sent = {} /\ r.counted = {} /\ r.said = None
  BY DEF RunInv, ProviderInv, SentInv, Early
<1>12. ProviderInv(k)
  BY <1>7, <1>8, <1>11 DEF ProviderInv, RunInv
<1>13. SentInv(k)
  BY <1>7, <1>8, <1>11 DEF SentInv
<1>14. ChangeInv(k)
  BY <1>6, <1>8, Levels DEF ChangeInv, RunInv, Opens
<1>15. ~k.live
  BY <1>7, <1>11
<1> QED BY <1>6, <1>8, <1>15, <1>10, <1>12, <1>13, <1>14 DEF RunInv

\* A policy that has its install id and nothing else anew.
LEMMA PolicyKept ==
    ASSUME NEW r, NEW k, PolicyInv(r), r.phase # "open", k.in = r.in, k.seen = r.seen,
           k.pol.kill_switch = k.in.kill_switch, k.pol.deployment = k.in.deployment,
           k.pol.level = r.pol.level, k.pol.attribution = r.pol.attribution, k.pol.off = r.pol.off,
           exports(k.pol) /\ ~k.plain => exports(r.pol) /\ ~r.plain,
           r.pol.attribution # "anonymous"
    PROVE  PolicyInv(k)
<1>1. exports(k.pol) /\ ~k.plain => k.pol.off = (k.seen.off \ k.in.env.on) \cup k.in.env.off
  BY Zenon DEF PolicyInv
<1> QED BY <1>1 DEF PolicyInv, EndUser

\* A run that has its install id.
Identify(r, pol, change, copy) ==
  [r EXCEPT !.pol = pol, !.phase = "build", !.change = change, !.copy = copy]
LEMMA Identified ==
    ASSUME NEW r \in Runs, RunInv(r),
           r.phase = "ensure" \/ (r.phase \in {"load", "save"} /\ r.change.kind = "install_id"),
           NEW id \in InstallIds \cup {None}, NEW change \in Changes, change = r.change \/ change = NoChange,
           NEW copy \in Settings, NEW pol, pol = [r.pol EXCEPT !.install_id = id],
           NEW k, k = Identify(r, pol, change, copy)
    PROVE  /\ k \in Runs /\ RunInv(k) /\ k.phase = "build" /\ k.seen = r.seen /\ ~k.live
<1>0. r.pol \in TelemetryPolicies
  BY DEF Runs
<1>1. pol \in TelemetryPolicies
  BY <1>0 DEF TelemetryPolicies
<1>2. pol.kill_switch = r.pol.kill_switch /\ pol.endpoint = r.pol.endpoint
  BY <1>0, Zenon DEF TelemetryPolicies
<1>3. pol.deployment = r.pol.deployment /\ pol.level = r.pol.level /\ pol.attribution = r.pol.attribution /\ pol.off = r.pol.off
  BY <1>0 DEF TelemetryPolicies
<1>5. k \in Runs
  BY <1>1 DEF Runs, Phases, Identify
<1>6. k.live = r.live /\ k.plain = r.plain /\ k.bridged = r.bridged
  BY Zenon DEF Runs, Identify
<1>7. /\ k.in = r.in /\ k.cmd = r.cmd /\ k.pol = pol /\ k.phase = "build" /\ k.seen = r.seen
      /\ k.change = change /\ k.report = r.report /\ k.said = r.said
      /\ k.spans = r.spans /\ k.sent = r.sent /\ k.counted = r.counted
  BY DEF Runs, Identify
<1>8. /\ ~r.live /\ r.spans = {} /\ r.sent = {} /\ r.counted = {} /\ r.said = None
      /\ r.pol.attribution # "anonymous"
  BY DEF RunInv, ProviderInv, SentInv, Early, ChangeInv
<1>13. exports(pol) <=> exports(r.pol)
  BY <1>2, <1>3, Zenon DEF exports
<1>14. ~k.plain => ~r.plain
  BY <1>6, Zenon
<1>16. r.pol.kill_switch = r.in.kill_switch /\ r.pol.deployment = r.in.deployment
  BY DEF RunInv, PolicyInv
<1>15. k.pol.kill_switch = k.in.kill_switch
  <2>1. k.pol = pol /\ k.in = r.in
    BY <1>7
  <2> QED BY <1>2, <1>16, <2>1, Zenon
<1>17. k.pol.deployment = k.in.deployment
  <2>1. k.pol = pol /\ k.in = r.in
    BY <1>7
  <2> QED BY <1>3, <1>16, <2>1
<1>9. PolicyInv(k)
  <2>1. PolicyInv(r) /\ r.phase # "open"
    BY DEF RunInv
  <2>2. k.pol = pol /\ k.in = r.in /\ k.seen = r.seen
    BY <1>7
  <2>3. exports(k.pol) /\ ~k.plain => exports(r.pol) /\ ~r.plain
    BY <1>13, <1>14, <2>2, Zenon
  <2>4. k.pol.level = r.pol.level /\ k.pol.attribution = r.pol.attribution /\ k.pol.off = r.pol.off
    BY <1>3, <2>2
  <2> QED BY <1>8, <1>15, <1>17, <2>1, <2>2, <2>3, <2>4, PolicyKept
<1>10. ProviderInv(k)
  BY <1>6, <1>7, <1>8 DEF ProviderInv, RunInv
<1>11. SentInv(k)
  BY <1>6, <1>7, <1>8 DEF SentInv
<1>12. ChangeInv(k)
  BY <1>7, Defaults DEF ChangeInv, RunInv
<1> QED BY <1>5, <1>6, <1>7, <1>8, <1>9, <1>10, <1>11, <1>12 DEF RunInv

\* Whether there is a notice to show, and what it says.
LEMMA Shown ==
    ASSUME NEW b \in Runs, NEW level, level = notice_decision(b.pol, b.seen.notice_shown, b.in.tty),
           NEW k, k = show_notice(b)
    PROVE  /\ k \in Runs /\ SameStart(k, b) /\ SameProvider(k, b) /\ SameSent(k, b)
           /\ k.pol = b.pol /\ k.said = b.said /\ level \in OptLevel
           /\ level = None => k.phase = "dispatch" /\ k.change = b.change
           /\ level # None => k.phase = "load" /\ k.change.kind = "notice_shown" /\ k.change.level = level
<1>1. b.pol \in TelemetryPolicies
  BY DEF Runs
<1>2. level \in OptLevel
  BY <1>1, Levels DEF notice_decision, TelemetryPolicies
<1> PICK change : change = [NoChange EXCEPT !.kind = "notice_shown", !.level = level]
  OBVIOUS
<1>3. change \in Changes /\ change.kind = "notice_shown" /\ change.level = level
  BY <1>2, Defaults DEF Changes
<1>4. "dispatch" \in Phases /\ "load" \in Phases
  BY DEF Phases
<1>5. CASE level = None
  <2>1. k = Onto(b, "dispatch")
    BY <1>5 DEF show_notice, Onto
  <2>2. /\ k \in Runs /\ k.phase = "dispatch" /\ SameStart(k, b) /\ SameProvider(k, b) /\ SameSent(k, b)
        /\ k.pol = b.pol /\ k.said = b.said /\ k.change = b.change
    BY <1>4, <2>1, Phased
  <2> QED BY <1>2, <1>5, <2>2
<1>6. CASE level # None
  <2>1. k = OntoChange(b, "load", change)
    BY <1>6 DEF show_notice, OntoChange
  <2>2. /\ k \in Runs /\ k.phase = "load" /\ SameStart(k, b) /\ SameProvider(k, b) /\ SameSent(k, b)
        /\ k.pol = b.pol /\ k.said = b.said /\ k.change = change
    BY <1>3, <1>4, <2>1, Changed
  <2> QED BY <1>2, <1>3, <1>6, <2>2
<1> QED BY <1>5, <1>6

\* A run that has built what its policy lets it.
WithProvider(r, live, bridged) ==
  [r EXCEPT !.live = live, !.bridged = bridged, !.report = startup_report(r.in, live /\ ~bridged)]
LEMMA ProviderBuilt ==
    ASSUME NEW r \in Runs, NEW live \in BOOLEAN, NEW bridged \in BOOLEAN,
           NEW b, b = WithProvider(r, live, bridged)
    PROVE  /\ b \in Runs /\ SameStart(b, r) /\ SameSent(b, r)
           /\ b.pol = r.pol /\ b.change = r.change /\ b.said = r.said
           /\ b.plain = r.plain /\ b.live = live /\ b.bridged = bridged
           /\ b.report # None /\ (b.report.foreign <=> live /\ ~bridged)
<1>0. r.in \in StartupInputs
  BY DEF Runs
<1> PICK foreign \in BOOLEAN : foreign = (live /\ ~bridged)
  OBVIOUS
<1> PICK report : report = startup_report(r.in, foreign)
  OBVIOUS
<1>1. report \in Reports /\ (report.foreign <=> live /\ ~bridged) /\ report # None
  <2>1. report \in Reports /\ report.foreign = foreign
    BY <1>0, Reported
  <2> QED BY <2>1, ReportAssumption
<1>2. b = [r EXCEPT !.live = live, !.bridged = bridged, !.report = report]
  BY DEF WithProvider
<1>3. b \in Runs
  BY <1>1, <1>2, Noted
<1>4. b.plain = r.plain /\ b.live = live /\ b.bridged = bridged
  BY <1>2, Zenon DEF Runs
<1>5. /\ b.in = r.in /\ b.cmd = r.cmd /\ b.pol = r.pol /\ b.seen = r.seen
      /\ b.change = r.change /\ b.report = report /\ b.said = r.said
      /\ b.spans = r.spans /\ b.sent = r.sent /\ b.counted = r.counted
  BY <1>2 DEF Runs
<1> QED BY <1>1, <1>3, <1>4, <1>5 DEF SameStart, SameSent

\* It may have a notice to show: the level is announced unless the user chose
\* it or was told of it before.
LEMMA Built ==
    ASSUME NEW r \in Runs, RunInv(r), r.phase = "build",
           NEW live \in BOOLEAN, NEW bridged \in BOOLEAN, live => exports(r.pol), bridged => live,
           NEW b \in Runs, SameStart(b, r), SameSent(b, r),
           b.pol = r.pol, b.change = r.change, b.said = r.said,
           b.plain = r.plain, b.live = live, b.bridged = bridged,
           b.report # None, b.report.foreign <=> live /\ ~bridged,
           NEW k, k = show_notice(b)
    PROVE  /\ k \in Runs /\ RunInv(k) /\ k.seen = r.seen
           /\ k.phase \in {"dispatch", "load"}
           /\ k.live /\ EndUser(k) /\ k.in.tty /\ k.pol.source # "config_file" =>
                \/ k.phase = "load" /\ k.change.kind = "notice_shown" /\ k.change.level = k.pol.level
                \/ k.seen.notice_shown # None /\ k.pol.level <= k.seen.notice_shown
<1>0. r.in \in StartupInputs /\ r.pol \in TelemetryPolicies /\ r.seen \in Settings
  BY DEF Runs
<1>5. /\ b.in = r.in /\ b.cmd = r.cmd /\ b.seen = r.seen
      /\ b.spans = r.spans /\ b.sent = r.sent /\ b.counted = r.counted
  BY DEF SameStart, SameSent
<1>6. /\ ~r.live /\ ~r.plain /\ r.spans = {} /\ r.sent = {} /\ r.counted = {} /\ r.said = None
  BY DEF RunInv, ProviderInv, SentInv, Early
<1> PICK level : level = notice_decision(b.pol, b.seen.notice_shown, b.in.tty)
  OBVIOUS
<1>9. /\ k \in Runs /\ SameStart(k, b) /\ SameProvider(k, b) /\ SameSent(k, b)
      /\ k.pol = b.pol /\ k.said = b.said /\ level \in OptLevel
      /\ level = None => k.phase = "dispatch" /\ k.change = b.change
      /\ level # None => k.phase = "load" /\ k.change.kind = "notice_shown" /\ k.change.level = level
  BY Shown
<1>10. k \in Runs
  BY <1>9
<1>11. k.plain = r.plain /\ k.live = live /\ k.bridged = bridged
  BY <1>9, Zenon DEF SameProvider
<1>12. /\ k.in = r.in /\ k.cmd = r.cmd /\ k.pol = r.pol /\ k.seen = r.seen
       /\ k.report = b.report /\ k.said = r.said
       /\ k.spans = r.spans /\ k.sent = r.sent /\ k.counted = r.counted
       /\ level = None => k.phase = "dispatch" /\ k.change = r.change
       /\ level # None => k.phase = "load" /\ k.change.kind = "notice_shown" /\ k.change.level = level
  <2>1. k.report = b.report
    BY <1>9, Zenon DEF SameProvider
  <2> QED BY <1>5, <1>9, <2>1 DEF SameStart, SameSent
<1>13. k.phase \in {"dispatch", "load"} /\ ~k.plain /\ (k.live <=> live) /\ (k.bridged <=> bridged)
  BY <1>6, <1>11, <1>12
<1>14. PolicyInv(k)
  <2>1. PolicyInv(r) /\ r.phase # "open"
    BY DEF RunInv
  <2> QED BY <1>6, <1>12, <2>1 DEF PolicyInv, EndUser
<1>15. ProviderInv(k)
  <2>1. ~Early(k) \/ ~k.live
    BY <1>12 DEF Early
  <2> QED BY <1>6, <1>12, <1>13, <2>1 DEF ProviderInv
<1>16. SentInv(k)
  BY <1>6, <1>12 DEF SentInv
<1>17. ChangeInv(k)
  <2>1. CASE level = None
    BY <1>12, <2>1 DEF ChangeInv, RunInv
  <2>2. CASE level # None
    <3>1. level \in TelemetryLevel
      BY <1>9, <2>2 DEF OptLevel
    <3> QED BY <1>12, <2>2, <3>1 DEF ChangeInv
  <2> QED BY <2>1, <2>2
<1>18. ASSUME k.live, EndUser(k), k.in.tty, k.pol.source # "config_file"
       PROVE  \/ k.phase = "load" /\ k.change.kind = "notice_shown" /\ k.change.level = k.pol.level
              \/ k.seen.notice_shown # None /\ k.pol.level <= k.seen.notice_shown
  <2>1. exports(r.pol) /\ r.pol.level \in 0 .. 3 /\ r.pol.deployment \in Deployments
    BY <1>0, <1>13, <1>18, Levels DEF TelemetryPolicies
  <2>2. ~r.pol.kill_switch /\ r.pol.level > 0
    BY <2>1, Levels DEF exports
  <2>3. r.pol.deployment = "end_user"
    BY <1>12, <1>18 DEF RunInv, PolicyInv, EndUser
  <2>4. level = IF r.seen.notice_shown # None /\ r.pol.level <= r.seen.notice_shown THEN None ELSE r.pol.level
    BY <1>5, <1>12, <1>18, <2>2, <2>3, Levels DEF notice_decision
  <2>5. r.pol.level # None
    BY <2>1, NoneAssumption, Levels
  <2>6. CASE r.seen.notice_shown # None /\ r.pol.level <= r.seen.notice_shown
    BY <1>12, <2>6
  <2>7. CASE ~(r.seen.notice_shown # None /\ r.pol.level <= r.seen.notice_shown)
    <3>1. level = r.pol.level
      BY <2>4, <2>7
    <3> QED BY <1>12, <2>5, <3>1
  <2> QED BY <2>6, <2>7
<1> QED BY <1>10, <1>12, <1>13, <1>14, <1>15, <1>16, <1>17, <1>18 DEF RunInv

\* A mutate has ended, well or badly.
LEMMA Continued ==
    ASSUME NEW r \in Runs, RunInv(r), r.phase \in {"load", "save"}, NEW ok \in BOOLEAN,
           NEW k, k = Continue(r, ok)
    PROVE  /\ k \in Runs /\ RunInv(k) /\ k.seen = r.seen
           /\ k.phase \in {"build", "print", "work"}
           /\ k.phase = "print" <=> r.change.kind = "notice_shown"
           /\ k.phase = "print" => k.change = r.change
           /\ k.phase = "build" => ~k.live
           /\ k.phase # "build" => k.pol = r.pol /\ SameProvider(k, r) /\ SameStart(k, r)
<1>0. /\ r.change \in Changes /\ r.copy \in Settings /\ r.pol \in TelemetryPolicies
      /\ r.change.kind \in {"install_id", "notice_shown", "level", "disable", "enable"}
  BY DEF Runs, Changes
<1>1. CASE r.change.kind = "install_id"
  <2> PICK id : id = IF ok THEN r.copy.install_id ELSE None
    OBVIOUS
  <2>1. id \in InstallIds \cup {None}
    BY <1>0 DEF Settings
  <2>2. k = [r EXCEPT !.copy = DefaultSettings, !.change = NoChange, !.pol.install_id = id, !.phase = "build"]
    BY <1>1 DEF Continue
  <2>3. k = [r EXCEPT !.pol.install_id = id, !.phase = "build", !.change = NoChange, !.copy = DefaultSettings]
    BY <2>2 DEF Runs
  <2>4. k \in Runs /\ RunInv(k) /\ k.phase = "build" /\ k.seen = r.seen /\ ~k.live
    <3> PICK pol : pol = [r.pol EXCEPT !.install_id = id]
      OBVIOUS
    <3>1. k = Identify(r, pol, NoChange, DefaultSettings)
      BY <2>3 DEF Identify
    <3>2. NoChange \in Changes /\ DefaultSettings \in Settings
      BY Defaults
    <3> HIDE DEF NoChange, DefaultSettings
    <3> QED BY <1>1, <2>1, <3>1, <3>2, Identified
  <2> QED BY <1>1, <2>4
<1>2. CASE r.change.kind = "notice_shown"
  <2>1. k = [r EXCEPT !.copy = DefaultSettings, !.phase = "print"]
    BY <1>2 DEF Continue
  <2>2. k \in Runs
    BY <2>1, Defaults DEF Runs, Phases
  <2>3. k.live = r.live /\ k.plain = r.plain /\ k.bridged = r.bridged
    BY <2>1, Zenon DEF Runs
  <2>4. /\ k.in = r.in /\ k.cmd = r.cmd /\ k.pol = r.pol /\ k.seen = r.seen
        /\ k.report = r.report /\ k.said = r.said /\ k.phase = "print" /\ k.change = r.change
        /\ k.spans = r.spans /\ k.sent = r.sent /\ k.counted = r.counted
    BY <2>1 DEF Runs
  <2>5. SameStart(k, r) /\ SameProvider(k, r) /\ SameSent(k, r)
    BY <2>3, <2>4 DEF SameStart, SameProvider, SameSent
  <2>6. ChangeInv(k) /\ ~Early(k)
    BY <1>2, <2>4 DEF ChangeInv, Early, RunInv
  <2>7. RunInv(k)
    BY <2>2, <2>4, <2>5, <2>6, Moved
  <2> QED BY <1>2, <2>2, <2>4, <2>5, <2>7
<1>3. CASE r.change.kind \in {"level", "disable", "enable"}
  <2> PICK result \in Results :
         k = [r EXCEPT !.copy = DefaultSettings, !.change = NoChange, !.phase = "work", !.result = result]
    BY <1>3 DEF Continue, Results
  <2>2. k \in Runs
    BY Defaults, ZenonT(60) DEF Runs, Phases
  <2>3. k.live = r.live /\ k.plain = r.plain /\ k.bridged = r.bridged
    BY Zenon DEF Runs
  <2>4. /\ k.in = r.in /\ k.cmd = r.cmd /\ k.pol = r.pol /\ k.seen = r.seen
        /\ k.report = r.report /\ k.said = r.said /\ k.phase = "work" /\ k.change = NoChange
        /\ k.spans = r.spans /\ k.sent = r.sent /\ k.counted = r.counted
    BY DEF Runs
  <2>5. SameStart(k, r) /\ SameProvider(k, r) /\ SameSent(k, r)
    BY <2>3, <2>4 DEF SameStart, SameProvider, SameSent
  <2>6. ChangeInv(k) /\ ~Early(k)
    BY <2>4, Defaults DEF ChangeInv, Early
  <2>7. RunInv(k)
    BY <2>2, <2>4, <2>5, <2>6, Moved
  <2> QED BY <1>3, <2>2, <2>4, <2>5, <2>7
<1> QED BY <1>0, <1>1, <1>2, <1>3

-----------------------------------------------------------------------------
(* All runs and the settings file.                                         *)

\* A notice of at least this level was printed, is about to be printed, or was
\* recorded by a run that was killed before it printed it.
Covered(n) ==
  \/ \E l \in announced \cup unprinted : l >= n
  \/ \E q \in Procs : At(q, "print") /\ proc[q].change.level >= n

\* A notice is on its way to the settings file or the terminal.
Announcing(r) ==
  /\ r.phase \in {"load", "save", "print"} /\ r.change.kind = "notice_shown"
  /\ r.change.level = r.pol.level

\* What a run knows of notices, what it is about to write of them and what it
\* sends were announced.
Told(r) ==
  /\ r.seen.notice_shown # None => Covered(r.seen.notice_shown)
  /\ r.phase = "save" /\ r.copy.notice_shown # None =>
       \/ Covered(r.copy.notice_shown)
       \/ r.change.kind = "notice_shown" /\ r.copy.notice_shown = r.change.level
  /\ r.live /\ ~r.plain /\ EndUser(r) /\ r.in.tty /\ r.pol.source # "config_file" =>
       Covered(r.pol.level) \/ Announcing(r)

\* A copy that nobody overtook is the file with the change made.
Current(r) == r.phase = "save" /\ ~r.stale => r.copy = apply(r.change, load(file))

TypedInv ==
  /\ file \in Settings \cup {None, Newer}
  /\ announced \subseteq TelemetryLevel /\ unprinted \subseteq TelemetryLevel
  /\ minted \in {0} \cup InstallIds
  /\ proc \in [Procs -> Runs]
FileTold == load(file).notice_shown # None => Covered(load(file).notice_shown)
TelemetryInv ==
  /\ TypedInv
  /\ FileTold
  /\ \A p \in Procs : RunInv(proc[p]) /\ Told(proc[p]) /\ Current(proc[p])

\* What a step that leaves the provider alone keeps of the notices.
LEMMA ToldOn ==
    ASSUME NEW r, NEW k, Told(r), SameStart(k, r), SameProvider(k, r), k.pol = r.pol,
           k.phase # "save", Announcing(r) => Announcing(k) \/ Covered(r.pol.level)
    PROVE  Told(k) /\ Current(k)
<1>1. /\ k.seen = r.seen /\ k.in = r.in /\ k.pol = r.pol
  BY DEF SameStart
<1>2. k.live /\ ~k.plain => r.live /\ ~r.plain
  BY Zenon DEF SameProvider
<1>3. k.live /\ ~k.plain /\ EndUser(k) /\ k.in.tty /\ k.pol.source # "config_file" =>
        Covered(k.pol.level) \/ Announcing(k)
  BY <1>1, <1>2, Zenon DEF Told, EndUser
<1>4. k.seen.notice_shown # None => Covered(k.seen.notice_shown)
  BY <1>1, Zenon DEF Told
<1> QED BY <1>3, <1>4 DEF Told, Current

\* Without a provider of its own a run need not have told anything.
LEMMA ToldEarly ==
    ASSUME NEW k, ~k.live \/ k.plain, k.phase # "save",
           k.seen.notice_shown # None => Covered(k.seen.notice_shown)
    PROVE  Told(k) /\ Current(k)
<1>1. ~(k.live /\ ~k.plain)
  OBVIOUS
<1> QED BY <1>1, Zenon DEF Told, Current

\* A copy that was overtaken.
Marked(r, b) == [r EXCEPT !.stale = b]
LEMMA OvertakenRun ==
    ASSUME NEW r \in Runs, RunInv(r), NEW b \in BOOLEAN, NEW k, k = Marked(r, b)
    PROVE  /\ k \in Runs /\ RunInv(k) /\ k.phase = r.phase /\ k.change = r.change /\ k.copy = r.copy
           /\ k.stale = b /\ SameStart(k, r) /\ SameProvider(k, r) /\ k.pol = r.pol
<1>1. k \in Runs
  BY DEF Marked, Runs
<1>2. k.live = r.live /\ k.plain = r.plain /\ k.bridged = r.bridged /\ k.stale = b
  BY Zenon DEF Marked, Runs
<1>3. /\ k.in = r.in /\ k.cmd = r.cmd /\ k.pol = r.pol /\ k.phase = r.phase /\ k.seen = r.seen
      /\ k.change = r.change /\ k.copy = r.copy /\ k.report = r.report /\ k.said = r.said
      /\ k.spans = r.spans /\ k.sent = r.sent /\ k.counted = r.counted
  BY DEF Marked, Runs
<1>4. SameStart(k, r) /\ SameProvider(k, r) /\ SameSent(k, r)
  BY <1>2, <1>3, Zenon DEF SameStart, SameProvider, SameSent
<1>5. ChangeInv(k) /\ (Early(k) => Early(r))
  BY <1>3 DEF ChangeInv, RunInv, Early
<1>6. RunInv(k)
  BY <1>1, <1>3, <1>4, <1>5, Moved
<1> QED BY <1>1, <1>2, <1>3, <1>4, <1>6

LEMMA CoversLess ==
    ASSUME TelemetryInv, NEW n \in 0 .. 3, Covered(n), NEW m \in 0 .. 3, m <= n
    PROVE  Covered(m)
<1>1. announced \subseteq 0 .. 3 /\ unprinted \subseteq 0 .. 3
  BY Levels DEF TelemetryInv, TypedInv
<1>2. \A q \in Procs : At(q, "print") => proc[q].change.level \in 0 .. 3
  BY Levels DEF TelemetryInv, RunInv, ChangeInv, At
<1>3. CASE \E l \in announced \cup unprinted : l >= n
  BY <1>1, <1>3 DEF Covered
<1>4. CASE \E q \in Procs : At(q, "print") /\ proc[q].change.level >= n
  BY <1>2, <1>4 DEF Covered
<1> QED BY <1>3, <1>4 DEF Covered

\* Levels that were announced stay announced.
LEMMA CoverGrows ==
    ASSUME announced \subseteq announced', unprinted \subseteq unprinted', DOMAIN proc' = Procs,
           \A q \in Procs : At(q, "print") =>
              \/ proc[q].change.level \in announced' \cup unprinted'
              \/ At(q, "print")' /\ (proc[q].change)' = proc[q].change,
           NEW n, Covered(n)
    PROVE  Covered(n)'
<1>1. CASE \E l \in announced \cup unprinted : l >= n
  BY <1>1 DEF Covered
<1>2. CASE \E q \in Procs : At(q, "print") /\ proc[q].change.level >= n
  <2> PICK q \in Procs : At(q, "print") /\ proc[q].change.level >= n
    BY <1>2
  <2>1. CASE proc[q].change.level \in announced' \cup unprinted'
    BY <2>1 DEF Covered
  <2>2. CASE At(q, "print")' /\ (proc[q].change)' = proc[q].change
    BY <2>2 DEF Covered
  <2> QED BY <2>1, <2>2
<1> QED BY <1>1, <1>2 DEF Covered

\* A run goes on; the settings file stays.
LEMMA OwnStep ==
    ASSUME TelemetryInv, NEW p \in Procs, NEW k \in Runs, RunInv(k), Told(k), Current(k),
           proc' = [proc EXCEPT ![p] = k], file' = file, minted' \in {0} \cup InstallIds,
           announced' \subseteq TelemetryLevel, unprinted' \subseteq TelemetryLevel,
           announced \subseteq announced', unprinted \subseteq unprinted',
           At(p, "print") => proc[p].change.level \in announced' \cup unprinted'
    PROVE  TelemetryInv'
<1>1. proc \in [Procs -> Runs] /\ file \in Settings \cup {None, Newer}
  BY DEF TelemetryInv, TypedInv
<1>2. /\ proc' \in [Procs -> Runs] /\ proc'[p] = k /\ DOMAIN proc' = Procs
      /\ \A q \in Procs : q # p => proc'[q] = proc[q]
  BY <1>1
<1>3. TypedInv'
  BY <1>1, <1>2 DEF TypedInv
<1>4. \A q \in Procs : At(q, "print") =>
         \/ proc[q].change.level \in announced' \cup unprinted'
         \/ At(q, "print")' /\ (proc[q].change)' = proc[q].change
  BY <1>2 DEF At
<1>5. \A n : Covered(n) => Covered(n)'
  BY <1>2, <1>4, CoverGrows
<1>6. FileTold'
  BY <1>5 DEF TelemetryInv, FileTold, load
<1>7. \A r : Told(r) => Told(r)'
  BY <1>5 DEF Told, Announcing
<1>8. \A r : Current(r) => Current(r)'
  BY DEF Current, load
<1>9. ASSUME NEW q \in Procs
      PROVE  (RunInv(proc[q]) /\ Told(proc[q]) /\ Current(proc[q]))'
  <2>1. CASE q = p
    BY <1>2, <1>7, <1>8, <2>1 DEF RunInv
  <2>2. CASE q # p
    <3>1. RunInv(proc[q]) /\ Told(proc[q]) /\ Current(proc[q])
      BY DEF TelemetryInv
    <3> QED BY <1>2, <1>7, <1>8, <2>2, <3>1
  <2> QED BY <2>1, <2>2
<1> QED BY <1>3, <1>6, <1>9 DEF TelemetryInv

\* The settings file is replaced or removed, and others' copies are overtaken.
LEMMA FileStep ==
    ASSUME TelemetryInv, NEW p \in Procs, ~At(p, "print"), NEW k \in Runs, RunInv(k), Told(k),
           k.phase # "save", proc' = Overtake(p, k), file' \in Settings \cup {None},
           load(file').notice_shown # None =>
              \/ Covered(load(file').notice_shown)
              \/ k.phase = "print" /\ k.change.level = load(file').notice_shown,
           UNCHANGED <<announced, unprinted, minted>>
    PROVE  TelemetryInv'
<1>1. proc \in [Procs -> Runs] /\ \A q \in Procs : RunInv(proc[q]) /\ Told(proc[q])
  BY DEF TelemetryInv, TypedInv
<1>2. /\ DOMAIN proc' = Procs /\ proc'[p] = Marked(k, FALSE)
      /\ \A q \in Procs : q # p => proc'[q] = Marked(proc[q], At(q, "save"))
  BY DEF Overtake, Marked
<1>3. /\ proc'[p] \in Runs /\ RunInv(proc'[p]) /\ proc'[p].phase = k.phase /\ proc'[p].change = k.change
      /\ SameStart(proc'[p], k) /\ SameProvider(proc'[p], k) /\ proc'[p].pol = k.pol
  <2> PICK no \in BOOLEAN : no = FALSE
    OBVIOUS
  <2> PICK j : j = Marked(k, no)
    OBVIOUS
  <2>1. /\ j \in Runs /\ RunInv(j) /\ j.phase = k.phase /\ j.change = k.change
        /\ SameStart(j, k) /\ SameProvider(j, k) /\ j.pol = k.pol
    BY OvertakenRun
  <2>2. proc'[p] = j
    BY <1>2
  <2> QED BY <2>1, <2>2, Zenon
<1>4. ASSUME NEW q \in Procs, q # p
      PROVE  /\ proc'[q] \in Runs /\ RunInv(proc'[q]) /\ proc'[q].phase = proc[q].phase
             /\ proc'[q].change = proc[q].change /\ proc'[q].copy = proc[q].copy
             /\ proc'[q].phase = "save" => proc'[q].stale
             /\ SameStart(proc'[q], proc[q]) /\ SameProvider(proc'[q], proc[q])
             /\ proc'[q].pol = proc[q].pol
  <2> PICK b \in BOOLEAN : b = At(q, "save")
    BY DEF At
  <2> PICK r \in Runs : r = proc[q] /\ RunInv(r)
    BY <1>1
  <2> PICK j : j = Marked(r, b)
    OBVIOUS
  <2>1. /\ j \in Runs /\ RunInv(j) /\ j.phase = r.phase /\ j.change = r.change /\ j.copy = r.copy
        /\ j.stale = b /\ SameStart(j, r) /\ SameProvider(j, r) /\ j.pol = r.pol
    BY OvertakenRun
  <2>2. proc'[q] = j
    BY <1>2, <1>4
  <2>3. j.phase = "save" => j.stale
    BY <2>1 DEF At
  <2> QED BY <2>1, <2>2, <2>3, Zenon
<1>5. TypedInv'
  <2>1. proc' = [q \in Procs |-> proc'[q]]
    BY DEF Overtake
  <2>2. proc' \in [Procs -> Runs]
    BY <1>3, <1>4, <2>1
  <2> QED BY <2>2 DEF TelemetryInv, TypedInv
<1>6. \A q \in Procs : At(q, "print") => At(q, "print")' /\ (proc[q].change)' = proc[q].change
  BY <1>4 DEF At
<1>7. \A n : Covered(n) => Covered(n)'
  BY <1>2, <1>6, CoverGrows
<1>8. FileTold'
  <2> PICK n : n = load(file').notice_shown
    OBVIOUS
  <2>1. ASSUME n # None
        PROVE  Covered(n)'
    <3>1. CASE Covered(n)
      BY <1>7, <3>1
    <3>2. CASE k.phase = "print" /\ k.change.level = n
      <4>1. load(file') \in Settings
        BY Read, <1>5 DEF TypedInv
      <4>2. n \in 0 .. 3
        BY <2>1, <4>1, Levels DEF Settings
      <4>3. At(p, "print")' /\ (proc[p].change.level)' >= n
        BY <1>3, <3>2, <4>2 DEF At
      <4> QED BY <4>3 DEF Covered
    <3> QED BY <2>1, <3>1, <3>2
  <2>2. n = (load(file).notice_shown)'
    BY DEF load
  <2> QED BY <2>1, <2>2 DEF FileTold
<1>9. \A r : Told(r) => Told(r)'
  BY <1>7 DEF Told, Announcing
<1>10. Told(proc'[p]) /\ Current(proc'[p])
  <2>1. Announcing(k) => Announcing(proc'[p])
    BY <1>3 DEF Announcing
  <2> QED BY <1>3, <2>1, ToldOn
<1>11. ASSUME NEW q \in Procs, q # p
       PROVE  Told(proc'[q]) /\ ~(proc'[q].phase = "save" /\ ~proc'[q].stale)
  <2>1. Told(proc[q])
    BY <1>1
  <2>2. Announcing(proc[q]) => Announcing(proc'[q])
    BY <1>4, <1>11 DEF Announcing
  <2>3. CASE proc[q].phase # "save"
    BY <1>4, <1>11, <2>1, <2>2, <2>3, ToldOn
  <2>4. CASE proc[q].phase = "save"
    <3>1. /\ proc'[q].seen = proc[q].seen /\ proc'[q].in = proc[q].in /\ proc'[q].pol = proc[q].pol
          /\ proc'[q].copy = proc[q].copy /\ proc'[q].change = proc[q].change
      BY <1>4, <1>11 DEF SameStart
    <3>2. proc'[q].live /\ ~proc'[q].plain => proc[q].live /\ ~proc[q].plain
      BY <1>4, <1>11, Zenon DEF SameProvider
    <3>3. Told(proc'[q])
      BY <2>1, <2>2, <2>4, <3>1, <3>2, Zenon DEF Told, EndUser
    <3> QED BY <1>4, <1>11, <3>3
  <2> QED BY <2>3, <2>4
<1>12. ASSUME NEW q \in Procs
       PROVE  (RunInv(proc[q]) /\ Told(proc[q]) /\ Current(proc[q]))'
  <2>1. CASE q = p
    <3>1. RunInv(proc'[p]) /\ proc'[p].phase # "save"
      BY <1>3
    <3>2. PICK j : j = proc'[p]
      OBVIOUS
    <3>3. Told(j)'
      BY <1>9, <1>10, <3>2
    <3> QED BY <2>1, <3>1, <3>2, <3>3 DEF Told, Announcing, Current
  <2>2. CASE q # p
    <3>1. RunInv(proc'[q])
      BY <1>4, <2>2
    <3>2. Told(proc'[q])
      BY <1>11, <2>2
    <3>3. ~(proc'[q].phase = "save" /\ ~proc'[q].stale)
      BY <1>11, <2>2
    <3>4. PICK j : j = proc'[q]
      OBVIOUS
    <3>5. Told(j)'
      BY <1>9, <3>2, <3>4
    <3> QED BY <3>1, <3>3, <3>4, <3>5 DEF Told, Announcing, Current
  <2> QED BY <2>1, <2>2
<1> QED BY <1>5, <1>8, <1>12 DEF TelemetryInv

LEMMA RunOf ==
    ASSUME TelemetryInv, NEW p \in Procs
    PROVE  /\ proc \in [Procs -> Runs] /\ file \in Settings \cup {None, Newer}
           /\ announced \subseteq TelemetryLevel /\ unprinted \subseteq TelemetryLevel
           /\ minted \in {0} \cup InstallIds /\ load(file) \in Settings
           /\ proc[p] \in Runs /\ RunInv(proc[p]) /\ Told(proc[p]) /\ Current(proc[p])
BY Read DEF TelemetryInv, TypedInv

\* A step that announces nothing.
LEMMA QuietStep ==
    ASSUME TelemetryInv, NEW p \in Procs, ~At(p, "print"),
           NEW k \in Runs, RunInv(k), Told(k), Current(k),
           proc' = [proc EXCEPT ![p] = k], UNCHANGED <<file, announced, unprinted, minted>>
    PROVE  TelemetryInv'
<1>1. /\ minted' \in {0} \cup InstallIds /\ announced' \subseteq TelemetryLevel
      /\ unprinted' \subseteq TelemetryLevel /\ announced \subseteq announced'
      /\ unprinted \subseteq unprinted' /\ file' = file
  BY RunOf
<1> QED BY <1>1, OwnStep

-----------------------------------------------------------------------------
(* The steps of startup.                                                   *)

LEMMA LaunchStep ==
    ASSUME TelemetryInv, NEW p \in Procs, Launch(p)
    PROVE  TelemetryInv'
<1>0. /\ proc[p] \in Runs /\ At(p, "idle") /\ proc[p].runs < MaxRuns
      /\ UNCHANGED <<file, announced, unprinted, minted>>
  BY RunOf DEF Launch
<1>n. PICK n : n = proc[p].runs + 1
  OBVIOUS
<1>1. n \in 0 .. MaxRuns
  BY <1>0, <1>n, LaunchAssumption DEF Runs
<1>l. PICK launch \in Launches[p] :
       LET in == launch[1]
           c == launch[2]
           r == [Idle(n) EXCEPT !.in = in, !.cmd = c, !.pol = build_time_policy(in)]
       IN \/ proc' = [proc EXCEPT ![p] =
                  [r EXCEPT !.phase =
                     IF telemetry_withdrawn(in) THEN "dispatch"
                     ELSE IF in.kill_switch THEN "build" ELSE "open"]]
          \/ /\ init_batch(in) /\ ~telemetry_withdrawn(in)
             /\ \E bridged \in BOOLEAN :
                  proc' = [proc EXCEPT ![p] =
                    [r EXCEPT !.live = TRUE, !.plain = TRUE, !.bridged = bridged,
                              !.phase = "dispatch"]]
  BY <1>n DEF Launch
<1>i. PICK in, c : in = launch[1] /\ c = launch[2]
  OBVIOUS
<1>2. in \in StartupInputs /\ c \in CommandType
  BY <1>i, LaunchAssumption
<1>p. PICK phase \in {"dispatch", "build", "open"} :
       phase = IF telemetry_withdrawn(in) THEN "dispatch" ELSE IF in.kill_switch THEN "build" ELSE "open"
  OBVIOUS
<1>3. /\ phase # "open" => in.kill_switch \/ telemetry_withdrawn(in)
      /\ phase = "open" => ~telemetry_withdrawn(in)
  BY <1>p
<1>4. DefaultSettings.notice_shown = None /\ ~At(p, "print")
  BY <1>0, Defaults DEF At
<1>5. ASSUME NEW k, k = Started(n, in, c, phase),
             proc' = [proc EXCEPT ![p] = k]
      PROVE  TelemetryInv'
  <2>1. k \in Runs /\ RunInv(k) /\ k.phase = phase /\ k.seen = DefaultSettings /\ ~k.live
    BY <1>1, <1>2, <1>3, <1>5, Launched
  <2>2. Told(k) /\ Current(k)
    BY <1>4, <2>1, ToldEarly
  <2> QED BY <1>0, <1>4, <1>5, <2>1, <2>2, QuietStep
<1>6. ASSUME NEW bridged \in BOOLEAN,
             NEW k, k = StartedPlain(n, in, c, bridged),
             proc' = [proc EXCEPT ![p] = k]
      PROVE  TelemetryInv'
  <2>1. k \in Runs /\ RunInv(k) /\ k.phase = "dispatch" /\ k.seen = DefaultSettings /\ k.plain
    BY <1>1, <1>2, <1>6, LaunchedPlain
  <2>2. Told(k) /\ Current(k)
    BY <1>4, <2>1, ToldEarly
  <2> QED BY <1>0, <1>4, <1>6, <2>1, <2>2, QuietStep
<1>7. \/ proc' = [proc EXCEPT ![p] = Started(n, in, c, phase)]
      \/ \E bridged \in BOOLEAN : proc' = [proc EXCEPT ![p] = StartedPlain(n, in, c, bridged)]
  BY <1>l, <1>i, <1>p DEF Started, StartedPlain
<1> QED BY <1>5, <1>6, <1>7

LEMMA OpenStep ==
    ASSUME TelemetryInv, NEW p \in Procs, OpenStore(p)
    PROVE  TelemetryInv'
<1> PICK r : r = proc[p]
  OBVIOUS
<1>0. /\ r \in Runs /\ RunInv(r) /\ Told(r) /\ load(file) \in Settings
      /\ r.phase = "open" /\ ~At(p, "print") /\ proc \in [Procs -> Runs]
      /\ UNCHANGED <<file, announced, unprinted, minted>>
  BY RunOf DEF OpenStore, At
<1> PICK s : s = IF r.in.store THEN load(file) ELSE DefaultSettings
  OBVIOUS
<1> PICK k : k = Reading(r, s)
  OBVIOUS
<1>1. s \in Settings /\ (~r.in.store => s = DefaultSettings)
  BY <1>0, Defaults
<1>2. k \in Runs /\ RunInv(k) /\ k.phase \in {"ensure", "build"} /\ k.seen = s /\ ~k.live
  BY <1>0, <1>1, Opened
<1>4. s.notice_shown # None => Covered(s.notice_shown)
  BY Defaults DEF TelemetryInv, FileTold
<1>6. Told(k) /\ Current(k)
  BY <1>2, <1>4, ToldEarly
<1>7. proc' = [proc EXCEPT ![p] = k]
  BY <1>0 DEF OpenStore, Reading, Resolved, Opens
<1> QED BY <1>0, <1>2, <1>6, <1>7, QuietStep

LEMMA EnsureStep ==
    ASSUME TelemetryInv, NEW p \in Procs, EnsureInstallId(p)
    PROVE  TelemetryInv'
<1>r. PICK r : r = proc[p]
  OBVIOUS
<1>0. /\ r \in Runs /\ RunInv(r) /\ Told(r) /\ load(file) \in Settings
      /\ r.phase = "ensure" /\ ~At(p, "print") /\ proc \in [Procs -> Runs]
      /\ UNCHANGED <<file, announced, unprinted>>
  BY <1>r, RunOf DEF EnsureInstallId, At
<1>1. ~r.live /\ r.pol.attribution # "anonymous"
  BY <1>0 DEF RunInv, ProviderInv, Early, ChangeInv
<1>2. CASE load(file).install_id # None
  <2>i. PICK id : id = load(file).install_id
    OBVIOUS
  <2>p. PICK pol : pol = [r.pol EXCEPT !.install_id = id]
    OBVIOUS
  <2>k. PICK k : k = Identify(r, pol, r.change, r.copy)
    OBVIOUS
  <2>1. id \in InstallIds \cup {None} /\ r.change \in Changes /\ r.copy \in Settings
    BY <1>0, <2>i DEF Settings, Runs
  <2>2. /\ k \in Runs /\ RunInv(k) /\ k.phase = "build" /\ k.seen = r.seen /\ ~k.live
    BY <1>0, <2>1, <2>p, <2>k, Identified
  <2>3. proc' = [proc EXCEPT ![p] = k] /\ minted' = minted
    BY <1>r, <1>0, <1>2, <2>i, <2>p, <2>k DEF EnsureInstallId, Identify, Runs
  <2>4. Told(k) /\ Current(k)
    BY <1>0, <2>2, ToldEarly DEF Told
  <2> QED BY <1>0, <2>2, <2>3, <2>4, QuietStep
<1>3. CASE load(file).install_id = None
  <2>c. PICK change : change = [NoChange EXCEPT !.kind = "install_id", !.id = minted + 1]
    OBVIOUS
  <2>k. PICK k : k = OntoChange(r, "load", change)
    OBVIOUS
  <2>1. minted + 1 \in InstallIds /\ minted' = minted + 1
    BY <1>3 DEF EnsureInstallId
  <2>2. change \in Changes /\ change.kind = "install_id"
    BY <2>1, <2>c, Defaults DEF Changes
  <2>3. "load" \in Phases
    BY DEF Phases
  <2>4. /\ k \in Runs /\ k.phase = "load" /\ SameStart(k, r) /\ SameProvider(k, r) /\ SameSent(k, r)
        /\ k.pol = r.pol /\ k.said = r.said /\ k.change = change
    BY <1>0, <2>2, <2>3, <2>k, Changed
  <2>5. ChangeInv(k) /\ Early(r)
    BY <1>0, <1>1, <2>2, <2>4 DEF ChangeInv, Early
  <2>6. RunInv(k)
    BY <1>0, <2>4, <2>5, Moved
  <2>7. ~Announcing(r)
    BY <1>0 DEF Announcing
  <2>8. Told(k) /\ Current(k)
    BY <1>0, <2>4, <2>7, ToldOn
  <2>9. proc' = [proc EXCEPT ![p] = k]
    BY <1>r, <1>0, <1>3, <2>c, <2>k DEF EnsureInstallId, OntoChange
  <2>10. /\ file' = file /\ minted' \in {0} \cup InstallIds
         /\ announced' \subseteq TelemetryLevel /\ unprinted' \subseteq TelemetryLevel
         /\ announced \subseteq announced' /\ unprinted \subseteq unprinted'
    BY <1>0, <2>1, RunOf
  <2> QED BY <1>0, <2>4, <2>6, <2>8, <2>9, <2>10, OwnStep
<1> QED BY <1>2, <1>3

LEMMA BuildStep ==
    ASSUME TelemetryInv, NEW p \in Procs, BuildProviders(p)
    PROVE  TelemetryInv'
<1>r. PICK r : r = proc[p]
  OBVIOUS
<1>0. /\ r \in Runs /\ RunInv(r) /\ Told(r)
      /\ r.phase = "build" /\ ~At(p, "print") /\ proc \in [Procs -> Runs]
      /\ UNCHANGED <<file, announced, unprinted, minted>>
  BY <1>r, RunOf DEF BuildProviders, At
<1>l. PICK live \in BOOLEAN, bridged \in BOOLEAN :
         /\ live => exports(r.pol)
         /\ bridged => live
         /\ proc' = [proc EXCEPT ![p] = show_notice(WithProvider(r, live, bridged))]
  BY <1>r, <1>0 DEF BuildProviders, WithProvider
<1>b. PICK b : b = WithProvider(r, live, bridged)
  OBVIOUS
<1>k. PICK k : k = show_notice(b)
  OBVIOUS
<1>1. /\ b \in Runs /\ SameStart(b, r) /\ SameSent(b, r)
      /\ b.pol = r.pol /\ b.change = r.change /\ b.said = r.said
      /\ b.plain = r.plain /\ b.live = live /\ b.bridged = bridged
      /\ b.report # None /\ (b.report.foreign <=> live /\ ~bridged)
  BY <1>0, <1>b, ProviderBuilt, SMTT(60)
<1>2. /\ k \in Runs /\ RunInv(k) /\ k.seen = r.seen /\ k.phase \in {"dispatch", "load"}
      /\ k.live /\ EndUser(k) /\ k.in.tty /\ k.pol.source # "config_file" =>
           \/ k.phase = "load" /\ k.change.kind = "notice_shown" /\ k.change.level = k.pol.level
           \/ k.seen.notice_shown # None /\ k.pol.level <= k.seen.notice_shown
  BY <1>0, <1>1, <1>k, <1>l, Built
<1>3. ASSUME k.live, ~k.plain, EndUser(k), k.in.tty, k.pol.source # "config_file"
      PROVE  Covered(k.pol.level) \/ Announcing(k)
  <2>1. CASE k.phase = "load" /\ k.change.kind = "notice_shown" /\ k.change.level = k.pol.level
    BY <2>1 DEF Announcing
  <2>2. CASE k.seen.notice_shown # None /\ k.pol.level <= k.seen.notice_shown
    <3>1. Covered(k.seen.notice_shown)
      BY <1>0, <1>2, <2>2 DEF Told
    <3>2. k.seen.notice_shown \in 0 .. 3 /\ k.pol.level \in 0 .. 3
      BY <1>2, <2>2, Levels DEF Runs, Settings, TelemetryPolicies
    <3> QED BY <2>2, <3>1, <3>2, CoversLess
  <2> QED BY <1>2, <1>3, <2>1, <2>2
<1>4. Told(k) /\ Current(k)
  BY <1>0, <1>2, <1>3 DEF Told, Current
<1>5. proc' = [proc EXCEPT ![p] = k]
  BY <1>l, <1>b, <1>k
<1> QED BY <1>0, <1>2, <1>4, <1>5, QuietStep

LEMMA PrintStep ==
    ASSUME TelemetryInv, NEW p \in Procs, PrintNotice(p)
    PROVE  TelemetryInv'
<1>r. PICK r : r = proc[p]
  OBVIOUS
<1>0. /\ r \in Runs /\ RunInv(r) /\ Told(r) /\ r.phase = "print" /\ proc \in [Procs -> Runs]
      /\ announced' = announced \cup {r.change.level} /\ UNCHANGED <<file, unprinted, minted>>
      /\ announced \subseteq TelemetryLevel /\ unprinted \subseteq TelemetryLevel
      /\ minted \in {0} \cup InstallIds
  BY <1>r, RunOf DEF PrintNotice, At
<1>k. PICK k : k = OntoChange(r, "dispatch", NoChange)
  OBVIOUS
<1>1. "dispatch" \in Phases /\ NoChange \in Changes
  BY Defaults DEF Phases
<1>2. /\ k \in Runs /\ k.phase = "dispatch" /\ SameStart(k, r) /\ SameProvider(k, r) /\ SameSent(k, r)
      /\ k.pol = r.pol /\ k.said = r.said /\ k.change = NoChange
  BY <1>0, <1>1, <1>k, Changed
<1>3. ChangeInv(k) /\ ~Early(k)
  BY <1>2, Defaults DEF ChangeInv, Early
<1>4. RunInv(k)
  BY <1>0, <1>2, <1>3, Moved
<1>5. r.change.kind = "notice_shown" /\ r.change.level \in TelemetryLevel
  BY <1>0 DEF RunInv, ChangeInv
<1>6. Announcing(r) => Covered(r.pol.level)
  BY <1>r, <1>0, <1>5, Levels DEF Announcing, Covered, At
<1>7. Told(k) /\ Current(k)
  BY <1>0, <1>2, <1>6, ToldOn
<1>8. proc' = [proc EXCEPT ![p] = k]
  BY <1>r, <1>0, <1>k DEF PrintNotice, OntoChange
<1>9. /\ file' = file /\ minted' \in {0} \cup InstallIds
      /\ announced' \subseteq TelemetryLevel /\ unprinted' \subseteq TelemetryLevel
      /\ announced \subseteq announced' /\ unprinted \subseteq unprinted'
      /\ proc[p].change.level \in announced' \cup unprinted'
  BY <1>r, <1>0, <1>5
<1> QED BY <1>2, <1>4, <1>7, <1>8, <1>9, OwnStep

-----------------------------------------------------------------------------
(* The settings file is read, changed and replaced.                        *)

LEMMA Applied ==
    ASSUME NEW c \in Changes, NEW s \in Settings,
           c.kind \in {"disable", "enable"} => c.probe \in with_builtins,
           NEW t, t = apply(c, s)
    PROVE  /\ t \in Settings
           /\ c.kind # "level" => t.level = s.level
           /\ c.kind # "install_id" \/ s.install_id # None => t.install_id = s.install_id
           /\ c.kind # "notice_shown" => t.notice_shown = s.notice_shown
           /\ c.kind = "notice_shown" => t.notice_shown = c.level
           /\ c.kind \notin {"disable", "enable"} => t.off = s.off
<1>1. /\ c.kind \in {"install_id", "notice_shown", "level", "disable", "enable"}
      /\ c.level \in OptLevel /\ c.id \in InstallIds \cup {None}
  BY DEF Changes
<1>2. CASE c.kind = "install_id"
  <2>1. t = IF s.install_id = None THEN [s EXCEPT !.install_id = c.id] ELSE s
    BY <1>2 DEF apply
  <2> QED BY <1>1, <1>2, <2>1 DEF Settings
<1>3. CASE c.kind = "notice_shown"
  <2>1. t = [s EXCEPT !.notice_shown = c.level]
    BY <1>3 DEF apply
  <2> QED BY <1>1, <1>3, <2>1 DEF Settings
<1>4. CASE c.kind = "level"
  <2>1. t = [s EXCEPT !.level = c.level]
    BY <1>4 DEF apply
  <2> QED BY <1>1, <1>4, <2>1 DEF Settings
<1>5. CASE c.kind \in {"disable", "enable"}
  <2> PICK off : off = IF c.kind = "disable" THEN s.off \cup {c.probe} ELSE s.off \ {c.probe}
    OBVIOUS
  <2>1. t = [s EXCEPT !.off = off]
    BY <1>5 DEF apply
  <2>2. off \in SUBSET telemetry_registry
    BY <1>5 DEF Settings, telemetry_registry
  <2> QED BY <1>1, <1>5, <2>1, <2>2 DEF Settings
<1> QED BY <1>1, <1>2, <1>3, <1>4, <1>5

LEMMA ContinuedTold ==
    ASSUME NEW r \in Runs, RunInv(r), Told(r), r.phase \in {"load", "save"}, NEW ok \in BOOLEAN,
           NEW k, k = Continue(r, ok)
    PROVE  Told(k) /\ Current(k)
<1>1. /\ k.seen = r.seen /\ k.phase \in {"build", "print", "work"}
      /\ r.change.kind = "notice_shown" => k.phase = "print"
      /\ k.phase = "print" => k.change = r.change
      /\ k.phase = "build" => ~k.live
      /\ k.phase # "build" => k.pol = r.pol /\ SameProvider(k, r) /\ SameStart(k, r)
  BY Continued
<1>2. CASE k.phase = "build"
  <2>1. k.seen.notice_shown # None => Covered(k.seen.notice_shown)
    BY <1>1, Zenon DEF Told
  <2> QED BY <1>1, <1>2, <2>1, ToldEarly
<1>3. CASE k.phase # "build"
  <2>1. Announcing(r) => Announcing(k)
    BY <1>1, <1>3 DEF Announcing
  <2> QED BY <1>1, <1>3, <2>1, ToldOn
<1> QED BY <1>2, <1>3

Loading(r, copy) == [r EXCEPT !.copy = copy, !.phase = "save", !.stale = FALSE]
LEMMA Loaded ==
    ASSUME NEW r \in Runs, RunInv(r), r.phase = "load", NEW copy \in Settings,
           NEW k, k = Loading(r, copy)
    PROVE  /\ k \in Runs /\ RunInv(k) /\ k.phase = "save" /\ SameStart(k, r) /\ SameProvider(k, r)
           /\ k.pol = r.pol /\ k.change = r.change /\ k.copy = copy
<1> PICK no \in BOOLEAN : no = FALSE
  OBVIOUS
<1>1. k = [r EXCEPT !.copy = copy, !.phase = "save", !.stale = no]
  BY DEF Loading
<1>2. k \in Runs
  BY <1>1 DEF Runs, Phases
<1>3. k.live = r.live /\ k.plain = r.plain /\ k.bridged = r.bridged
  BY <1>1, Zenon DEF Runs
<1>4. /\ k.in = r.in /\ k.cmd = r.cmd /\ k.pol = r.pol /\ k.phase = "save" /\ k.seen = r.seen
      /\ k.change = r.change /\ k.copy = copy /\ k.report = r.report /\ k.said = r.said
      /\ k.spans = r.spans /\ k.sent = r.sent /\ k.counted = r.counted
  BY <1>1 DEF Runs
<1>5. SameStart(k, r) /\ SameProvider(k, r) /\ SameSent(k, r)
  BY <1>3, <1>4, Zenon DEF SameStart, SameProvider, SameSent
<1>6. ChangeInv(k) /\ (Early(k) => Early(r))
  BY <1>4 DEF ChangeInv, RunInv, Early
<1>7. RunInv(k)
  BY <1>2, <1>4, <1>5, <1>6, Moved
<1> QED BY <1>2, <1>4, <1>5, <1>7

LEMMA LoadStep ==
    ASSUME TelemetryInv, NEW p \in Procs, MutateLoad(p)
    PROVE  TelemetryInv'
<1>r. PICK r : r = proc[p]
  OBVIOUS
<1>0. /\ r \in Runs /\ RunInv(r) /\ Told(r) /\ load(file) \in Settings
      /\ r.phase = "load" /\ ~At(p, "print") /\ proc \in [Procs -> Runs]
      /\ UNCHANGED <<file, announced, unprinted, minted>>
  BY <1>r, RunOf DEF MutateLoad, At
<1>1. CASE r.in.store
  <2>c. PICK copy : copy = apply(r.change, load(file))
    OBVIOUS
  <2>k. PICK k : k = Loading(r, copy)
    OBVIOUS
  <2>1. r.change \in Changes /\ (r.change.kind \in {"disable", "enable"} => r.change.probe \in with_builtins)
    BY <1>0 DEF Runs, RunInv, ChangeInv
  <2>2. /\ copy \in Settings
        /\ r.change.kind # "notice_shown" => copy.notice_shown = load(file).notice_shown
        /\ r.change.kind = "notice_shown" => copy.notice_shown = r.change.level
    BY <1>0, <2>c, <2>1, Applied
  <2>3. /\ k \in Runs /\ RunInv(k) /\ k.phase = "save" /\ SameStart(k, r) /\ SameProvider(k, r)
        /\ k.pol = r.pol /\ k.change = r.change /\ k.copy = copy
    BY <1>0, <2>2, <2>k, Loaded
  <2>4. /\ k.seen.notice_shown # None => Covered(k.seen.notice_shown)
        /\ k.seen = r.seen /\ k.in = r.in
    BY <1>0, <2>3 DEF Told, SameStart
  <2>5. k.copy.notice_shown # None =>
          \/ Covered(k.copy.notice_shown)
          \/ k.change.kind = "notice_shown" /\ k.copy.notice_shown = k.change.level
    BY <2>2, <2>3 DEF TelemetryInv, FileTold
  <2>6. k.live /\ ~k.plain => r.live /\ ~r.plain
    BY <2>3, Zenon DEF SameProvider
  <2>7. Announcing(r) => Announcing(k)
    BY <2>3 DEF Announcing
  <2>8. k.live /\ ~k.plain /\ EndUser(k) /\ k.in.tty /\ k.pol.source # "config_file" =>
          Covered(k.pol.level) \/ Announcing(k)
    BY <1>0, <2>3, <2>4, <2>6, <2>7, Zenon DEF Told, EndUser
  <2>9. Told(k) /\ Current(k)
    BY <2>c, <2>3, <2>4, <2>5, <2>8 DEF Told, Current
  <2>10. proc' = [proc EXCEPT ![p] = k]
    BY <1>r, <1>0, <1>1, <2>c, <2>k DEF MutateLoad, Loading
  <2> QED BY <1>0, <2>3, <2>9, <2>10, QuietStep
<1>2. CASE ~r.in.store
  <2>k. PICK k : k = Continue(r, FALSE)
    OBVIOUS
  <2>1. k \in Runs /\ RunInv(k)
    BY <1>0, <2>k, Continued
  <2>2. Told(k) /\ Current(k)
    BY <1>0, <2>k, ContinuedTold
  <2>3. proc' = [proc EXCEPT ![p] = k]
    BY <1>r, <1>0, <1>2, <2>k DEF MutateLoad
  <2> QED BY <1>0, <2>1, <2>2, <2>3, QuietStep
<1> QED BY <1>1, <1>2

LEMMA SaveStep ==
    ASSUME TelemetryInv, NEW p \in Procs, MutateSave(p)
    PROVE  TelemetryInv'
<1>r. PICK r : r = proc[p]
  OBVIOUS
<1>0. /\ r \in Runs /\ RunInv(r) /\ Told(r)
      /\ r.phase = "save" /\ ~At(p, "print")
      /\ file' = r.copy /\ UNCHANGED <<announced, unprinted, minted>>
  BY <1>r, RunOf DEF MutateSave, At
<1>k. PICK k : k = Continue(r, TRUE)
  OBVIOUS
<1>1. /\ k \in Runs /\ RunInv(k) /\ k.phase \in {"build", "print", "work"}
      /\ r.change.kind = "notice_shown" => k.phase = "print"
      /\ k.phase = "print" => k.change = r.change
  BY <1>0, <1>k, Continued
<1>2. Told(k)
  BY <1>0, <1>k, ContinuedTold
<1>3. r.copy \in Settings
  BY <1>0 DEF Runs
<1>4. proc' = Overtake(p, k)
  BY <1>r, <1>k DEF MutateSave
<1>5. load(r.copy).notice_shown # None =>
        \/ Covered(load(r.copy).notice_shown)
        \/ k.phase = "print" /\ k.change.level = load(r.copy).notice_shown
  <2>1. CASE r.copy \in {None, Newer}
    BY <2>1, Defaults DEF load
  <2>2. CASE r.copy \notin {None, Newer}
    <3>1. load(r.copy) = r.copy
      BY <2>2 DEF load
    <3> QED BY <1>0, <1>1, <3>1 DEF Told
  <2> QED BY <2>1, <2>2
<1>6. file' \in Settings \cup {None} /\ k.phase # "save"
  BY <1>0, <1>1, <1>3
<1>7. load(file').notice_shown # None =>
        \/ Covered(load(file').notice_shown)
        \/ k.phase = "print" /\ k.change.level = load(file').notice_shown
  BY <1>0, <1>5
<1> QED BY <1>0, <1>1, <1>2, <1>4, <1>6, <1>7, FileStep

LEMMA FailStep ==
    ASSUME TelemetryInv, NEW p \in Procs, MutateFails(p)
    PROVE  TelemetryInv'
<1>r. PICK r : r = proc[p]
  OBVIOUS
<1>0. /\ r \in Runs /\ RunInv(r) /\ Told(r)
      /\ r.phase = "save" /\ ~At(p, "print") /\ proc \in [Procs -> Runs]
      /\ UNCHANGED <<file, announced, unprinted, minted>>
  BY <1>r, RunOf DEF MutateFails, At
<1>k. PICK k : k = Continue(r, FALSE)
  OBVIOUS
<1>1. k \in Runs /\ RunInv(k)
  BY <1>0, <1>k, Continued
<1>2. Told(k) /\ Current(k)
  BY <1>0, <1>k, ContinuedTold
<1>3. proc' = [proc EXCEPT ![p] = k]
  BY <1>r, <1>0, <1>k DEF MutateFails
<1> QED BY <1>0, <1>1, <1>2, <1>3, QuietStep

-----------------------------------------------------------------------------
(* The command.                                                            *)

Resulting(r, phase, result) == [r EXCEPT !.phase = phase, !.result = result]
LEMMA Resulted ==
    ASSUME NEW r \in Runs, NEW phase \in Phases, NEW result \in Results, NEW k, k = Resulting(r, phase, result)
    PROVE  /\ k \in Runs /\ k.phase = phase /\ SameStart(k, r) /\ SameProvider(k, r) /\ SameSent(k, r)
           /\ k.pol = r.pol /\ k.said = r.said /\ k.change = r.change
<1>1. k \in Runs
  BY DEF Runs, Resulting
<1>2. k.live = r.live /\ k.plain = r.plain /\ k.bridged = r.bridged
  BY Zenon DEF Runs, Resulting
<1>3. /\ k.in = r.in /\ k.cmd = r.cmd /\ k.pol = r.pol /\ k.phase = phase /\ k.seen = r.seen
      /\ k.change = r.change /\ k.report = r.report /\ k.said = r.said
      /\ k.spans = r.spans /\ k.sent = r.sent /\ k.counted = r.counted
  BY DEF Runs, Resulting
<1> QED BY <1>1, <1>2, <1>3, Zenon DEF SameStart, SameProvider, SameSent

\* What the telemetry commands write about.
LEMMA Written ==
    ASSUME NEW c \in CommandType, Writes(c), NEW change, change = change_of(c)
    PROVE  /\ change \in Changes /\ change.kind \in {"level", "disable", "enable"}
           /\ change.kind \in {"disable", "enable"} => change.probe \in with_builtins
<1>1. c.level \in OptLevel /\ NoChange \in Changes
  BY Defaults DEF CommandType
<1>2. CASE c.kind = "set"
  <2>1. change = [NoChange EXCEPT !.level = c.level]
    BY <1>2 DEF change_of, set_level
  <2>2. NoChange.kind = "level"
    BY Defaults
  <2> QED BY <1>1, <2>1, <2>2 DEF Changes
<1>3. CASE c.kind \in {"disable", "enable"}
  <2>1. c.probe \in with_builtins /\ with_builtins = BUILTIN_PROBES
    BY <1>3 DEF Writes, with_builtins
  <2>2. change = [NoChange EXCEPT !.kind = c.kind, !.probe = c.probe]
    BY <1>3 DEF change_of, disable_probe, enable_probe
  <2> QED BY <1>1, <1>3, <2>1, <2>2 DEF Changes
<1> QED BY <1>2, <1>3 DEF Writes

LEMMA DispatchStep ==
    ASSUME TelemetryInv, NEW p \in Procs, Dispatch(p)
    PROVE  TelemetryInv'
<1>r. PICK r : r = proc[p]
  OBVIOUS
<1>c. PICK c : c = r.cmd
  OBVIOUS
<1>0. /\ r \in Runs /\ RunInv(r) /\ Told(r) /\ c \in CommandType
      /\ r.phase = "dispatch" /\ ~At(p, "print") /\ proc \in [Procs -> Runs]
      /\ UNCHANGED <<file, announced, unprinted, minted>>
  BY <1>r, <1>c, RunOf DEF Dispatch, At, Runs
<1>1. ~Announcing(r)
  BY <1>0 DEF Announcing
<1>2. ASSUME NEW k \in Runs, SameStart(k, r), SameProvider(k, r), SameSent(k, r), k.pol = r.pol,
             k.said = r.said, ChangeInv(k), ~Early(k), k.phase # "save", proc' = [proc EXCEPT ![p] = k]
      PROVE  TelemetryInv'
  <2>1. RunInv(k)
    BY <1>0, <1>2, Moved
  <2>2. Told(k) /\ Current(k)
    BY <1>0, <1>1, <1>2, ToldOn
  <2> QED BY <1>0, <1>2, <2>1, <2>2, QuietStep
<1>3. ASSUME NEW phase \in {"flush", "work"}, NEW result \in Results,
             proc' = [proc EXCEPT ![p].phase = phase, ![p].result = result]
      PROVE  TelemetryInv'
  <2>k. PICK k : k = Resulting(r, phase, result)
    OBVIOUS
  <2>0. phase \in Phases
    BY DEF Phases
  <2>1. /\ k \in Runs /\ k.phase = phase /\ SameStart(k, r) /\ SameProvider(k, r) /\ SameSent(k, r)
        /\ k.pol = r.pol /\ k.said = r.said /\ k.change = r.change
    BY <1>0, <2>0, <2>k, Resulted
  <2>2. ChangeInv(k) /\ ~Early(k)
    BY <1>0, <2>1 DEF ChangeInv, Early, RunInv
  <2>3. proc' = [proc EXCEPT ![p] = k]
    BY <1>r, <1>0, <1>3, <2>k DEF Resulting
  <2> QED BY <1>2, <2>1, <2>2, <2>3
<1>4. CASE /\ c.kind \in {"help", "usage_error"} \/ ~registered(r.in, c)
           /\ proc' = [proc EXCEPT ![p].phase = "flush",
                         ![p].result = IF c.kind = "help" THEN "ok" ELSE "failed"]
  <2>1. (IF c.kind = "help" THEN "ok" ELSE "failed") \in Results
    BY DEF Results
  <2> QED BY <1>3, <1>4, <2>1
<1>5. CASE /\ registered(r.in, c) /\ Writes(c)
           /\ proc' = [proc EXCEPT ![p].change = change_of(c), ![p].phase = "load"]
  <2>d. PICK change : change = change_of(c)
    OBVIOUS
  <2>k. PICK k : k = OntoChange(r, "load", change)
    OBVIOUS
  <2>1. /\ change \in Changes /\ change.kind \in {"level", "disable", "enable"}
        /\ change.kind \in {"disable", "enable"} => change.probe \in with_builtins
    BY <1>0, <1>5, <2>d, Written
  <2>2. "load" \in Phases
    BY DEF Phases
  <2>3. /\ k \in Runs /\ k.phase = "load" /\ SameStart(k, r) /\ SameProvider(k, r) /\ SameSent(k, r)
        /\ k.pol = r.pol /\ k.said = r.said /\ k.change = change
    BY <1>0, <2>1, <2>2, <2>k, Changed
  <2>4. ChangeInv(k) /\ ~Early(k) /\ k.phase # "save"
    BY <2>1, <2>3 DEF ChangeInv, Early
  <2>5. proc' = [proc EXCEPT ![p] = k]
    BY <1>r, <1>0, <1>5, <2>d, <2>k DEF OntoChange, Runs
  <2> QED BY <1>2, <2>3, <2>4, <2>5
<1>6. CASE /\ registered(r.in, c) /\ c.kind \notin {"help", "usage_error"} /\ ~Writes(c)
           /\ proc' = [proc EXCEPT ![p].phase = "work",
                         ![p].result = CASE c.kind = "app" -> "ok"
                                         [] c.kind \in {"disable", "enable"} -> "failed"
                                         [] OTHER -> None]
  <2>1. (CASE c.kind = "app" -> "ok"
           [] c.kind \in {"disable", "enable"} -> "failed"
           [] OTHER -> None) \in Results
    BY DEF Results
  <2> QED BY <1>3, <1>6, <2>1
<1> QED BY <1>r, <1>c, <1>4, <1>5, <1>6 DEF Dispatch

LEMMA ResetStep ==
    ASSUME TelemetryInv, NEW p \in Procs, Reset(p)
    PROVE  TelemetryInv'
<1>r. PICK r : r = proc[p]
  OBVIOUS
<1>0. /\ r \in Runs /\ RunInv(r) /\ Told(r)
      /\ r.phase = "work" /\ ~At(p, "print") /\ proc \in [Procs -> Runs]
      /\ UNCHANGED <<announced, unprinted, minted>>
  BY <1>r, RunOf DEF Reset, Working, At
<1>1. ASSUME NEW result \in Results, NEW k, k = Resulting(r, "work", result)
      PROVE  k \in Runs /\ RunInv(k) /\ Told(k) /\ Current(k) /\ k.phase = "work"
  <2>1. "work" \in Phases
    BY DEF Phases
  <2>2. /\ k \in Runs /\ k.phase = "work" /\ SameStart(k, r) /\ SameProvider(k, r) /\ SameSent(k, r)
        /\ k.pol = r.pol /\ k.said = r.said /\ k.change = r.change
    BY <1>0, <1>1, <2>1, Resulted
  <2>3. ChangeInv(k) /\ ~Early(k) /\ ~Announcing(r)
    BY <1>0, <2>2 DEF ChangeInv, Early, RunInv, Announcing
  <2>4. RunInv(k)
    BY <1>0, <2>2, <2>3, Moved
  <2>5. Told(k) /\ Current(k)
    BY <1>0, <2>2, <2>3, ToldOn
  <2> QED BY <2>2, <2>4, <2>5
<1>2. "ok" \in Results /\ "failed" \in Results
  BY DEF Results
<1>3. CASE file' = None /\ proc' = Overtake(p, [r EXCEPT !.result = "ok"])
  <2>k. PICK k : k = Resulting(r, "work", "ok")
    OBVIOUS
  <2>1. k \in Runs /\ RunInv(k) /\ Told(k) /\ k.phase = "work"
    BY <1>1, <1>2, <2>k
  <2>2. k = [r EXCEPT !.result = "ok"]
    BY <1>0, <2>k DEF Resulting, Runs
  <2>3. load(file').notice_shown = None /\ file' \in Settings \cup {None}
    BY <1>3, Defaults DEF load
  <2>4. proc' = Overtake(p, k)
    BY <1>3, <2>2
  <2> QED BY <1>0, <2>1, <2>3, <2>4, FileStep
<1>4. CASE proc' = [proc EXCEPT ![p].result = "failed"] /\ file' = file
  <2>k. PICK k : k = Resulting(r, "work", "failed")
    OBVIOUS
  <2>1. k \in Runs /\ RunInv(k) /\ Told(k) /\ Current(k)
    BY <1>1, <1>2, <2>k
  <2>2. k = [r EXCEPT !.result = "failed"]
    BY <1>0, <2>k DEF Resulting, Runs
  <2>3. proc' = [proc EXCEPT ![p] = k]
    BY <1>r, <1>0, <1>4, <2>2
  <2> QED BY <1>0, <1>4, <2>1, <2>3, QuietStep
<1> QED BY <1>r, <1>3, <1>4 DEF Reset

\* What a telemetry command prints.
Saying(r, said) == [r EXCEPT !.result = "ok", !.said = said]
LEMMA Said ==
    ASSUME NEW r \in Runs, RunInv(r), Told(r), r.phase = "work",
           NEW said \in DoctorSays \cup StatusSays \cup {None},
           r.cmd.kind = "doctor" /\ said # None /\ r.live =>
             /\ said.subscriber = "ok" => r.bridged
             /\ said.subscriber = "skipped" => r.plain,
           NEW k, k = Saying(r, said)
    PROVE  k \in Runs /\ RunInv(k) /\ Told(k) /\ Current(k)
<1>1. k \in Runs
  BY DEF Saying, Runs, Results
<1>2. k.live = r.live /\ k.plain = r.plain /\ k.bridged = r.bridged
  BY Zenon DEF Runs, Saying
<1>3. /\ k.in = r.in /\ k.cmd = r.cmd /\ k.pol = r.pol /\ k.phase = "work" /\ k.seen = r.seen
      /\ k.change = r.change /\ k.report = r.report /\ k.said = said
      /\ k.spans = r.spans /\ k.sent = r.sent /\ k.counted = r.counted
  BY DEF Runs, Saying
<1>4. SameStart(k, r) /\ SameProvider(k, r) /\ SameSent(k, r)
  BY <1>2, <1>3, Zenon DEF SameStart, SameProvider, SameSent
<1>5. ChangeInv(k) /\ ~Early(k) /\ ~Announcing(r)
  BY <1>3 DEF ChangeInv, RunInv, Early, Announcing
<1>6. PolicyInv(k)
  <2>1. PolicyInv(r)
    BY DEF RunInv
  <2> QED BY <1>3, <1>4, <2>1 DEF PolicyInv, EndUser, SameProvider
<1>7. ProviderInv(k)
  <2>1. /\ r.live /\ ~r.plain => exports(r.pol)
        /\ r.bridged => r.live
        /\ r.plain => r.live
        /\ r.live /\ r.report = None => r.plain
        /\ r.report # None => (r.report.foreign <=> r.live /\ ~r.bridged)
    BY DEF RunInv, ProviderInv
  <2> QED BY <1>3, <1>4, <1>5, <2>1 DEF ProviderInv, SameProvider
<1>8. SentInv(k)
  BY <1>3, <1>4 DEF SentInv, RunInv, SameProvider
<1>9. Told(k) /\ Current(k)
  BY <1>3, <1>4, <1>5, ToldOn
<1> QED BY <1>1, <1>5, <1>6, <1>7, <1>8, <1>9 DEF RunInv

LEMMA StatusReported ==
    ASSUME NEW kill \in BOOLEAN, NEW store \in BOOLEAN, NEW s \in Settings,
           NEW said, said = status_report(build_policy(kill, store, s))
    PROVE  said \in StatusSays
<1>b. PICK built : built = [endpoint |-> FALSE]
  OBVIOUS
<1>o. PICK opened : opened = [store |-> store]
  OBVIOUS
<1>t. PICK base : base = telemetry_inputs(built)
  OBVIOUS
<1>f. PICK folded : folded = fold_store(base, opened, s)
  OBVIOUS
<1>p. PICK pol : pol = resolve_policy("end_user", kill, folded)
  OBVIOUS
<1>1. built.endpoint \in BOOLEAN
  BY <1>b
<1>2. opened.store \in BOOLEAN
  BY <1>o
<1>3. base \in Bases
  BY <1>1, <1>t, BuiltBase
<1>4. folded \in Bases
  BY <1>2, <1>3, <1>f, StoreFolded
<1>5. "end_user" \in Deployments
  BY DEF Deployments
<1>6. pol \in TelemetryPolicies
  BY <1>4, <1>5, <1>p, PolicyResolved
<1>7. build_policy(kill, store, s) = pol
  BY <1>b, <1>o, <1>t, <1>f, <1>p DEF build_policy
<1>8. said = status_report(pol)
  BY <1>7
<1> PICK on : on = {q \in with_builtins : effective(with_builtins, pol.level, pol.off, q)}
  OBVIOUS
<1>9. said = [level |-> pol.level, source |-> pol.source, attribution |-> pol.attribution,
              install_id |-> pol.install_id, effective |-> on]
  BY <1>8 DEF status_report
<1>10. on \in SUBSET with_builtins
  OBVIOUS
<1>11. /\ pol.level \in TelemetryLevel /\ pol.source \in Sources /\ pol.attribution \in Attribution
       /\ pol.install_id \in InstallIds \cup {None}
  BY <1>6 DEF TelemetryPolicies, Sources
<1> HIDE DEF Sources
<1> QED BY <1>9, <1>10, <1>11 DEF StatusSays

LEMMA StatusStep ==
    ASSUME TelemetryInv, NEW p \in Procs, Status(p)
    PROVE  TelemetryInv'
<1>r. PICK r : r = proc[p]
  OBVIOUS
<1>0. /\ r \in Runs /\ RunInv(r) /\ Told(r) /\ load(file) \in Settings
      /\ r.phase = "work" /\ r.cmd.kind = "status" /\ ~At(p, "print") /\ proc \in [Procs -> Runs]
      /\ UNCHANGED <<file, announced, unprinted, minted>>
  BY <1>r, RunOf DEF Status, Working, At
<1>s. PICK s : s = IF r.in.store THEN load(file) ELSE DefaultSettings
  OBVIOUS
<1>d. PICK said : said = status_report(build_policy(r.in.kill_switch, r.in.store, s))
  OBVIOUS
<1>k. PICK k : k = Saying(r, said)
  OBVIOUS
<1>1. s \in Settings /\ r.in.kill_switch \in BOOLEAN /\ r.in.store \in BOOLEAN
  BY <1>0, <1>s, Defaults DEF Runs, StartupInputs
<1>2. said \in StatusSays
  BY <1>1, <1>d, StatusReported
<1>3. k \in Runs /\ RunInv(k) /\ Told(k) /\ Current(k)
  BY <1>0, <1>2, <1>k, Said
<1>4. proc' = [proc EXCEPT ![p] = k]
  BY <1>r, <1>0, <1>s, <1>d, <1>k DEF Status, Saying
<1> QED BY <1>0, <1>3, <1>4, QuietStep

LEMMA DoctorChecks ==
    ASSUME NEW r \in Runs, RunInv(r), NEW reached \in BOOLEAN,
           NEW said, said = telemetry_checks(r.pol, r.report, reached)
    PROVE  /\ said \in DoctorSays
           /\ r.live => /\ said.subscriber = "ok" => r.bridged
                        /\ said.subscriber = "skipped" => r.plain
<1>1. /\ said.subscriber = SubscriberCheck(r.report) /\ said.store = StoreCheck(r.report)
      /\ said.endpoint = EndpointCheck(r.pol, reached) /\ said.policy = PolicyCheck
      /\ said.identity = IdentityCheck(r.pol) /\ said.env = EnvCheck(r.report)
  BY DEF telemetry_checks
<1>2. SubscriberCheck(r.report) \in Checked /\ StoreCheck(r.report) \in Checked /\ EnvCheck(r.report) \in Checked
  BY DEF SubscriberCheck, StoreCheck, EnvCheck, Checked, awaiting_startup
<1>3. EndpointCheck(r.pol, reached) \in Checked /\ PolicyCheck \in Checked
  BY DEF EndpointCheck, PolicyCheck, Checked
<1>4. IdentityCheck(r.pol) \in Attribution
  BY DEF IdentityCheck, Runs, TelemetryPolicies
<1>5. said \in DoctorSays
  BY <1>2, <1>3, <1>4 DEF DoctorSays, telemetry_checks
<1>6. /\ r.live /\ r.report = None => r.plain
      /\ r.report # None => (r.report.foreign <=> r.live /\ ~r.bridged)
  BY DEF RunInv, ProviderInv
<1>7. ASSUME r.live, SubscriberCheck(r.report) = "ok" PROVE r.bridged
  BY <1>6, <1>7 DEF SubscriberCheck, awaiting_startup
<1>8. ASSUME r.live, SubscriberCheck(r.report) = "skipped" PROVE r.plain
  BY <1>6, <1>8 DEF SubscriberCheck, awaiting_startup
<1> QED BY <1>1, <1>5, <1>7, <1>8

LEMMA DoctorStep ==
    ASSUME TelemetryInv, NEW p \in Procs, Doctor(p)
    PROVE  TelemetryInv'
<1>r. PICK r : r = proc[p]
  OBVIOUS
<1>0. /\ r \in Runs /\ RunInv(r) /\ Told(r)
      /\ r.phase = "work" /\ ~At(p, "print") /\ proc \in [Procs -> Runs]
      /\ UNCHANGED <<file, announced, unprinted, minted>>
  BY <1>r, RunOf DEF Doctor, Working, At
<1>e. PICK reached \in BOOLEAN :
       proc' = [proc EXCEPT ![p].result = "ok",
                  ![p].said = IF telemetry_withdrawn(r.in) THEN None
                              ELSE telemetry_checks(r.pol, r.report, reached)]
  BY <1>r DEF Doctor
<1>d. PICK said : said = IF telemetry_withdrawn(r.in) THEN None ELSE telemetry_checks(r.pol, r.report, reached)
  OBVIOUS
<1>k. PICK k : k = Saying(r, said)
  OBVIOUS
<1>1. /\ said \in DoctorSays \cup {None}
      /\ said # None /\ r.live => /\ said.subscriber = "ok" => r.bridged
                                  /\ said.subscriber = "skipped" => r.plain
  <2>1. CASE telemetry_withdrawn(r.in)
    BY <1>d, <2>1
  <2>2. CASE ~telemetry_withdrawn(r.in)
    <3>1. said = telemetry_checks(r.pol, r.report, reached)
      BY <1>d, <2>2
    <3> QED BY <1>0, <3>1, DoctorChecks
  <2> QED BY <2>1, <2>2
<1>3. k \in Runs /\ RunInv(k) /\ Told(k) /\ Current(k)
  BY <1>0, <1>1, <1>k, Said
<1>4. proc' = [proc EXCEPT ![p] = k]
  BY <1>r, <1>0, <1>e, <1>d, <1>k DEF Saying
<1> QED BY <1>0, <1>3, <1>4, QuietStep

\* A command has ended and left its spans and counts behind.
Ending(r, result, spans, counted) ==
  [r EXCEPT !.phase = "flush", !.result = result, !.spans = spans, !.counted = counted]
LEMMA Ended ==
    ASSUME NEW r \in Runs, RunInv(r), Told(r), r.phase = "work",
           NEW result \in Results, NEW spans \in SUBSET Spans, NEW counted \in SUBSET (SUBSET Keys),
           spans # {} => r.live, counted # {} => r.live,
           \A s \in spans : /\ InstallId \in s.attrs => r.pol.install_id # None
                           /\ \A e \in s.events : InstallId \notin e.attrs,
           ~r.plain => \A labels \in counted : labels \subseteq Labels,
           NEW k, k = Ending(r, result, spans, counted)
    PROVE  k \in Runs /\ RunInv(k) /\ Told(k) /\ Current(k)
<1>1. k \in Runs
  BY DEF Ending, Runs, Phases
<1>2. k.live = r.live /\ k.plain = r.plain /\ k.bridged = r.bridged
  BY Zenon DEF Runs, Ending
<1>3. /\ k.in = r.in /\ k.cmd = r.cmd /\ k.pol = r.pol /\ k.phase = "flush" /\ k.seen = r.seen
      /\ k.change = r.change /\ k.report = r.report /\ k.said = r.said
      /\ k.spans = spans /\ k.sent = r.sent /\ k.counted = counted
  BY DEF Runs, Ending
<1>4. SameStart(k, r) /\ SameProvider(k, r)
  BY <1>2, <1>3, Zenon DEF SameStart, SameProvider
<1>5. ChangeInv(k) /\ ~Early(k) /\ ~Announcing(r)
  BY <1>3 DEF ChangeInv, RunInv, Early, Announcing
<1>6. PolicyInv(k)
  <2>1. PolicyInv(r)
    BY DEF RunInv
  <2> QED BY <1>3, <1>4, <2>1 DEF PolicyInv, EndUser, SameProvider
<1>7. ProviderInv(k)
  BY <1>3, <1>4, <1>5 DEF ProviderInv, SameProvider, RunInv
<1>8. SentInv(k)
  <2>1. r.sent = {}
    BY DEF RunInv, SentInv
  <2> QED BY <1>3, <1>4, <2>1 DEF SentInv, SameProvider
<1>9. Told(k) /\ Current(k)
  BY <1>3, <1>4, <1>5, ToldOn
<1> QED BY <1>1, <1>5, <1>6, <1>7, <1>8, <1>9 DEF RunInv

\* What is counted: under a provider only, and with the labels of the view.
LEMMA Counted ==
    ASSUME NEW r \in Runs, NEW labels \in SUBSET Keys, NEW counted, counted = Metrics(r, labels)
    PROVE  /\ counted \in SUBSET (SUBSET Keys) /\ (counted # {} => r.live)
           /\ ~r.plain => \A l \in counted : l \subseteq Labels
<1>1. view(labels) \subseteq Labels /\ view(labels) \subseteq Keys
  BY DEF view, metric_label_is_allowed
<1>2. CASE ~r.live
  BY <1>2 DEF Metrics
<1>3. CASE r.live /\ r.plain
  <2>1. counted = {labels}
    BY <1>3 DEF Metrics
  <2> QED BY <1>3, <2>1
<1>4. CASE r.live /\ ~r.plain
  <2>1. counted = {view(labels)}
    BY <1>4 DEF Metrics
  <2> QED BY <1>1, <1>4, <2>1
<1> QED BY <1>2, <1>3, <1>4

LEMMA ReturnedStep ==
    ASSUME TelemetryInv, NEW p \in Procs, CommandReturned(p)
    PROVE  TelemetryInv'
<1>r. PICK r : r = proc[p]
  OBVIOUS
<1>0. /\ r \in Runs /\ RunInv(r) /\ Told(r)
      /\ r.phase = "work" /\ ~At(p, "print") /\ proc \in [Procs -> Runs]
      /\ UNCHANGED <<file, announced, unprinted, minted>>
  BY <1>r, RunOf DEF CommandReturned, At
<1>s. PICK span : span = [root_span EXCEPT !.probe = <<"cli", "command">>,
                                !.attrs = @ \cup command_span_attrs(r.pol) \cup AuthorAttrs]
  OBVIOUS
<1>c. PICK counted : counted = Metrics(r, command_metric_labels) \cup Metrics(r, AuthorAttrs)
  OBVIOUS
<1>e. PICK sampled \in BOOLEAN :
         proc' = [proc EXCEPT ![p] =
               [r EXCEPT !.phase = "flush",
                         !.spans = IF r.bridged /\ sampled THEN {span} ELSE {},
                         !.counted = counted]]
  BY <1>r, <1>0, <1>s, <1>c DEF CommandReturned
<1>b. PICK spans : spans = IF r.bridged /\ sampled THEN {span} ELSE {}
  OBVIOUS
<1>k. PICK k : k = Ending(r, r.result, spans, counted)
  OBVIOUS
<1>1. /\ root_span.attrs = {ArgNames} /\ root_span.events = {} /\ InstallId # ArgNames
      /\ root_span \in Spans /\ command_span_attrs(r.pol) \in SUBSET Keys
      /\ InstallId \in command_span_attrs(r.pol) => r.pol.install_id # None
      /\ AuthorAttrs \in SUBSET Keys /\ InstallId \notin AuthorAttrs
  BY Recorded DEF root_span
<1>a. PICK attrs : attrs = {ArgNames} \cup command_span_attrs(r.pol) \cup AuthorAttrs
  OBVIOUS
<1>2. attrs \in SUBSET Keys /\ (InstallId \in attrs => r.pol.install_id # None)
  BY <1>1, <1>a DEF Keys
<1>3. span = [root_span EXCEPT !.probe = <<"cli", "command">>, !.attrs = attrs]
  BY <1>1, <1>s, <1>a
<1>4. span \in Spans /\ span.attrs = attrs /\ span.events = {}
  BY <1>1, <1>2, <1>3 DEF Spans
<1>5. command_metric_labels \in SUBSET Keys
  BY DEF command_metric_labels, Keys
<1>6. /\ counted \in SUBSET (SUBSET Keys) /\ (counted # {} => r.live)
      /\ ~r.plain => \A l \in counted : l \subseteq Labels
  <2>1. ASSUME NEW labels \in SUBSET Keys
        PROVE  /\ Metrics(r, labels) \in SUBSET (SUBSET Keys)
               /\ Metrics(r, labels) # {} => r.live
               /\ ~r.plain => \A l \in Metrics(r, labels) : l \subseteq Labels
    BY <1>0, Counted
  <2>2. /\ Metrics(r, command_metric_labels) \in SUBSET (SUBSET Keys)
        /\ Metrics(r, command_metric_labels) # {} => r.live
        /\ ~r.plain => \A l \in Metrics(r, command_metric_labels) : l \subseteq Labels
    BY <1>5, <2>1
  <2>3. /\ Metrics(r, AuthorAttrs) \in SUBSET (SUBSET Keys)
        /\ Metrics(r, AuthorAttrs) # {} => r.live
        /\ ~r.plain => \A l \in Metrics(r, AuthorAttrs) : l \subseteq Labels
    BY <1>1, <2>1
  <2> QED BY <1>c, <2>2, <2>3
<1>7. spans \in SUBSET Spans /\ (spans # {} => r.live)
      /\ \A s \in spans : /\ InstallId \in s.attrs => r.pol.install_id # None
                         /\ \A e \in s.events : InstallId \notin e.attrs
  <2>1. r.bridged => r.live
    BY <1>0 DEF RunInv, ProviderInv
  <2> QED BY <1>2, <1>4, <1>b, <2>1
<1>8. r.result \in Results
  BY <1>0 DEF Runs
<1>9. k \in Runs /\ RunInv(k) /\ Told(k) /\ Current(k)
  BY <1>0, <1>6, <1>7, <1>8, <1>k, Ended
<1>10. k = [r EXCEPT !.phase = "flush", !.spans = spans, !.counted = counted]
  BY <1>0, <1>k DEF Ending, Runs
<1>11. proc' = [proc EXCEPT ![p] = k]
  BY <1>e, <1>b, <1>10
<1> QED BY <1>0, <1>9, <1>11, QuietStep

LEMMA PanickedStep ==
    ASSUME TelemetryInv, NEW p \in Procs, CommandPanicked(p)
    PROVE  TelemetryInv'
<1>r. PICK r : r = proc[p]
  OBVIOUS
<1>0. /\ r \in Runs /\ RunInv(r) /\ Told(r)
      /\ r.phase = "work" /\ ~At(p, "print") /\ proc \in [Procs -> Runs]
      /\ UNCHANGED <<file, announced, unprinted, minted>>
  BY <1>r, RunOf DEF CommandPanicked, At
<1>p. PICK reported \in BOOLEAN :
         reported = (r.live /\ ~r.plain /\ policy_effective(r.pol, <<"cli", "panic">>))
  OBVIOUS
<1>v. PICK events : events = IF reported THEN {panic_event(r.pol)} ELSE {}
  OBVIOUS
<1>s. PICK span : span = [root_span EXCEPT !.events = events]
  OBVIOUS
<1>b. PICK spans : spans = IF r.bridged THEN {span} ELSE {}
  OBVIOUS
<1>c. PICK counted : counted = IF reported THEN Metrics(r, {}) ELSE {}
  OBVIOUS
<1>k. PICK k : k = Ending(r, "panicked", spans, counted)
  OBVIOUS
<1>1. /\ root_span.attrs = {ArgNames} /\ root_span \in Spans /\ InstallId # ArgNames
      /\ panic_event(r.pol) \in Events /\ InstallId \notin panic_event(r.pol).attrs
  BY Recorded
<1>2. events \in SUBSET Events /\ \A e \in events : InstallId \notin e.attrs
  BY <1>1, <1>v
<1>3. span \in Spans /\ span.attrs = {ArgNames} /\ span.events = events
  BY <1>1, <1>2, <1>s DEF Spans
<1>4. spans \in SUBSET Spans /\ (spans # {} => r.live)
      /\ \A s \in spans : /\ InstallId \in s.attrs => r.pol.install_id # None
                         /\ \A e \in s.events : InstallId \notin e.attrs
  <2>1. r.bridged => r.live
    BY <1>0 DEF RunInv, ProviderInv
  <2> QED BY <1>1, <1>2, <1>3, <1>b, <2>1
<1>5. /\ counted \in SUBSET (SUBSET Keys) /\ (counted # {} => r.live)
      /\ ~r.plain => \A l \in counted : l \subseteq Labels
  <2>1. CASE reported
    <3>1. {} \in SUBSET Keys /\ counted = Metrics(r, {})
      BY <1>c, <2>1
    <3> QED BY <1>0, <3>1, Counted
  <2>2. CASE ~reported
    BY <1>c, <2>2
  <2> QED BY <2>1, <2>2
<1>6. "panicked" \in Results
  BY DEF Results
<1>7. k \in Runs /\ RunInv(k) /\ Told(k) /\ Current(k)
  BY <1>0, <1>4, <1>5, <1>6, <1>k, Ended
<1>8. proc' = [proc EXCEPT ![p] = k]
  BY <1>r, <1>0, <1>p, <1>v, <1>s, <1>b, <1>c, <1>k DEF CommandPanicked, Ending
<1> QED BY <1>0, <1>7, <1>8, QuietStep

-----------------------------------------------------------------------------
(* Export.                                                                 *)

Flushed(r, sent) == [r EXCEPT !.phase = "idle", !.spans = {}, !.sent = sent]
LEMMA FlushEnded ==
    ASSUME NEW r \in Runs, RunInv(r), Told(r), r.phase = "flush", NEW sent \in SUBSET Spans,
           sent # {} => r.live,
           \A s \in sent : /\ InstallId \in s.attrs => r.pol.install_id # None
                          /\ \A e \in s.events : InstallId \notin e.attrs,
           ~r.plain => \A s \in sent : /\ Clean(r.pol, r.in.allowlist, s)
                                      /\ \A e \in s.events : Clean(r.pol, r.in.allowlist, e),
           NEW k, k = Flushed(r, sent)
    PROVE  k \in Runs /\ RunInv(k) /\ Told(k) /\ Current(k)
<1>1. k \in Runs
  BY DEF Flushed, Runs, Phases
<1>2. k.live = r.live /\ k.plain = r.plain /\ k.bridged = r.bridged
  BY Zenon DEF Runs, Flushed
<1>3. /\ k.in = r.in /\ k.cmd = r.cmd /\ k.pol = r.pol /\ k.phase = "idle" /\ k.seen = r.seen
      /\ k.change = r.change /\ k.report = r.report /\ k.said = r.said
      /\ k.spans = {} /\ k.sent = sent /\ k.counted = r.counted
  BY DEF Runs, Flushed
<1>4. SameStart(k, r) /\ SameProvider(k, r)
  BY <1>2, <1>3, Zenon DEF SameStart, SameProvider
<1>5. ChangeInv(k) /\ ~Early(k) /\ ~Announcing(r)
  BY <1>3 DEF ChangeInv, RunInv, Early, Announcing
<1>6. PolicyInv(k)
  <2>1. PolicyInv(r)
    BY DEF RunInv
  <2> QED BY <1>3, <1>4, <2>1 DEF PolicyInv, EndUser, SameProvider
<1>7. ProviderInv(k)
  BY <1>3, <1>4, <1>5 DEF ProviderInv, SameProvider, RunInv
<1>8. SentInv(k)
  <2>1. /\ r.counted # {} => r.live
        /\ ~r.plain => \A labels \in r.counted : labels \subseteq Labels
    BY DEF RunInv, SentInv
  <2> QED BY <1>3, <1>4, <2>1 DEF SentInv, SameProvider
<1>9. Told(k) /\ Current(k)
  BY <1>3, <1>4, <1>5, ToldOn
<1> QED BY <1>1, <1>5, <1>6, <1>7, <1>8, <1>9 DEF RunInv

LEMMA FlushStep ==
    ASSUME TelemetryInv, NEW p \in Procs, FlushCompletes(p) \/ FlushTimesOut(p)
    PROVE  TelemetryInv'
<1>r. PICK r : r = proc[p]
  OBVIOUS
<1>0. /\ r \in Runs /\ RunInv(r) /\ Told(r)
      /\ r.phase = "flush" /\ ~At(p, "print") /\ proc \in [Procs -> Runs]
      /\ UNCHANGED <<file, announced, unprinted, minted>>
  BY <1>r, RunOf DEF FlushCompletes, FlushTimesOut, At
<1>1. /\ r.spans \in SUBSET Spans /\ r.sent \in SUBSET Spans /\ (r.spans # {} => r.live)
      /\ (r.sent # {} => r.live)
      /\ \A s \in r.spans \cup r.sent : /\ InstallId \in s.attrs => r.pol.install_id # None
                                       /\ \A e \in s.events : InstallId \notin e.attrs
      /\ ~r.plain => \A s \in r.sent : /\ Clean(r.pol, r.in.allowlist, s)
                                      /\ \A e \in s.events : Clean(r.pol, r.in.allowlist, e)
  BY <1>0 DEF Runs, RunInv, SentInv
<1>2. CASE FlushCompletes(p)
  <2>s. PICK sent : sent = IF r.plain THEN r.spans ELSE filter(r.pol, r.in.allowlist, r.spans)
    OBVIOUS
  <2>k. PICK k : k = Flushed(r, sent)
    OBVIOUS
  <2>1. /\ sent \in SUBSET Spans /\ (sent # {} => r.live)
        /\ \A s \in sent : /\ InstallId \in s.attrs => r.pol.install_id # None
                          /\ \A e \in s.events : InstallId \notin e.attrs
        /\ ~r.plain => \A s \in sent : /\ Clean(r.pol, r.in.allowlist, s)
                                      /\ \A e \in s.events : Clean(r.pol, r.in.allowlist, e)
    <3>1. CASE r.plain
      BY <1>1, <2>s, <3>1
    <3>2. CASE ~r.plain
      <4>1. sent = filter(r.pol, r.in.allowlist, r.spans)
        BY <2>s, <3>2
      <4>2. ASSUME NEW s \in sent
            PROVE  /\ s \in Spans /\ r.spans # {} /\ Clean(r.pol, r.in.allowlist, s)
                   /\ \A e \in s.events : Clean(r.pol, r.in.allowlist, e)
                   /\ InstallId \in s.attrs => r.pol.install_id # None
                   /\ \A e \in s.events : InstallId \notin e.attrs
        <5>1. /\ s \in Spans /\ Clean(r.pol, r.in.allowlist, s)
              /\ \A e \in s.events : Clean(r.pol, r.in.allowlist, e)
          BY <1>1, <4>1, Redacted
        <5>2. PICK t \in r.spans : /\ s.attrs \subseteq t.attrs
                                   /\ \A e \in s.events : \E f \in t.events : e.attrs \subseteq f.attrs
          BY <1>1, <4>1, Redacted
        <5> QED BY <1>1, <5>1, <5>2
      <4> QED BY <1>1, <4>2
    <3> QED BY <3>1, <3>2
  <2>2. k \in Runs /\ RunInv(k) /\ Told(k) /\ Current(k)
    BY <1>0, <2>1, <2>k, FlushEnded
  <2>3. proc' = [proc EXCEPT ![p] = k]
    BY <1>r, <1>0, <1>2, <2>s, <2>k DEF FlushCompletes, Flushed
  <2> QED BY <1>0, <2>2, <2>3, QuietStep
<1>3. CASE FlushTimesOut(p)
  <2>k. PICK k : k = Flushed(r, r.sent)
    OBVIOUS
  <2>1. k \in Runs /\ RunInv(k) /\ Told(k) /\ Current(k)
    BY <1>0, <1>1, <2>k, FlushEnded
  <2>2. k = [r EXCEPT !.phase = "idle", !.spans = {}]
    BY <1>0, <2>k DEF Flushed, Runs
  <2>3. proc' = [proc EXCEPT ![p] = k]
    BY <1>r, <1>0, <1>3, <2>2 DEF FlushTimesOut
  <2> QED BY <1>0, <2>1, <2>3, QuietStep
<1> QED BY <1>2, <1>3

LEMMA KillStep ==
    ASSUME TelemetryInv, NEW p \in Procs, Kill(p)
    PROVE  TelemetryInv'
<1>r. PICK r : r = proc[p]
  OBVIOUS
<1>n. PICK n : n = r.runs
  OBVIOUS
<1>k. PICK k : k = Idle(n)
  OBVIOUS
<1>0. /\ r \in Runs /\ RunInv(r) /\ proc \in [Procs -> Runs] /\ n \in 0 .. MaxRuns
      /\ file' = file /\ announced' = announced /\ minted' = minted
      /\ unprinted' = unprinted \cup IF At(p, "print") THEN {proc[p].change.level} ELSE {}
      /\ announced \subseteq TelemetryLevel /\ unprinted \subseteq TelemetryLevel
      /\ minted \in {0} \cup InstallIds
  BY <1>r, <1>n, RunOf DEF Kill, Runs
<1>1. k \in Runs /\ RunInv(k) /\ k.phase = "idle" /\ k.seen = DefaultSettings /\ ~k.live
  BY <1>0, <1>k, IdleRun
<1>2. Told(k) /\ Current(k)
  <2>1. k.seen.notice_shown = None
    BY <1>1, Defaults
  <2> QED BY <1>1, <2>1, ToldEarly
<1>3. proc' = [proc EXCEPT ![p] = k]
  BY <1>r, <1>n, <1>k, <1>0 DEF Kill
<1>4. At(p, "print") => proc[p].change.level \in TelemetryLevel
  BY <1>r, <1>0 DEF RunInv, ChangeInv, At
<1>5. /\ unprinted' \subseteq TelemetryLevel /\ unprinted \subseteq unprinted'
      /\ At(p, "print") => proc[p].change.level \in announced' \cup unprinted'
  BY <1>0, <1>4
<1> QED BY <1>0, <1>1, <1>2, <1>3, <1>5, OwnStep

-----------------------------------------------------------------------------
(* The invariant and what it says.                                         *)

LEMMA TelemetryInit == Init => TelemetryInv
<1> SUFFICES ASSUME Init
             PROVE  TelemetryInv
  OBVIOUS
<1>k. PICK k : k = Idle(0)
  OBVIOUS
<1>1. k \in Runs /\ RunInv(k) /\ k.phase = "idle" /\ k.seen = DefaultSettings /\ ~k.live
  BY <1>k, IdleRun, LaunchAssumption
<1>2. Told(k) /\ Current(k)
  <2>1. k.seen.notice_shown = None
    BY <1>1, Defaults
  <2> QED BY <1>1, <2>1, ToldEarly
<1>3. proc = [p \in Procs |-> k]
  BY <1>k DEF Init
<1>4. file \in Settings \cup {None, Newer}
  BY LaunchAssumption DEF Init
<1>5. CASE file \in {None, Newer}
  <2>1. announced = {} /\ unprinted = {} /\ minted = 0
    BY <1>5 DEF Init
  <2>2. load(file).notice_shown = None
    BY <1>5, Defaults DEF load
  <2>3. TypedInv /\ FileTold
    BY <1>1, <1>3, <1>4, <2>1, <2>2 DEF TypedInv, FileTold
  <2> QED BY <1>1, <1>2, <1>3, <2>3 DEF TelemetryInv
<1>6. CASE file \notin {None, Newer}
  <2>1. file \in Settings /\ load(file) = file
    BY <1>4, <1>6 DEF load
  <2>2. file.notice_shown \in OptLevel /\ file.install_id \in InstallIds \cup {None}
    BY <2>1 DEF Settings
  <2>3. announced = IF file.notice_shown # None THEN {file.notice_shown} ELSE {}
    BY <1>6 DEF Init
  <2>4. minted = IF file.install_id # None THEN file.install_id ELSE 0
    BY <1>6 DEF Init
  <2>5. TypedInv
    <3>1. announced \subseteq TelemetryLevel
      BY <2>2, <2>3 DEF OptLevel
    <3>2. minted \in {0} \cup InstallIds
      BY <2>2, <2>4
    <3>3. unprinted = {}
      BY DEF Init
    <3> QED BY <1>1, <1>3, <1>4, <3>1, <3>2, <3>3 DEF TypedInv
  <2>6. FileTold
    <3>1. file.notice_shown # None => file.notice_shown \in 0 .. 3
      BY <2>2, Levels
    <3> QED BY <2>1, <2>3, <3>1 DEF FileTold, Covered
  <2> QED BY <1>1, <1>2, <1>3, <2>5, <2>6 DEF TelemetryInv
<1> QED BY <1>5, <1>6

LEMMA TelemetryStutter ==
    ASSUME TelemetryInv, UNCHANGED vars
    PROVE  TelemetryInv'
<1>1. file' = file /\ proc' = proc /\ announced' = announced /\ unprinted' = unprinted /\ minted' = minted
  BY DEF vars
<1> QED BY <1>1 DEF TelemetryInv, TypedInv, FileTold, Told, Covered, Current, Announcing, At, load

LEMMA TelemetryStep == TelemetryInv /\ [Next]_vars => TelemetryInv'
<1> SUFFICES ASSUME TelemetryInv, [Next]_vars
             PROVE  TelemetryInv'
  OBVIOUS
<1>1. CASE UNCHANGED vars
  BY <1>1, TelemetryStutter
<1>2. CASE Next
  <2> PICK p \in Procs : Launch(p) \/ Step(p) \/ FlushCompletes(p) \/ Kill(p)
    BY <1>2 DEF Next
  <2>1. CASE Launch(p)
    BY <2>1, LaunchStep
  <2>2. CASE OpenStore(p) \/ EnsureInstallId(p) \/ BuildProviders(p) \/ PrintNotice(p)
    BY <2>2, OpenStep, EnsureStep, BuildStep, PrintStep
  <2>3. CASE MutateLoad(p) \/ MutateSave(p) \/ MutateFails(p)
    BY <2>3, LoadStep, SaveStep, FailStep
  <2>4. CASE Dispatch(p) \/ Reset(p) \/ Status(p) \/ Doctor(p)
    BY <2>4, DispatchStep, ResetStep, StatusStep, DoctorStep
  <2>5. CASE CommandReturned(p) \/ CommandPanicked(p) \/ FlushTimesOut(p) \/ FlushCompletes(p)
    BY <2>5, ReturnedStep, PanickedStep, FlushStep
  <2>6. CASE Kill(p)
    BY <2>6, KillStep
  <2> QED BY <2>1, <2>2, <2>3, <2>4, <2>5, <2>6 DEF Step
<1> QED BY <1>1, <1>2

LEMMA TelemetryAlways == Spec => []TelemetryInv
<1>1. Init /\ [][Next]_vars => []TelemetryInv
  BY TelemetryInit, TelemetryStep, PTL
<1> QED BY <1>1, PTL DEF Spec

\* What left under a policy, by the level it was frozen at.
LEMMA CleanIsGranted ==
    ASSUME NEW pol \in TelemetryPolicies, NEW allowlist, NEW consent \in 0 .. 3, pol.level <= consent,
           NEW x, Clean(pol, allowlist, x)
    PROVE  /\ min_level(x.probe) <= consent
           /\ \A k \in x.attrs : attribute_min_level(k) <= consent
           /\ TokenAttr \notin x.attrs /\ (AuthorAttr \in x.attrs => AuthorAttr \in allowlist)
<1>1. pol.level \in 0 .. 3 /\ pol.level >= min_level(x.probe)
  BY Levels DEF TelemetryPolicies, Clean, policy_effective, effective
<1>2. min_level(x.probe) \in 0 .. 3
  BY DEF min_level, Usage, Diagnostic, Debug
<1>3. \A k : attribute_min_level(k) \in 0 .. 3
  BY DEF attribute_min_level, Usage, Diagnostic, Debug
<1>4. \A k \in x.attrs : pol.level >= attribute_min_level(k)
  BY DEF Clean, keeps_attribute
<1>5. TokenAttr \notin x.attrs
  BY DEF Clean, keeps_attribute, is_never_listed, NEVER_LIST
<1>6. AuthorAttr \in x.attrs => AuthorAttr \in allowlist
  BY DEF Clean, keeps_attribute, is_framework_key
<1> QED BY <1>1, <1>2, <1>3, <1>4, <1>5, <1>6

\* What one run sent: a span or an event of one, or a set of metric labels.
LEMMA SentIsClean ==
    ASSUME NEW r \in Runs, RunInv(r), ~r.plain,
           NEW x \in r.sent \cup UNION {s.events : s \in r.sent}
    PROVE  /\ Clean(r.pol, r.in.allowlist, x)
           /\ InstallId \in x.attrs => r.pol.install_id # None
<1>1. /\ \A s \in r.spans \cup r.sent :
           /\ InstallId \in s.attrs => r.pol.install_id # None
           /\ \A e \in s.events : InstallId \notin e.attrs
      /\ \A s \in r.sent : /\ Clean(r.pol, r.in.allowlist, s)
                          /\ \A e \in s.events : Clean(r.pol, r.in.allowlist, e)
  BY DEF RunInv, SentInv
<1>2. CASE x \in r.sent
  BY <1>1, <1>2
<1>3. CASE x \notin r.sent
  <2> PICK s \in r.sent : x \in s.events
    BY <1>3
  <2> QED BY <1>1
<1> QED BY <1>2, <1>3

\* A run that sent or counted something has an exporting policy, which was
\* resolved from the settings and the environment of the run.
LEMMA SendsUnderPolicy ==
    ASSUME NEW r \in Runs, RunInv(r), ~r.plain, r.sent # {} \/ r.counted # {}
    PROVE  /\ r.live /\ exports(r.pol) /\ ~r.in.kill_switch
           /\ r.pol.level \in 1 .. 3 /\ r.pol \in TelemetryPolicies
           /\ r.pol.off = (r.seen.off \ r.in.env.on) \cup r.in.env.off
           /\ EndUser(r) => ~r.in.withdrawn /\ r.pol.level <= Consent(r.seen.level)
           /\ Consent(r.seen.level) \in 0 .. 3
<1>1. r.live
  BY DEF RunInv, SentInv
<1>2. exports(r.pol) /\ r.phase # "open"
  BY <1>1 DEF RunInv, ProviderInv, Early
<1>3. r.pol \in TelemetryPolicies /\ r.seen \in Settings
  BY DEF Runs
<1>4. r.pol.level \in 0 .. 3 /\ r.pol.level > 0 /\ ~r.pol.kill_switch
  BY <1>2, <1>3, Levels DEF exports, TelemetryPolicies
<1>5. Consent(r.seen.level) \in 0 .. 3
  BY <1>3, Levels DEF Consent, Settings
<1>6. /\ r.pol.kill_switch = r.in.kill_switch
      /\ r.pol.off = (r.seen.off \ r.in.env.on) \cup r.in.env.off
      /\ EndUser(r) => r.pol.level <= Consent(r.seen.level)
      /\ EndUser(r) /\ r.in.withdrawn => r.pol.level = 0
  BY <1>2, Levels DEF RunInv, PolicyInv
<1>7. ~r.in.kill_switch
  BY <1>4, <1>6
<1>8. EndUser(r) => ~r.in.withdrawn
  BY <1>4, <1>6
<1>9. r.pol.level \in 1 .. 3
  BY <1>4
<1> QED BY <1>1, <1>2, <1>3, <1>5, <1>6, <1>7, <1>8, <1>9

LEMMA RunIsConsented ==
    ASSUME NEW r \in Runs, RunInv(r), r.in.deployment = "end_user", ~r.plain,
           r.sent # {} \/ r.counted # {}
    PROVE  /\ ~r.in.kill_switch /\ ~r.in.withdrawn
           /\ Consent(r.seen.level) > Off
           /\ \A s \in r.sent \cup UNION {s.events : s \in r.sent} :
                /\ min_level(s.probe) <= Consent(r.seen.level)
                /\ \A k \in s.attrs : attribute_min_level(k) <= Consent(r.seen.level)
<1>1. /\ ~r.in.kill_switch /\ ~r.in.withdrawn
      /\ r.pol.level \in 1 .. 3 /\ r.pol \in TelemetryPolicies
      /\ r.pol.level <= Consent(r.seen.level)
      /\ Consent(r.seen.level) \in 0 .. 3
  BY SendsUnderPolicy DEF EndUser
<1>2. Consent(r.seen.level) > Off
  BY <1>1, Levels
<1>3. ASSUME NEW s \in r.sent \cup UNION {s.events : s \in r.sent}
      PROVE  /\ min_level(s.probe) <= Consent(r.seen.level)
             /\ \A k \in s.attrs : attribute_min_level(k) <= Consent(r.seen.level)
  <2>1. Clean(r.pol, r.in.allowlist, s)
    BY SentIsClean
  <2> QED BY <1>1, <2>1, CleanIsGranted
<1> QED BY <1>1, <1>2, <1>3

LEMMA RunIsInnocent ==
    ASSUME NEW r \in Runs, RunInv(r), ~r.plain, NEW off, off = (r.seen.off \ r.in.env.on) \cup r.in.env.off
    PROVE  /\ \A s \in r.sent \cup UNION {s.events : s \in r.sent} :
                /\ TokenAttr \notin s.attrs
                /\ AuthorAttr \in s.attrs => AuthorAttr \in r.in.allowlist
                /\ \A o \in off : ~(Len(o) <= Len(s.probe) /\ SubSeq(s.probe, 1, Len(o)) = o)
                /\ InstallId \in s.attrs =>
                     r.in.store /\ "anonymous" \notin {r.in.env.attribution,
                       IF r.in.env.attribution = None THEN r.seen.attribution ELSE None}
           /\ \A labels \in r.counted : labels \subseteq Labels
<1>1. \A labels \in r.counted : labels \subseteq Labels
  BY DEF RunInv, SentInv
<1>2. ASSUME NEW s \in r.sent \cup UNION {s.events : s \in r.sent}
      PROVE  /\ TokenAttr \notin s.attrs
             /\ AuthorAttr \in s.attrs => AuthorAttr \in r.in.allowlist
             /\ \A o \in off : ~(Len(o) <= Len(s.probe) /\ SubSeq(s.probe, 1, Len(o)) = o)
             /\ InstallId \in s.attrs =>
                  r.in.store /\ "anonymous" \notin {r.in.env.attribution,
                    IF r.in.env.attribution = None THEN r.seen.attribution ELSE None}
  <2>1. /\ Clean(r.pol, r.in.allowlist, s)
        /\ InstallId \in s.attrs => r.pol.install_id # None
    BY SentIsClean
  <2>2. r.sent # {}
    OBVIOUS
  <2>3. /\ r.pol.level \in 1 .. 3 /\ r.pol \in TelemetryPolicies /\ r.pol.off = off
    BY <2>2, SendsUnderPolicy
  <2>4. TokenAttr \notin s.attrs /\ (AuthorAttr \in s.attrs => AuthorAttr \in r.in.allowlist)
    <3>1. 3 \in 0 .. 3 /\ r.pol.level <= 3
      BY <2>3
    <3> QED BY <2>1, <2>3, <3>1, CleanIsGranted
  <2>5. \A o \in off : ~(Len(o) <= Len(s.probe) /\ SubSeq(s.probe, 1, Len(o)) = o)
    <3>1. effective(telemetry_registry, r.pol.level, off, s.probe)
      BY <2>1, <2>3 DEF Clean, policy_effective
    <3>2. off \in SUBSET telemetry_registry
      BY <2>3 DEF TelemetryPolicies
    <3> QED BY <3>1, <3>2, OffIsOff
  <2>6. ASSUME InstallId \in s.attrs
        PROVE  r.in.store /\ "anonymous" \notin {r.in.env.attribution,
                 IF r.in.env.attribution = None THEN r.seen.attribution ELSE None}
    <3>1. r.pol.attribution # "anonymous"
      BY <2>1, <2>6 DEF RunInv, PolicyInv
    <3>2. /\ r.in.store /\ r.in.env.attribution # "anonymous"
          /\ r.in.env.attribution = None => r.seen.attribution # "anonymous"
      BY <3>1 DEF RunInv, PolicyInv
    <3>3. None # "anonymous"
      BY NoneAssumption DEF Attribution
    <3> QED BY <3>2, <3>3
  <2> QED BY <2>4, <2>5, <2>6
<1> QED BY <1>1, <1>2

(* What leaves a machine is consented to: spans and metrics of an end      *)
(* user's run go out only without a kill switch and at a level the stored  *)
(* settings allow, no attribute above it, none that is never listed, none  *)
(* of a switched-off probe, and no install id on anonymous telemetry       *)
(* (resolve_policy, redact_span, build_meter_provider_from_policy).        *)
THEOREM ExportConsented == Spec => []ExportIsConsented
<1>1. TelemetryInv => ExportIsConsented
  <2> SUFFICES ASSUME TelemetryInv
               PROVE  ExportIsConsented
    OBVIOUS
  <2>1. TypeOK
    <3>1. \A p \in Procs :
            LET r == proc[p]
            IN /\ r.phase \in Phases /\ r.runs \in 0 .. MaxRuns
               /\ r.in \in StartupInputs /\ r.pol \in TelemetryPolicies
               /\ r.seen \in Settings /\ r.copy \in Settings /\ r.change \in Changes
               /\ r.cmd \in CommandType
               /\ r.result \in {None, "ok", "failed", "clamped", "panicked"}
      BY RunOf DEF Runs, Results
    <3> QED BY <3>1 DEF TypeOK, TelemetryInv, TypedInv
  <2>2. ConsentBoundsExport
    <3> SUFFICES ASSUME NEW p \in Procs, proc[p].in.deployment = "end_user", ~proc[p].plain,
                        proc[p].sent # {} \/ proc[p].counted # {}
                 PROVE  LET r == proc[p]
                            consent == IF r.seen.level = None THEN Off ELSE r.seen.level
                        IN /\ ~r.in.kill_switch /\ ~r.in.withdrawn
                           /\ consent > Off
                           /\ \A s \in Sent(p) :
                                /\ min_level(s.probe) <= consent
                                /\ \A k \in s.attrs : attribute_min_level(k) <= consent
      BY DEF ConsentBoundsExport
    <3>1. proc[p] \in Runs /\ RunInv(proc[p])
      BY RunOf
    <3> QED BY <3>1, RunIsConsented DEF Consent, Sent
  <2>3. NothingForbiddenLeaves
    <3>1. \A p \in Procs : proc[p] \in Runs /\ RunInv(proc[p])
      BY RunOf
    <3> QED BY <3>1, RunIsInnocent DEF NothingForbiddenLeaves, Sent
  <2> QED BY <2>1, <2>2, <2>3 DEF ExportIsConsented
<1> QED BY <1>1, TelemetryAlways, PTL

(* The user is told: the notice comes before the export it announces, and  *)
(* doctor does not call traces healthy that a foreign subscriber keeps     *)
(* (notice_decision, show_notice, SubscriberCheck).                        *)
THEOREM UserTold == Spec => []UserIsTold
<1>1. TelemetryInv => UserIsTold
  <2> SUFFICES ASSUME TelemetryInv
               PROVE  UserIsTold
    OBVIOUS
  <2>1. NoticePrecedesExport
    <3> SUFFICES ASSUME NEW p \in Procs, NEW r, r = proc[p], r.sent # {}, ~r.plain,
                        r.in.deployment = "end_user", r.in.tty, r.pol.source # "config_file"
                 PROVE  Covered(r.pol.level)
      BY DEF NoticePrecedesExport, Covered
    <3>1. RunInv(r) /\ Told(r)
      BY RunOf
    <3>2. r.live /\ r.phase \in {"flush", "idle"}
      BY <3>1 DEF RunInv, SentInv
    <3>3. ~Announcing(r)
      BY <3>2 DEF Announcing
    <3> QED BY <3>1, <3>2, <3>3 DEF Told, EndUser
  <2>2. DoctorNamesLostSpans
    BY RunOf DEF DoctorNamesLostSpans, RunInv, ProviderInv
  <2> QED BY <2>1, <2>2 DEF UserIsTold
<1> QED BY <1>1, TelemetryAlways, PTL

(* A mutate that nobody overtook changes nothing but the field it is       *)
(* about, and a stored install id is never replaced                        *)
(* (TelemetryStore::mutate).                                               *)
THEOREM WritesAreNarrow == Spec => WritesKeepOtherFields
<1> DEFINE Narrow ==
      \A p \in Procs :
        LET old == load(file)
            k == proc[p].change.kind
        IN MutateSave(p) /\ ~proc[p].stale =>
             /\ k # "level" => file'.level = old.level
             /\ k # "install_id" \/ old.install_id # None => file'.install_id = old.install_id
             /\ k # "notice_shown" => file'.notice_shown = old.notice_shown
             /\ k \notin {"disable", "enable"} => file'.off = old.off
<1>1. TelemetryInv => Narrow
  <2> SUFFICES ASSUME TelemetryInv, NEW p \in Procs, MutateSave(p), ~proc[p].stale,
                      NEW old, old = load(file), NEW k, k = proc[p].change.kind
               PROVE  /\ k # "level" => file'.level = old.level
                      /\ k # "install_id" \/ old.install_id # None => file'.install_id = old.install_id
                      /\ k # "notice_shown" => file'.notice_shown = old.notice_shown
                      /\ k \notin {"disable", "enable"} => file'.off = old.off
    OBVIOUS
  <2>1. proc[p] \in Runs /\ RunInv(proc[p]) /\ Current(proc[p]) /\ old \in Settings
    BY RunOf
  <2>2. proc[p].change \in Changes
        /\ (proc[p].change.kind \in {"disable", "enable"} => proc[p].change.probe \in with_builtins)
    BY <2>1 DEF Runs, RunInv, ChangeInv
  <2>3. file' = apply(proc[p].change, old)
    BY <2>1 DEF MutateSave, At, Current
  <2> QED BY <2>1, <2>2, <2>3, Applied
<1>2. TelemetryInv /\ [Next]_vars => [Narrow]_vars
  BY <1>1
<1>3. []TelemetryInv /\ [][Next]_vars => [][Narrow]_vars
  BY <1>2, PTL
<1> QED BY <1>3, TelemetryAlways, PTL DEF Spec, WritesKeepOtherFields
=============================================================================
