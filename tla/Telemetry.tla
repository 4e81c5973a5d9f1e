------------------------------ MODULE Telemetry ------------------------------
(***************************************************************************)
(* Consent and export.  Every run of an application starts telemetry,      *)
(* executes one command and flushes.  Runs overlap in several processes    *)
(* and share one settings file, which each of them reads, changes and      *)
(* replaces without a lock (TelemetryStore::mutate).  What reaches the     *)
(* collector is decided by the policy frozen at startup and by the         *)
(* redacting exporter.                                                     *)
(***************************************************************************)
EXTENDS TelemetryPolicy

CONSTANTS
  Procs,      \* process slots
  Newer,      \* a settings file of a later schema version
  Launches,   \* process -> its runs: pairs of StartupInputs and CommandType
  StartFiles, \* settings files found at the beginning
  MaxRuns     \* bound on the runs of one slot

\* A command line, as far as telemetry can tell them apart.
CommandType ==
  [kind : {"app", "panic", "help", "usage_error", "status", "doctor",
           "set", "disable", "enable", "reset"},
   level : OptLevel, probe : telemetry_registry \cup {None}]
ASSUME LaunchAssumption ==
  /\ \A p \in Procs : Launches[p] \subseteq StartupInputs \X CommandType
  /\ StartFiles \subseteq Settings \cup {None, Newer}
  /\ MaxRuns \in Nat

VARIABLES
  file,      \* the settings file: None (absent), Newer or settings
  proc,      \* process -> its local state
  announced, \* levels whose notice has been printed
  unprinted, \* levels recorded by a run that was killed before it printed
  minted     \* install ids minted so far
vars == <<file, proc, announced, unprinted, minted>>

\* An absent file reads as defaults; so does one that cannot be read.
load(f) == IF f \in {None, Newer} THEN DefaultSettings ELSE f

\* A pending change of the settings file (the closure given to mutate).
Changes == [kind : {"install_id", "notice_shown", "level", "disable", "enable"},
            level : OptLevel, id : InstallIds \cup {None},
            probe : BUILTIN_PROBES \cup {None}]
NoChange == [kind |-> "level", level |-> None, id |-> None, probe |-> None]
NoCommand == [kind |-> "app", level |-> None, probe |-> None]

Phases == {"idle", "open", "ensure", "load", "save", "build", "print",
           "dispatch", "work", "flush"}
NoLaunch == [deployment |-> "end_user", kill_switch |-> FALSE, with_telemetry |-> FALSE,
             withdrawn |-> FALSE, endpoint |-> FALSE, store |-> FALSE, tty |-> FALSE,
             env |-> EmptyEnv, allowlist |-> {}]
\* The policy an App holds before startup has run.
build_time_policy(in) == resolve_policy(in.deployment, in.kill_switch, telemetry_inputs(in))

\* stale: the file changed since it was read into copy; live: a provider was built; plain: by the deprecated configuration, without
\* redaction; bridged: spans reach it; report: what startup noted; spans:
\* recorded; sent: exported; counted: metrics recorded; said: what a status or
\* doctor command printed.
Idle(n) ==
  [phase |-> "idle", runs |-> n, in |-> NoLaunch, seen |-> DefaultSettings,
   pol |-> build_time_policy(NoLaunch), copy |-> DefaultSettings, change |-> NoChange,
   stale |-> FALSE, cmd |-> NoCommand, live |-> FALSE, plain |-> FALSE, bridged |-> FALSE, report |-> None,
   spans |-> {}, sent |-> {}, counted |-> {}, result |-> None, said |-> None]

Init ==
  /\ file \in StartFiles
  /\ proc = [p \in Procs |-> Idle(0)]
  /\ announced = IF file \notin {None, Newer} /\ file.notice_shown # None
                   THEN {file.notice_shown} ELSE {}
  /\ unprinted = {}
  /\ minted = IF file \notin {None, Newer} /\ file.install_id # None
                THEN file.install_id ELSE 0

At(p, phase) == proc[p].phase = phase

(***************************************************************************)
(* Startup (init_telemetry, run_startup)                                   *)
(***************************************************************************)
\* without_end_user_telemetry has no effect on a service.
telemetry_withdrawn(in) == in.withdrawn /\ in.deployment = "end_user"
\* The deprecated configuration builds its own provider, outside the policy.
init_batch(in) == in.with_telemetry /\ in.endpoint /\ ~in.kill_switch
\* A process starts.  Kill switches are read before anything else, and the
\* store is not opened under one; a withdrawn telemetry does nothing at all.
Launch(p) ==
  /\ At(p, "idle") /\ proc[p].runs < MaxRuns
  /\ \E launch \in Launches[p] :
       LET in == launch[1]
           c == launch[2]
           r == [Idle(proc[p].runs + 1) EXCEPT !.in = in, !.cmd = c, !.pol = build_time_policy(in)]
       IN \/ /\ proc' = [proc EXCEPT ![p] =
                  [r EXCEPT !.phase =
                     IF telemetry_withdrawn(in) THEN "dispatch"
                     ELSE IF in.kill_switch THEN "build" ELSE "open"]]
          \/ /\ init_batch(in) /\ ~telemetry_withdrawn(in)
             /\ \E bridged \in BOOLEAN :
                  proc' = [proc EXCEPT ![p] =
                    [r EXCEPT !.live = TRUE, !.plain = TRUE, !.bridged = bridged,
                              !.phase = "dispatch"]]
  /\ UNCHANGED <<file, announced, unprinted, minted>>

\* OpenStore, MergeManifest and Resolve: one read of the file.
OpenStore(p) ==
  LET in == proc[p].in
      s == IF in.store THEN load(file) ELSE DefaultSettings
      base == fold_environment(fold_store(telemetry_inputs(in), in, s), in.env)
      pol == resolve_policy(in.deployment, in.kill_switch, base)
  IN /\ At(p, "open")
     /\ proc' = [proc EXCEPT ![p].seen = s, ![p].pol = pol,
                   ![p].phase = IF /\ pol.level > Off /\ pol.attribution # "anonymous"
                                   /\ pol.install_id = None
                                  THEN "ensure" ELSE "build"]
     /\ UNCHANGED <<file, announced, unprinted, minted>>

\* ensure_install_id reads again; without a stored id it mints one.
EnsureInstallId(p) ==
  /\ At(p, "ensure")
  /\ LET id == load(file).install_id
     IN IF id # None
        THEN /\ proc' = [proc EXCEPT ![p].pol.install_id = id, ![p].phase = "build"]
             /\ UNCHANGED minted
        ELSE /\ minted + 1 \in InstallIds
             /\ minted' = minted + 1
             /\ proc' = [proc EXCEPT ![p].phase = "load",
                           ![p].change = [NoChange EXCEPT !.kind = "install_id", !.id = minted + 1]]
  /\ UNCHANGED <<file, announced, unprinted>>

\* Mutant: no notice is shown.
ShowNoticeUnannounced(r) == [r EXCEPT !.phase = "dispatch"]

\* The decision rests on the settings read at startup; without an opened store
\* (a kill switch) there is no notice.
show_notice(r) ==
  LET level == notice_decision(r.pol, r.seen.notice_shown, r.in.tty)
  IN IF level = None THEN [r EXCEPT !.phase = "dispatch"]
     ELSE [r EXCEPT !.phase = "load",
                    !.change = [NoChange EXCEPT !.kind = "notice_shown", !.level = level]]

\* FreezePolicy, BuildProviders, InstallSubscriber, ShowNotice: the provider
\* may not be built, and a foreign subscriber may keep the spans.
BuildProviders(p) ==
  /\ At(p, "build")
  /\ \E live, bridged \in BOOLEAN :
       /\ live => exports(proc[p].pol)
       /\ bridged => live
       /\ proc' = [proc EXCEPT ![p] =
                     show_notice([@ EXCEPT !.live = live, !.bridged = bridged,
                                           !.report = startup_report(proc[p].in, live /\ ~bridged)])]
  /\ UNCHANGED <<file, announced, unprinted, minted>>

\* The text is printed when run_startup has returned.
PrintNotice(p) ==
  /\ At(p, "print")
  /\ proc' = [proc EXCEPT ![p].phase = "dispatch", ![p].change = NoChange]
  /\ announced' = announced \cup {proc[p].change.level}
  /\ UNCHANGED <<file, unprinted, minted>>

(***************************************************************************)
(* TelemetryStore::mutate                                                  *)
(***************************************************************************)
apply(change, s) ==
  CASE change.kind = "install_id" ->
         IF s.install_id = None THEN [s EXCEPT !.install_id = change.id] ELSE s
    [] change.kind = "notice_shown" -> [s EXCEPT !.notice_shown = change.level]
    [] change.kind = "level" -> [s EXCEPT !.level = change.level]
    [] change.kind = "disable" -> [s EXCEPT !.off = @ \cup {change.probe}]
    [] change.kind = "enable" -> [s EXCEPT !.off = @ \ {change.probe}]

\* What the caller of mutate does with its result.
Continue(r, ok) ==
  LET k == r.change.kind
      done == [r EXCEPT !.copy = DefaultSettings, !.change = NoChange]
  IN CASE k = "install_id" ->
            [done EXCEPT !.pol.install_id = IF ok THEN r.copy.install_id ELSE None, !.phase = "build"]
       [] k = "notice_shown" -> [r EXCEPT !.copy = DefaultSettings, !.phase = "print"]
       [] k = "level" ->
            [done EXCEPT !.phase = "work",
                         !.result = IF ~ok THEN "failed" ELSE IF r.in.kill_switch THEN "clamped" ELSE "ok"]
       [] OTHER -> [done EXCEPT !.phase = "work", !.result = IF ok THEN "ok" ELSE "failed"]

\* Mutant: the settings read at startup are changed, not the file.
MutateLoadCached(p) ==
  /\ At(p, "load")
  /\ proc' = [proc EXCEPT ![p] = [@ EXCEPT !.copy = apply(proc[p].change, proc[p].seen), !.phase = "save",
                                           !.stale = FALSE]]
  /\ UNCHANGED <<file, announced, unprinted, minted>>

MutateLoad(p) ==
  /\ At(p, "load")
  /\ proc' = [proc EXCEPT ![p] =
                IF proc[p].in.store
                  THEN [@ EXCEPT !.copy = apply(proc[p].change, load(file)), !.phase = "save",
                                 !.stale = FALSE]
                  ELSE Continue(@, FALSE)]
  /\ UNCHANGED <<file, announced, unprinted, minted>>

\* The file is replaced; the copies that others have read are overtaken.
Overtake(p, r) ==
  [q \in Procs |-> IF q = p THEN [r EXCEPT !.stale = FALSE]
                  ELSE [proc[q] EXCEPT !.stale = At(q, "save")]]
MutateSave(p) ==
  /\ At(p, "save")
  /\ file' = proc[p].copy
  /\ proc' = Overtake(p, Continue(proc[p], TRUE))
  /\ UNCHANGED <<announced, unprinted, minted>>

MutateFails(p) ==
  /\ At(p, "save")
  /\ proc' = [proc EXCEPT ![p] = Continue(@, FALSE)]
  /\ UNCHANGED <<file, announced, unprinted, minted>>

(***************************************************************************)
(* The command                                                             *)
(***************************************************************************)
\* register_telemetry_commands: the group exists on end-user deployments only.
TelemetryCommand(c) == c.kind \in {"status", "set", "disable", "enable", "reset"}
registered(in, c) ==
  TelemetryCommand(c) => in.deployment = "end_user" /\ ~in.withdrawn

\* set_level; disable_probe and enable_probe know the built-in probes only.
set_level(c) == [NoChange EXCEPT !.level = c.level]
disable_probe(c) == [NoChange EXCEPT !.kind = "disable", !.probe = c.probe]
enable_probe(c) == [NoChange EXCEPT !.kind = "enable", !.probe = c.probe]
change_of(c) ==
  CASE c.kind = "set" -> set_level(c)
    [] c.kind = "disable" -> disable_probe(c)
    [] c.kind = "enable" -> enable_probe(c)
Writes(c) == c.kind = "set" \/ (c.kind \in {"disable", "enable"} /\ c.probe \in with_builtins)

\* run_command: the arguments select a command, ask for help or are refused.
Dispatch(p) ==
  LET c == proc[p].cmd
  IN /\ At(p, "dispatch")
     /\ \/ /\ c.kind \in {"help", "usage_error"} \/ ~registered(proc[p].in, c)
           /\ proc' = [proc EXCEPT ![p].phase = "flush",
                         ![p].result = IF c.kind = "help" THEN "ok" ELSE "failed"]
        \/ /\ registered(proc[p].in, c) /\ Writes(c)
           /\ proc' = [proc EXCEPT ![p].change = change_of(c), ![p].phase = "load"]
        \/ /\ registered(proc[p].in, c) /\ c.kind \notin {"help", "usage_error"} /\ ~Writes(c)
           /\ proc' = [proc EXCEPT ![p].phase = "work",
                         ![p].result = CASE c.kind = "app" -> "ok"
                                         [] c.kind \in {"disable", "enable"} -> "failed"
                                         [] OTHER -> None]
     /\ UNCHANGED <<file, announced, unprinted, minted>>

Working(p, kind) == At(p, "work") /\ proc[p].cmd.kind = kind /\ proc[p].result = None

\* telemetry reset removes the file; a missing one is a success.
Reset(p) ==
  /\ Working(p, "reset")
  /\ \/ /\ proc[p].in.store
        /\ file' = None
        /\ proc' = Overtake(p, [proc[p] EXCEPT !.result = "ok"])
     \/ /\ proc' = [proc EXCEPT ![p].result = "failed"]
        /\ UNCHANGED file
  /\ UNCHANGED <<announced, unprinted, minted>>

\* telemetry status opens the store anew.
Status(p) ==
  LET s == IF proc[p].in.store THEN load(file) ELSE DefaultSettings
  IN /\ Working(p, "status")
     /\ proc' = [proc EXCEPT ![p].result = "ok",
                   ![p].said = status_report(build_policy(proc[p].in.kill_switch, proc[p].in.store, s))]
     /\ UNCHANGED <<file, announced, unprinted, minted>>

\* doctor reads what startup left; without telemetry it has no such checks.
Doctor(p) ==
  /\ Working(p, "doctor")
  /\ \E reached \in BOOLEAN :
       proc' = [proc EXCEPT ![p].result = "ok",
                  ![p].said = IF telemetry_withdrawn(proc[p].in) THEN None
                              ELSE telemetry_checks(proc[p].pol, proc[p].report, reached)]
  /\ UNCHANGED <<file, announced, unprinted, minted>>

\* The metrics of one command, and what is kept of their labels.
Metrics(r, labels) ==
  IF ~r.live THEN {} ELSE {IF r.plain THEN labels ELSE view(labels)}

\* execute_command_direct after the handler returned; the author's code has
\* added attributes to the span and counted something of its own.
CommandReturned(p) ==
  LET r == proc[p]
      span == [root_span EXCEPT !.probe = <<"cli", "command">>,
                                !.attrs = @ \cup command_span_attrs(r.pol) \cup AuthorAttrs]
  IN /\ At(p, "work") /\ r.cmd.kind # "panic" /\ r.result # None
     /\ \E sampled \in BOOLEAN :
          /\ ~sampled => r.bridged /\ (r.plain \/ ~sampler_is_always_on(r.pol))
          /\ proc' = [proc EXCEPT ![p] =
               [@ EXCEPT !.phase = "flush",
                         !.spans = IF r.bridged /\ sampled THEN {span} ELSE {},
                         !.counted = Metrics(r, command_metric_labels) \cup
                                     Metrics(r, AuthorAttrs)]]
     /\ UNCHANGED <<file, announced, unprinted, minted>>

\* The handler panics: the hook records the event in the open root span,
\* which closes without the attribute that names its probe.  The deprecated
\* configuration installs no hook.
CommandPanicked(p) ==
  LET r == proc[p]
      reported == r.live /\ ~r.plain /\ policy_effective(r.pol, <<"cli", "panic">>)
  IN /\ At(p, "work") /\ r.cmd.kind = "panic"
     /\ proc' = [proc EXCEPT ![p] =
          [@ EXCEPT !.phase = "flush", !.result = "panicked",
                    !.spans = IF r.bridged
                                THEN {[root_span EXCEPT !.events = IF reported THEN {panic_event(r.pol)} ELSE {}]}
                                ELSE {},
                    !.counted = IF reported THEN Metrics(r, {}) ELSE {}]]
     /\ UNCHANGED <<file, announced, unprinted, minted>>

(***************************************************************************)
(* Export                                                                  *)
(***************************************************************************)
\* TelemetryGuard::drop flushes; the collector answers ...
FlushCompletes(p) ==
  LET r == proc[p]
  IN /\ At(p, "flush")
     /\ proc' = [proc EXCEPT ![p] =
          [@ EXCEPT !.phase = "idle", !.spans = {},
                    !.sent = IF r.plain THEN r.spans ELSE filter(r.pol, r.in.allowlist, r.spans)]]
     /\ UNCHANGED <<file, announced, unprinted, minted>>

\* Mutant: the flush has no time limit.
NoFlushBudget(r) == FALSE

\* ... or the budget of an end-user run is spent before it does.
flush_budget_for(r) == r.live /\ ~r.plain /\ r.in.deployment = "end_user"
FlushTimesOut(p) ==
  /\ At(p, "flush") /\ flush_budget_for(proc[p])
  /\ proc' = [proc EXCEPT ![p].phase = "idle", ![p].spans = {}]
  /\ UNCHANGED <<file, announced, unprinted, minted>>

\* The process is killed.
Kill(p) ==
  /\ ~At(p, "idle")
  /\ proc' = [proc EXCEPT ![p] = Idle(@.runs)]
  /\ unprinted' = unprinted \cup IF At(p, "print") THEN {proc[p].change.level} ELSE {}
  /\ UNCHANGED <<file, announced, minted>>

(***************************************************************************)
(* Specification                                                           *)
(***************************************************************************)
Step(p) ==
  \/ OpenStore(p) \/ EnsureInstallId(p) \/ BuildProviders(p)
  \/ PrintNotice(p) \/ MutateLoad(p) \/ MutateSave(p) \/ MutateFails(p)
  \/ Dispatch(p) \/ Reset(p) \/ Status(p) \/ Doctor(p)
  \/ CommandReturned(p) \/ CommandPanicked(p) \/ FlushTimesOut(p)
Next == \E p \in Procs : Launch(p) \/ Step(p) \/ FlushCompletes(p) \/ Kill(p)
\* A process runs; the collector owes no answer, but a run without a provider
\* has nothing to wait for.
Fairness ==
  \A p \in Procs : WF_vars(Step(p) \/ (~proc[p].live /\ FlushCompletes(p)))
Spec == Init /\ [][Next]_vars /\ Fairness

(***************************************************************************)
(* Properties                                                              *)
(***************************************************************************)
Sent(p) == proc[p].sent \cup UNION {s.events : s \in proc[p].sent}

\* Type correctness of the file and of every process.
TypeOK ==
  /\ file \in Settings \cup {None, Newer}
  /\ announced \subseteq TelemetryLevel /\ unprinted \subseteq TelemetryLevel
  /\ minted \in {0} \cup InstallIds
  /\ \A p \in Procs :
       LET r == proc[p]
       IN /\ r.phase \in Phases /\ r.runs \in 0..MaxRuns
          /\ r.in \in StartupInputs /\ r.pol \in TelemetryPolicies
          /\ r.seen \in Settings /\ r.copy \in Settings /\ r.change \in Changes
          /\ r.cmd \in CommandType
          /\ r.result \in {None, "ok", "failed", "clamped", "panicked"}

\* Consent bounds what leaves an end user's machine (resolve_policy, exports,
\* redact_span), the deprecated configuration aside: a run sends spans or
\* counts metrics only without a kill switch and at a level that the settings
\* it read allow.  No environment variable raises it, and no span carries an
\* attribute above that level.
ConsentBoundsExport ==
  \A p \in Procs :
    LET r == proc[p]
        consent == IF r.seen.level = None THEN Off ELSE r.seen.level
    IN r.in.deployment = "end_user" /\ ~r.plain /\ (r.sent # {} \/ r.counted # {}) =>
         /\ ~r.in.kill_switch /\ ~r.in.withdrawn
         /\ consent > Off
         /\ \A s \in Sent(p) : /\ min_level(s.probe) <= consent
                               /\ \A k \in s.attrs : attribute_min_level(k) <= consent

\* What the redacting exporter and the metric view let through: no never-listed
\* attribute at any level, no attribute of the author that was not allowed, no
\* span or event of a probe that is switched off, no install id on anonymous
\* telemetry, and no label outside the allow-list on a metric.
NothingForbiddenLeaves ==
  \A p \in Procs :
    LET r == proc[p]
        off == (r.seen.off \ r.in.env.on) \cup r.in.env.off
    IN ~r.plain =>
         /\ \A s \in Sent(p) :
              /\ TokenAttr \notin s.attrs
              /\ AuthorAttr \in s.attrs => AuthorAttr \in r.in.allowlist
              /\ \A o \in off : ~(Len(o) <= Len(s.probe) /\ SubSeq(s.probe, 1, Len(o)) = o)
              /\ InstallId \in s.attrs =>
                   r.in.store /\ "anonymous" \notin {r.in.env.attribution,
                     IF r.in.env.attribution = None THEN r.seen.attribution ELSE None}
         /\ \A labels \in r.counted : labels \subseteq Labels

\* The first-run notice comes before the export it announces (notice_decision,
\* show_notice): an interactive end-user run that sends at a level the user did
\* not store himself was preceded by a notice of at least that level - printed,
\* about to be printed by another run, or recorded by one that was killed just
\* before printing it.
NoticePrecedesExport ==
  \A p \in Procs :
    LET r == proc[p]
    IN /\ r.sent # {} /\ ~r.plain /\ r.in.deployment = "end_user" /\ r.in.tty
       /\ r.pol.source # "config_file"
       => \/ \E l \in announced \cup unprinted : l >= r.pol.level
          \/ \E q \in Procs : At(q, "print") /\ proc[q].change.level >= r.pol.level

\* A mutate that nobody overtook changes nothing but the field it is about
\* (TelemetryStore::mutate reads the file again before it replaces it), and a
\* stored install id is never replaced.  A mutate that another process overtook
\* between its read and its write may undo that process's change: no lock spans
\* the two.
WritesKeepOtherFields ==
  [][\A p \in Procs :
       LET old == load(file)
           k == proc[p].change.kind
       IN MutateSave(p) /\ ~proc[p].stale =>
            /\ k # "level" => file'.level = old.level
            /\ k # "install_id" \/ old.install_id # None => file'.install_id = old.install_id
            /\ k # "notice_shown" => file'.notice_shown = old.notice_shown
            /\ k \notin {"disable", "enable"} => file'.off = old.off]_vars

\* Doctor does not call traces healthy that go nowhere (SubscriberCheck): in a
\* run that counts metrics but whose spans a foreign subscriber keeps, the
\* check warns, unless startup left no report at all.
DoctorNamesLostSpans ==
  \A p \in Procs :
    LET r == proc[p]
    IN r.cmd.kind = "doctor" /\ r.said # None /\ r.live =>
         /\ r.said.subscriber = "ok" => r.bridged
         /\ r.said.subscriber = "skipped" => r.plain

\* A run of an end-user application ends even when the collector never answers
\* (END_USER_FLUSH_BUDGET in TelemetryGuard::drop).
EndUserRunEnds ==
  \A p \in Procs :
    (~At(p, "idle") /\ proc[p].in.deployment = "end_user" /\ ~proc[p].plain) ~> At(p, "idle")

-----------------------------------------------------------------------------
(* What the run asks, by part.                                             *)

\* What leaves is what the stored consent allows and never what is forbidden
\* at every level (resolve_policy, redact_span).
ExportIsConsented == TypeOK /\ ConsentBoundsExport /\ NothingForbiddenLeaves

\* The user hears of an export before it happens and of spans that are lost
\* (show_notice, SubscriberCheck).
UserIsTold == NoticePrecedesExport /\ DoctorNamesLostSpans
=============================================================================
