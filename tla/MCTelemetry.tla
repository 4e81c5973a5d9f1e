----------------------------- MODULE MCTelemetry -----------------------------
(* Two process slots: an end user's shell on a terminal, and a script, a      *)
(* service or an application on the deprecated configuration beside it.       *)
EXTENDS Telemetry

CONSTANTS shell, other
MCOpsProbes == {<<"acme", "sync">>}
Base == [NoLaunch EXCEPT !.endpoint = TRUE, !.store = TRUE, !.tty = TRUE]
Limited == [Base EXCEPT !.env.level = Usage]
Killed == [Base EXCEPT !.kill_switch = TRUE, !.env.level = Debug]
Script == [Base EXCEPT !.env.level = Debug, !.tty = FALSE, !.env.on = {<<"cli", "panic">>},
                       !.env.attribution = "anonymous"]
Withdrawn == [Base EXCEPT !.withdrawn = TRUE]
Deprecated == [Base EXCEPT !.with_telemetry = TRUE, !.store = FALSE]
Service == [Base EXCEPT !.deployment = "service", !.allowlist = {AuthorAttr}, !.env.unmatched = 1]
Cmd(kind, level, probe) == [kind |-> kind, level |-> level, probe |-> probe]
Plain(kind) == Cmd(kind, None, None)
Args == <<"cli", "command", "args">>
MCLaunches ==
  [p \in Procs |->
    IF p = shell
      THEN { <<Limited, Plain("app")>>, <<Limited, Plain("reset")>>,
             <<Base, Cmd("set", Off, None)>>, <<Killed, Cmd("set", Usage, None)>> }
      ELSE { <<Script, Plain("app")>>, <<Script, Plain("panic")>>, <<Script, Cmd("disable", None, Args)>>,
             <<Base, Plain("doctor")>>, <<Base, Cmd("enable", None, <<"acme", "sync">>)>>,
             <<Withdrawn, Plain("app")>>, <<Deprecated, Plain("app")>>, <<Deprecated, Plain("doctor")>>,
             <<Base, Plain("status")>>, <<Service, Plain("app")>>, <<Service, Plain("help")>> }]
MCStartFiles ==
  { None,
    [DefaultSettings EXCEPT !.level = Diagnostic, !.install_id = 1, !.off = {<<"cli", "panic">>}],
    [DefaultSettings EXCEPT !.level = Debug, !.attribution = "anonymous", !.off = {<<"cli", "command">>}] }
=============================================================================
