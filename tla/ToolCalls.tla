----------------------------- MODULE ToolCalls ------------------------------
(***************************************************************************)
(* Commands as tools: what the MCP server exports and lists (mcp/mod.rs),  *)
(* one call from the request to its answer over HTTP or stdio, with the    *)
(* per-caller tools and the execution gate, and the bridge that decides    *)
(* what may run on which surface (command_surface/tool_bridge.rs,          *)
(* security/). The protocol and the tasks are the rmcp and tokio crates';  *)
(* a command prints, ends, fails or panics as it likes.                    *)
(***************************************************************************)
EXTENDS Integers, Sequences, FiniteSets

CONSTANTS
  Calls,        \* the requests a server receives
  Callers,      \* the identities an authenticator tells apart
  Nobody,       \* no identity
  Unlocked,     \* the lock of stdio is free
  Registered,   \* the commands of the registry
  Offered,      \* the lists of tools that the provider may give a caller
  MaxChanges    \* how often the provider changes its mind

\* An id stands for one command, and those of the provider are its own.
IdAssumption ==
  /\ \A c, d \in Registered : c.id = d.id => c = d
  /\ \A c \in Registered : c.id # ""
  /\ \A l \in Offered : \A i \in DOMAIN l :
       l[i].id # "" /\ \A c \in Registered : l[i].id # c.id
ASSUME ToolsAssumption ==
  /\ Unlocked \notin Calls /\ MaxChanges \in Nat
  /\ \A l \in Offered : l \in Seq({l[i] : i \in DOMAIN l})
  /\ IdAssumption

VARIABLES
  server,   \* how the server was started, and the exported tools
  grants,   \* per caller, nobody included, what the provider would answer now
  call,     \* per call, where it is
  guard,    \* the call that holds the lock of stdio
  buffer,   \* per call, the output it has collected
  changes

toolcalls == <<server, grants, call, guard, buffer, changes>>

-----------------------------------------------------------------------------
(* The exported tools. A segment of a path is the words between its        *)
(* underscores; a tool's name is all words of its path.                    *)

ToolName(path) ==
  LET words[n \in 0 .. Len(path)] == IF n = 0 THEN <<>> ELSE words[n - 1] \o path[n]
  IN words[Len(path)]

\* from_command_registry_with_policy: all but the completion and what is below
\* auth, and only what the commands allow if the policy says so.
Exported(policy) ==
  {c \in Registered : /\ ~c.completion /\ c.path[1] # <<"auth">>
                      /\ policy = "ExposeMcpOnly" => c.expose_mcp}
\* Of two commands with one name either stays: the registry has no order.
Registries(policy) ==
  {f \in [{ToolName(c.path) : c \in Exported(policy)} -> Exported(policy)] :
     \A n \in DOMAIN f : ToolName(f[n].path) = n}

\* list_tools_for_identity: the exported tools, and of the caller's the first
\* of each name that is not exported.
First(tools, n) == tools[CHOOSE i \in DOMAIN tools : tools[i].name = n /\ \A j \in 1 .. i - 1 : tools[j].name # n]
Names(tools) == {tools[i].name : i \in DOMAIN tools}
list_tools_for_identity(tools, dynamic) ==
  [n \in DOMAIN tools \cup Names(dynamic) |->
     IF n \in DOMAIN tools THEN tools[n].id ELSE First(dynamic, n).id]

-----------------------------------------------------------------------------
(* The bridge.                                                             *)

\* CommandRiskPolicy::classify.
classify(policy, id, category) ==
  IF id \in DOMAIN policy.tiers THEN policy.tiers[id]
  ELSE CASE category \in {"deployment", "admin", "destructive"} -> "Destructive"
         [] category \in {"data", "config"} -> "Sensitive"
         [] OTHER -> policy.default_tier

\* RiskEnforcer::enforce_preflight.
enforce_preflight(tier, assume_yes, env) ==
  CASE tier = "Safe" -> "ok"
    [] tier = "Sensitive" -> IF env.interactive \/ assume_yes THEN "ok" ELSE "SensitiveNeedsConfirmation"
    [] tier = "Destructive" ->
         IF ~env.allow_destructive THEN "DestructiveEnvGated"
         ELSE IF env.interactive THEN "ok" ELSE "DestructiveNeedsInteractive"

\* request_confirmation.
request_confirmation(confirmation, answer) ==
  CASE confirmation = "AssumeYes" -> "ok"
    [] confirmation = "InteractiveStdin" -> IF answer = "yes" THEN "ok" ELSE "UserDeclined"
    [] confirmation = "NonInteractive" -> "NeedsInteractive"

\* invoke_interactive up to the gate: what lets the command run, or refuses it.
invoke_interactive(tier, confirmation, env, answer) ==
  LET yes == confirmation = "AssumeYes"
      preflight == enforce_preflight(tier, yes, env)
  IN CASE preflight # "ok" -> preflight
       [] preflight = "ok" /\ (yes \/ tier = "Safe") -> "ok"
       [] OTHER -> request_confirmation(confirmation, answer)

\* McpHostToolAdapter::call_tool: how a chat asks.
ChatConfirmation(yolo, interactive) ==
  IF yolo THEN "AssumeYes" ELSE IF interactive THEN "InteractiveStdin" ELSE "NonInteractive"

-----------------------------------------------------------------------------
(* The server.                                                             *)

ServeArgs == [transport : {"http", "stdio"}, address : BOOLEAN, port : {"number", "text"}]
Refused(args) == IF args.transport = "stdio" THEN args.address ELSE args.port = "text"

\* What mcp install makes of its arguments; --arg replaces the words with which
\* an agent starts the server.
parse_mcp_install_args(given) ==
  [stdio_mode |-> given.stdio, url |-> given.url, address |-> given.address,
   exe_args |-> IF given.arg = <<>> THEN <<"mcp", "serve", "--transport", "stdio">> ELSE given.arg]
\* What an agent is told: words to start, or where to connect.
run_mcp_install(parsed) ==
  IF parsed.stdio_mode THEN [kind |-> "Stdio", args |-> parsed.exe_args]
  ELSE [kind |-> "Http", url |-> IF parsed.url # "" THEN parsed.url ELSE parsed.address]

Started(transport, policy, gate) ==
  \E tools \in Registries(policy) :
    server' = [phase |-> "serving", transport |-> transport, policy |-> policy, tools |-> tools, gate |-> gate]
NotStarted == server' = [server EXCEPT !.phase = "refused"]
serve_mcp_stdio(policy, gate) == Started("stdio", policy, gate)
\* A listener that was handed in is taken, else the address is bound if it can.
serve_mcp_http(policy, gate, listener) ==
  \/ Started("http", policy, gate)
  \/ ~listener /\ NotStarted

\* create_mcp_serve_command: --host, --port and --path are refused for stdio.
Serve ==
  /\ server.phase = "configured"
  /\ \E args \in ServeArgs, policy \in {"All", "ExposeMcpOnly"}, gate, listener \in BOOLEAN :
       IF Refused(args) THEN NotStarted
       ELSE IF args.transport = "stdio" THEN serve_mcp_stdio(policy, gate)
       ELSE serve_mcp_http(policy, gate, listener)
  /\ UNCHANGED <<grants, call, guard, buffer, changes>>

\* ResourceRegistry: exact URIs and prefixes, each registered again in place;
\* an exact URI first, else the longest prefix. An empty result is not found.
register_prefix(prefixes, prefix, entry) ==
  LET there == {i \in DOMAIN prefixes : prefixes[i][1] = prefix}
  IN IF there = {} THEN Append(prefixes, <<prefix, entry>>)
     ELSE [i \in DOMAIN prefixes |-> IF i \in there THEN <<prefix, entry>> ELSE prefixes[i]]
StartsWith(uri, p) == Len(p) <= Len(uri) /\ SubSeq(uri, 1, Len(p)) = p

read(entries, prefixes, uri) ==
  LET fit == {i \in DOMAIN prefixes : StartsWith(uri, prefixes[i][1])}
  IN CASE uri \in DOMAIN entries -> {entries[uri]}
       [] uri \notin DOMAIN entries /\ fit = {} -> {}
       [] OTHER -> {prefixes[CHOOSE i \in fit : \A j \in fit : Len(prefixes[j][1]) <= Len(prefixes[i][1])][2]}

\* Who may be behind a request: the provider is asked for nobody too.
Identities == Callers \cup {Nobody}

\* The provider's answer for a caller changes.
Change ==
  /\ changes > 0 /\ server.phase = "serving"
  /\ \E who \in Identities, tools \in Offered : tools # grants[who] /\ grants' = [grants EXCEPT ![who] = tools]
  /\ changes' = changes - 1
  /\ UNCHANGED <<server, call, guard, buffer>>

-----------------------------------------------------------------------------
(* A call.                                                                 *)

NoCall == [pc |-> "none", tool |-> <<>>, who |-> Nobody, id |-> "", passed |-> FALSE, result |-> "none",
           text |-> {}, could |-> {}]
At(c, pc) == call' = [call EXCEPT ![c].pc = pc]
\* What a call that ended was is not kept, nor which code its error has.
Failed(c, code) == call' = [call EXCEPT ![c] = [NoCall EXCEPT !.pc = "done", !.result = "error"]]
Release(c) == guard' = IF guard = c THEN Unlocked ELSE guard

\* call_tool: the identity is read from the request's headers, which stdio
\* does not have; then stdio waits for its lock.
call_tool(c) ==
  /\ server.phase = "serving" /\ call[c].pc = "none"
  /\ \E tool \in DOMAIN server.tools \cup UNION {Names(l) : l \in Offered},
        who \in IF server.transport = "http" THEN Identities ELSE {Nobody} :
       call' = [call EXCEPT ![c] = [NoCall EXCEPT !.tool = tool, !.who = who,
                  !.pc = IF server.transport = "stdio" THEN "lock" ELSE "resolve"]]
  /\ UNCHANGED <<server, grants, guard, buffer, changes>>

Acquire(c) ==
  /\ call[c].pc = "lock" /\ guard = Unlocked
  /\ guard' = c
  /\ At(c, "resolve")
  /\ UNCHANGED <<server, grants, buffer, changes>>

\* dynamic_tools_for: the provider's answer for this identity, also when
\* there is none (stdio, or nobody authenticated).
Granted(who) == grants[who]
\* What the caller may run under this name at this moment.
Allowed(c) ==
  {list_tools_for_identity(server.tools, Granted(call[c].who))[n] :
     n \in {call[c].tool} \cap (DOMAIN server.tools \cup Names(Granted(call[c].who)))}

\* Mutant: the provider is asked once, for whoever called last.
ResolveShared(c) ==
  LET all == UNION {{grants[who][i] : i \in DOMAIN grants[who]} : who \in Identities}
      mine == {t \in all : t.name = call[c].tool}
  IN /\ call[c].pc = "resolve"
     /\ IF call[c].tool \notin DOMAIN server.tools /\ mine = {}
        THEN Failed(c, "-32001") /\ Release(c)
        ELSE /\ \E t \in IF call[c].tool \in DOMAIN server.tools THEN {server.tools[call[c].tool]} ELSE mine :
                  call' = [call EXCEPT ![c].pc = "validate", ![c].id = t.id, ![c].could = Allowed(c)]
             /\ UNCHANGED guard
     /\ UNCHANGED <<server, grants, buffer, changes>>

\* dispatch_tool_call_with_identity: an exported tool, or one that the provider
\* gives this caller now.
Resolve(c) ==
  LET dynamic == Granted(call[c].who)
  IN /\ call[c].pc = "resolve"
     /\ IF call[c].tool \in DOMAIN server.tools \cup Names(dynamic)
        THEN /\ call' = [call EXCEPT ![c].pc = "validate", ![c].could = Allowed(c),
                  ![c].id = IF call[c].tool \in DOMAIN server.tools
                            THEN server.tools[call[c].tool].id ELSE First(dynamic, call[c].tool).id]
             /\ UNCHANGED guard
        ELSE Failed(c, "-32001") /\ Release(c)
     /\ UNCHANGED <<server, grants, buffer, changes>>

\* invoke_mcp: the arguments are validated; there is no preflight and no
\* confirmation here.
invoke_mcp(c) ==
  /\ call[c].pc = "validate"
  /\ \/ At(c, "gate") /\ UNCHANGED guard
     \/ Failed(c, "-32002") /\ Release(c)
  /\ UNCHANGED <<server, grants, buffer, changes>>

\* invoke_inner: the gate, when there is one, allows, denies or fails.
Gate(c) ==
  /\ call[c].pc = "gate"
  /\ \/ call' = [call EXCEPT ![c].pc = "running", ![c].passed = server.gate] /\ UNCHANGED guard
     \/ server.gate /\ (Failed(c, "-32005") \/ Failed(c, "-32006")) /\ Release(c)
  /\ UNCHANGED <<server, grants, buffer, changes>>

\* McpAppContext: a command prints to the buffer of its own call.
framework_println(c) ==
  /\ call[c].pc = "running" /\ c \notin buffer[c]
  /\ buffer' = [buffer EXCEPT ![c] = @ \cup {c}]
  /\ UNCHANGED <<server, grants, call, guard, changes>>

\* The command ends: the buffer is drained into the answer.
Executed(c) ==
  /\ call[c].pc = "running"
  /\ call' = [call EXCEPT ![c] = [NoCall EXCEPT !.pc = "done", !.result = "ok", !.text = buffer[c]]]
  /\ buffer' = [buffer EXCEPT ![c] = {}]
  /\ Release(c)
  /\ UNCHANGED <<server, grants, changes>>
ExecutionFailed(c) ==
  /\ call[c].pc = "running"
  /\ Failed(c, "-32003") /\ Release(c)
  /\ UNCHANGED <<server, grants, buffer, changes>>

\* Mutant: a call that panicked keeps the lock.
PanickedHolding(c) ==
  /\ call[c].pc \in {"resolve", "validate", "gate", "running"}
  /\ Failed(c, "-32004")
  /\ UNCHANGED <<server, grants, guard, buffer, changes>>
\* dispatch_tool_call_spawned_with_identity: the provider, the gate or the
\* command panics in the call's own task.
Panicked(c) ==
  /\ call[c].pc \in {"resolve", "validate", "gate", "running"}
  /\ Failed(c, "-32004") /\ Release(c)
  /\ UNCHANGED <<server, grants, buffer, changes>>

ToolCallsInit ==
  /\ server = [phase |-> "configured", transport |-> "", policy |-> "", tools |-> <<>>, gate |-> FALSE]
  /\ grants \in [Identities -> Offered]
  /\ call = [c \in Calls |-> NoCall]
  /\ guard = Unlocked
  /\ buffer = [c \in Calls |-> {}]
  /\ changes = MaxChanges

Proceed(c) ==
  \/ Acquire(c) \/ Resolve(c) \/ invoke_mcp(c) \/ Gate(c)
  \/ Executed(c) \/ ExecutionFailed(c) \/ Panicked(c)
ToolCallsNext ==
  \/ Serve \/ Change
  \/ \E c \in Calls : call_tool(c) \/ framework_println(c) \/ Proceed(c)

-----------------------------------------------------------------------------
(* Properties.                                                             *)

\* Over stdio one call at a time is at work, from its resolution to its
\* answer, whatever the others do: two would mix on the terminal
\* (CliFrameworkHandler::call_tool).
StdioIsSerial ==
  server.transport = "stdio" =>
    \A c, d \in Calls : call[c].pc \in {"resolve", "validate", "gate", "running"}
                        /\ call[d].pc \in {"resolve", "validate", "gate", "running"} => c = d

\* What runs for a caller is what that caller's own list had under that name
\* when the call was resolved, although lists change between the listing and
\* the call and other callers have other lists; and it is never a command that
\* the export policy keeps back (dispatch_tool_call_with_identity,
\* list_tools_for_identity).
RunsWhatIsListed ==
  \A c \in Calls : call[c].id # "" =>
    /\ call[c].id \in call[c].could
    /\ \A cmd \in Registered : cmd.id = call[c].id /\ server.policy = "ExposeMcpOnly" => cmd.expose_mcp

\* With a gate no command runs that it has not let through
\* (CommandAsToolBridge::invoke_inner).
GateIsPassed == \A c \in Calls : server.gate /\ call[c].pc = "running" => call[c].passed

\* An answer holds what its own call printed and nothing of the calls beside
\* it, of those that failed or of those that panicked (McpAppContext).
OutputIsOwn == \A c \in Calls : call[c].text \subseteq {c}

\* Every call is answered, after a panic in another too
\* (CliFrameworkHandler::call_tool, dispatch_tool_call_spawned).
EveryCallIsAnswered ==
  \A c \in Calls : call[c].pc # "none" ~> call[c].pc = "done"
=============================================================================
