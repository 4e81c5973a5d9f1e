----------------------------- MODULE ApiServer ------------------------------
(***************************************************************************)
(* The API server (api/): what build accepts and which handler a path then *)
(* reaches, and the server from a signal to its end, beside a load         *)
(* balancer that sends requests while the last probe of /readyz said       *)
(* ready. Paths are sequences of segments. Routing and the draining of     *)
(* connections are the axum crate's.                                       *)
(***************************************************************************)
EXTENDS Integers, Sequences, FiniteSets

CONSTANTS Requests    \* the requests that the balancer sends

-----------------------------------------------------------------------------
(* The builder.                                                            *)

\* Names by what ApiVersionName::parse says of them.
parse(name) == CASE name \in {"docs", "openapi.json"} -> "reserved"
                 [] name \in {"v1", "v2beta1"} -> "ok"
                 [] OTHER -> "invalid"

\* A path that is empty, relative or ends with a slash is refused.
normalize_mount_path(raw) == raw.form = "absolute"

is_prefix_path(prefix, path) == Len(prefix) <= Len(path) /\ SubSeq(path, 1, Len(prefix)) = prefix
\* Mutant: only one direction.
paths_collide_below(a, b) == is_prefix_path(a, b)
paths_collide(a, b) == is_prefix_path(a, b) \/ is_prefix_path(b, a)

Fixed == {<<"api">>, <<"healthz">>, <<"readyz">>, <<"mcp">>}
Blocked(c) ==
  Fixed \cup {<<"api", v>> : v \in c.versions} \cup {<<"api", "docs">>}
        \cup {<<"api", v, "openapi.json">> : v \in c.versions}

\* build, with the checks of version and reserved_prefixes: "ok", or what it
\* panics with. With auth the routes of mcp_router are given in a form that the
\* router refuses.
build(c) ==
  CASE c.versions = {} -> "E_API_NO_VERSIONS"
    [] c.versions # {} /\ \E v \in c.versions : parse(v) # "ok" -> "E_API_VERSION"
    [] OTHER ->
         IF c.default_version \notin c.versions \cup {"None"} THEN "E_API_DEFAULT_UNKNOWN"
         ELSE IF \/ \E m \in c.mounts : ~normalize_mount_path(m) \/ m.path \in {<<>>, <<"api">>}
                                        \/ \E b \in Blocked(c) : paths_collide(m.path, b)
                 \/ \E r \in c.reserved : \E b \in Fixed : paths_collide(r, b)
              THEN "E_API_MOUNT_COLLISION"
         ELSE IF c.auth /\ c.mcp THEN "panic"
         ELSE "ok"

Handler(at, name, auth) == [at |-> at, name |-> name, auth |-> auth]
\* nest_with_cors_auth, route_with_cors_auth: the handlers, and whether the auth
\* layer is around each. What is below one belongs to it, but for openapi.json.
Handlers(c) ==
  {Handler(<<"api", v>>, v, c.auth) : v \in c.versions}
    \cup {Handler(<<"api">>, "unversioned", FALSE)}
    \cup {Handler(m.path, "mount", c.auth) : m \in c.mounts}
    \cup {Handler(<<h>>, h, c.auth /\ c.protect_health) : h \in {"healthz", "readyz"}}
    \cup {Handler(<<"mcp">>, "mcp", c.auth) : x \in IF c.mcp THEN {1} ELSE {}}
    \cup UNION {{Handler(<<"api", "docs">>, "docs", c.auth), Handler(<<"api", v, "openapi.json">>, "docs", c.auth)} :
                  v \in c.openapi \cap c.versions}
Longest(found) == CHOOSE h \in found : \A g \in found : Len(g.at) <= Len(h.at)
Route(c, path) ==
  LET whole(h) == h.at[Len(h.at)] = "openapi.json"
      found == {h \in Handlers(c) : IF whole(h) THEN path = h.at ELSE is_prefix_path(h.at, path)}
  IN CASE found # {} -> Longest(found)
       [] found = {} /\ c.root_fallback -> Handler(<<>>, "fallback", FALSE)
       [] OTHER -> Handler(<<>>, "404", FALSE)

\* handle_unversioned, redirect_location: where a path without a version goes.
redirect_location(c, path) == <<"api", c.default_version>> \o SubSeq(path, 2, Len(path))
handle_unversioned(c, path) ==
  IF c.default_version = "None" THEN Handler(<<"api">>, "404", FALSE) ELSE Route(c, redirect_location(c, path))

-----------------------------------------------------------------------------
(* Shutdown.                                                               *)

VARIABLES
  flags,     \* shutdown_readiness and whether the token is cancelled
  task,      \* the task that waits for the signal
  listening, \* whether the listener takes connections
  served,    \* whether serve has returned
  probe,     \* whether there is a balancer, its probe and what the last one said
  request,   \* per request, where it is
  rounds     \* probes that began after readiness went off and have ended

api == <<flags, task, listening, served, probe, request, rounds>>
Off == flags.unready \/ flags.cancelled

\* wait_for_shutdown_signal: SIGINT or SIGTERM, whichever is first.
Signal ==
  /\ task = "waiting"
  /\ task' = "signalled"
  /\ UNCHANGED <<flags, listening, served, probe, request, rounds>>
StoreReadiness ==
  /\ task = "signalled"
  /\ task' = "unready"
  /\ flags' = [flags EXCEPT !.unready = TRUE]
  /\ UNCHANGED <<listening, served, probe, request, rounds>>
CancelToken ==
  /\ task = "unready"
  /\ task' = "cancelled"
  /\ flags' = [flags EXCEPT !.cancelled = TRUE]
  /\ UNCHANGED <<listening, served, probe, request, rounds>>
\* Mutant: the server is told at once.
SleepNot ==
  /\ task = "cancelled"
  /\ task' = "sent"
  /\ UNCHANGED <<flags, listening, served, probe, request, rounds>>
\* 200 ms pass, in which the balancer, if there is one, has probed; then the
\* server is told.
Sleep ==
  /\ task = "cancelled"
  /\ probe.on => rounds > 0
  /\ task' = "sent"
  /\ UNCHANGED <<flags, listening, served, probe, request, rounds>>

\* The application cancels the token by itself: nobody else waits for it.
AppCancels ==
  /\ ~flags.cancelled
  /\ flags' = [flags EXCEPT !.cancelled = TRUE]
  /\ UNCHANGED <<task, listening, served, probe, request, rounds>>

\* with_graceful_shutdown: no more connections, and the end when the requests
\* under way are answered.
StopListening ==
  /\ task = "sent" /\ listening
  /\ listening' = FALSE
  /\ UNCHANGED <<flags, task, served, probe, request, rounds>>
Busy == probe.pc = "checking" \/ \E r \in Requests : request[r] = "handled"
Return ==
  /\ ~listening /\ ~served /\ ~Busy
  /\ served' = TRUE
  /\ UNCHANGED <<flags, task, listening, probe, request, rounds>>

\* readyz: the flags are read, and the application's check is waited for; its
\* answer stands although the flags may have changed.
readyz ==
  /\ probe.on /\ probe.pc = "idle" /\ listening
  /\ IF Off
     THEN /\ probe' = [probe EXCEPT !.ready = FALSE]
          /\ rounds' = IF flags.unready THEN 1 ELSE rounds
     ELSE probe' = [probe EXCEPT !.pc = "checking"] /\ UNCHANGED rounds
  /\ UNCHANGED <<flags, task, listening, served, request>>
ReadinessReport ==
  /\ probe.pc = "checking" /\ ~served
  /\ \E ready \in BOOLEAN : probe' = [probe EXCEPT !.pc = "idle", !.ready = ready]
  /\ UNCHANGED <<flags, task, listening, served, request, rounds>>

\* A request of the balancer, and its answer.
Send(r) ==
  /\ probe.ready /\ request[r] = "none"
  /\ request' = [request EXCEPT ![r] = IF listening THEN "handled" ELSE "refused"]
  /\ UNCHANGED <<flags, task, listening, served, probe, rounds>>
Answer(r) ==
  /\ request[r] = "handled" /\ ~served
  /\ request' = [request EXCEPT ![r] = "answered"]
  /\ UNCHANGED <<flags, task, listening, served, probe, rounds>>

ApiInit ==
  /\ flags = [unready |-> FALSE, cancelled |-> FALSE]
  /\ task = "waiting" /\ listening = TRUE /\ served = FALSE
  /\ probe \in [pc : {"idle"}, ready : {FALSE}, on : BOOLEAN]
  /\ request = [r \in Requests |-> "none"]
  /\ rounds = 0
Shutdown == StoreReadiness \/ CancelToken \/ Sleep \/ StopListening \/ Return
ApiNext == \/ Shutdown \/ readyz \/ ReadinessReport \/ Signal \/ AppCancels
           \/ \E r \in Requests : Send(r) \/ Answer(r)

-----------------------------------------------------------------------------
(* Properties.                                                             *)

\* A balancer that probes within the 200 ms never has a request refused,
\* although a probe may have read the flags before the signal and answer ready
\* after it (serve_with_listener, readyz).
NoRequestIsRefused == \A r \in Requests : request[r] # "refused"

\* serve returns only when what it took is answered
\* (serve_with_listener).
TakenIsAnswered == served => ~Busy

\* A signal ends the server, whenever it comes, also after the application
\* cancelled the token itself (serve_with_listener).
SignalEndsServer == task # "waiting" ~> served
=============================================================================
