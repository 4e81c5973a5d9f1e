# Verification of cli-framework

`cli-framework` is a Rust framework for command-line applications: it builds
the command surface of an application, and gives it configuration, secrets,
telemetry, authentication against an OIDC provider, a configuration service
with policies enforced on clients, self-installation with updates, an MCP
server, an API server and a doctor. The parts that are hard to test are those
where several tasks, processes, administrators, tabs or requests share a cache,
a file, a cookie or a row, where a process is killed between two steps, where a
provider answers late, badly or not at all, and where two pieces of code decide
the same thing separately. This project models those parts in TLA+, checks them
with TLC on small instances and proves with TLAPS, for every instance, all their
safety properties but two, which are rules over data.

Paths below are relative to the repository.

## 1. Inventory

| Component | State | Operations | What is hard |
|---|---|---|---|
| OIDC resource server (`cli-framework-oidc/src/server`, `jwks.rs`; twin in `browser/state.rs`) | key cache, time of the last refetch, discovery document, three async mutexes | `validate` → `get_decoding_keys` → fetch | requests race for one refetch; two lock orders; rate limit; stale serving; cancellation at every await |
| OIDC client (`cli-framework-oidc/src/client`) and auth commands (`src/auth`) | one secret with the tokens of all grants, a legacy secret, a lock file | `token`, `login`, `logout`, `invalidate`, send with retry after 401 | several processes; rotation of refresh tokens; lost responses; store failures; crashes; migration |
| Host session and browser layer (`host_session/`, `browser/`) | a session and a sign-in sealed in cookies; the realm's sessions | login, callback, resolve with refresh, logout | tabs share a cookie and a rotating token; answers overtake each other; two sign-ins at once |
| Token validation, claims, addresses (`server`, `browser`, `claim_path.rs`, `lib.rs`, `endpoint_security.rs`) | none | three validators, discovery, claim paths | three implementations of one verdict |
| Self-install (`src/self_install`) | binary, `.prev`, parked and staging files, lock file, receipt | install, update, rollback, uninstall | several processes without a kernel lock; stale locks; crashes between file operations; Windows' rules for a running executable |
| Configuration service (`src/config/service`) | manifest, policies, assignment rules, mutation log (PostgreSQL); lookup cache; schema version | put manifest, put/patch/restore policy, put rules, import bundle; policy lookup; migrations | concurrent transactions at READ COMMITTED; checks outside the transaction; optimistic concurrency; replicas that start together |
| Configuration store (`src/config/store.rs`, backends) and managed client (`src/config/managed`) | current value, the file, the cached policy with its ETag and age | load with migration, save, reload, refresh, fold | threads and other processes on one file; a refresh against a save; stale and refused policies |
| Roaming document (`roaming_client.rs`, `service/router.rs`, both stores), retries (`src/retry`, `src/http_retry`) | a document with a version | get, put with If-Match, retried | a retry of what was already done; answers that are lost; late transactions |
| Resolution, manifest, bundles (`src/config/resolution`, `service/validate.rs`, `bundle.rs`, `fs_store.rs`) | none | precedence of layers, checks, export and load | client and service decide the same thing separately |
| Telemetry (`src/telemetry`, `app/builder.rs`) | settings file, frozen policy, providers | startup, notice, commands, redaction, flush | settings shared by processes without a lock; order of startup; consent; a collector that hangs |
| Application, registry, arguments (`src/app`, `src/command`, `src/spec`, `src/parser`) | builder, registry, snapshots of it | builder calls, fourteen build steps, parse, dispatch | order of calls; names that meet; two surfaces that convert arguments |
| MCP server, risk gate, chat (`src/mcp`, `src/security`, `src/command/chat*`) | exported tools, per-caller lists, output buffers, the stdio lock | list, call, gate, mcp install, chat turn | concurrent calls, panics, serialisation on stdio, lists that change |
| API server (`src/api`) | readiness flags, shutdown token | build, route, serve, drain | shutdown order beside a load balancer |
| Doctor (`src/doctor`) | result slots | run checks | concurrent checks that panic |
| Secrets, private files (`src/secrets`, `src/security/private_file.rs`) | a file and its temporary files | put, get, delete | threads, killed processes, Windows sharing; four kinds of store |
| Plugin registry (`src/plugin`) | registry file, loaded manifests | register, enable, load | a file and its copy in memory |
| Output, messages, surface documents, test kits, derive macros | none | formatting, code generation | not modelled |

How they interact: the auth commands and `AuthenticatedHttpClient` call the
OIDC client; the managed and roaming clients send their requests through
`AuthenticatedHttpClient` and the retrying HTTP client to the configuration
service, whose identity layer is the OIDC resource server; self-install reads
its policy (channel, minimum version) from managed configuration; MCP tools and
chat run the commands of the registry; telemetry and the doctor read what the
others store. The modules are composed along these lines where a property needs
it, and otherwise stand for themselves.

What makes each component correct is listed with its run in section 3; the
hazards, each at its line with the properties about it, are in `PROJECT.json`.

## 2. Modules

| Module | Models | Used by run |
|---|---|---|
| `JwksCache` (proofs: `JwksCacheProofs`) | `IssuerState` of the resource server | `jwks_cache` |
| `TokenCache` (proofs: `TokenCacheProofs`) | `OidcClient`, `AuthenticatedHttpClient` | `token_faults` |
| `SelfInstall` (proofs: `SelfInstallProofs`) | `src/self_install` | `install_*` |
| `ConfigService` (proofs: `ConfigServiceProofs`) | `PgPolicyStore`, the admin and policy routers, `ConfigServiceState` | `config_*` |
| `TelemetryPolicy`, `Telemetry` (proofs: `TelemetryProofs`) | the pure policy, redaction and settings; the processes that use them | `telemetry` |
| `SessionBase`, `HostSession`, `BrowserSession` | browser, realm and network; the two servers of a session | `sessions` |
| `OidcConfig`, `OidcTokens`, `Sessions` (proofs: `SessionsProofs`) | settings and addresses; validators and claims; the composition | `sessions` |
| `CommandTree`, `Args`, `App` (proofs: `AppProofs`) | registry and parser; arguments and schemas; the builder and dispatch | `app` |
| `ConfigResolution`, `Bundle` | resolution, folds and checks; bundles | `confstore` |
| `ManagedConfig`, `SchemaMigrations` | one process's store and policy client; replicas that migrate | `confstore` |
| `UserDocument`, `Roaming` | the abstract document; client, retries and store | `confstore` |
| `ConfStore` (proofs: `ConfStoreProofs`) | the composition | `confstore` |
| `ToolCalls`, `ChatTurns`, `ApiServer`, `Doctor`, `Secrets`, `Plugins`, `Serving` (proofs: `AppProofs`) | one component each; the composition | `serving` |
| `MC...` | the values of the constants for TLC | |

A composition of components that share no state (`Sessions` with its two
surfaces, `ConfStore`, `Serving`) starts in one of them: a variable such as `side` or
`surface` says which, and the others rest. Operators without a state are checked in
the initial states against a reference definition over all inputs of a small
set; these parts are guarded by `Before` or `now = 0`.

### JwksCache

One action per stretch of `get_decoding_keys` between two awaits.
`jwks_cache`, `last_forced_refetch` and `refetch_gate` are the variables
`cacheLock`, `lastLock` and `gate`; a lock that is taken and released without
an await in between is part of one action, and only the two windows in which
one lock is held while another is awaited (`"mark"`, `"limited"`) keep it.
`Arrive` is `authorize_inner` up to the key lookup; `Probe`, `Recheck`,
`Limit`, `StoreKeys`, `MarkRefetch`, `ServeStale` are named in the map.
`Cancel` drops the future of a request at any await, with the guards it holds.
Keys are a kid and a material; a signature verifies if the token's key is among
those `filter_keys` gives. The network answers or fails at will; the provider
may publish another key set at any time. The `IssuerState` of the browser crate
(`browser/state.rs`) has the same code and is covered by reading.

### TokenCache

One process per command-line invocation. `primary` and `legacy` are the two
secrets, each a function from grants to entries or absent; `lock` is the
advisory lock file that the operating system releases when a process is
killed. `token` reads without the lock, refreshes or acquires, then takes the
lock, loads, changes its own entry and replaces the whole secret; `send` adds
the 401, `invalidate`, `token`, retry sequence. The provider rotates refresh
tokens: `valid` are those it accepts, `dead` those whose successor was lost on
the way. With `StoreFails` every access to the store and to the lock may fail
as the code handles it (a read error counts as an empty cache, a failed write
inside `logout` is logged). The dialogue with the user inside a login is one
step here; its polls and its callback are in `OidcConfig`.

### SelfInstall

Every step is one file-system call. A file is the version it holds, `Missing`
or `Torn` (a copy that was cut off). The lock is a file created with
`create_new`; `Age` lets a lock pass the 15 minutes of `STALE_LOCK`, for the
locks of dead processes or of any (constant `Ageing`). `Windows` switches the
two ways `place_binary` replaces a file; `Faults` lets every fallible call fail.
An operation reads the receipt and the running version when it begins and uses
them after it has the lock, as the code does. Archive verification, the
release download and the choice among releases are one step each.

### ConfigService

One application. The rows are variables; a transaction's writes are made in its
commit step, since nobody sees them before; its row locks are taken one
statement at a time. A `SELECT ... FOR UPDATE` of a row that does not exist
locks nothing, and the later `INSERT` waits for and then fails against another
one: `InsertManifest`, `InsertSet`. A request starts with what its author saw
(`AskPolicy` takes the version stored at that moment as If-Match), and
everything between that and the commit interleaves with the others. The
enforced and the recommended tree, which the code treats alike, are one tree;
the hash of `combined_chain_version` is taken to be free of collisions; a bundle
holds one application with a manifest. The client is `PolicyClient`: it sends
the version it has as If-None-Match and keeps its policy on 304 and on 500.

### Telemetry

`TelemetryPolicy` holds what is a function: levels, the layers of a policy and
their clamping (`fold_layers`), probes, the class of an attribute, the redaction
of a span, the notice decision, the doctor's verdicts. `Telemetry` runs
processes against one settings file: each reads the kill switches, the
environment and the file, shows the notice, mints an install id, runs one command (a
telemetry command, doctor, an ordinary one, one that panics), records, exports
through the redacting exporter and flushes with a budget. Read, change and
replace of the file are separate steps; a process may be killed at any of them
and a write may fail. A file of a newer version is a value of its own. A process on the deprecated
`with_telemetry` configuration may run beside the others.

### Sessions

`SessionBase` is the outside: a browser with tabs that share one jar, requests
that carry the cookies of the moment they were sent, answers that are delivered
in any order or lost, a realm that grants, rotates, refuses and ends sessions,
a clock that jumps, and a redeployment that changes the key or the binding.
`HostSession` and `BrowserSession` are the handlers, split where the code awaits the
realm: what was read before the call is used after it. Sealing is the key and
the binding under which a cookie opens. `OidcConfig` holds what the settings decide (issuer and endpoint checks,
discovery, construction of the client and the host, the two interactive
sign-ins), `OidcTokens` the verdict of the three validators over the set of a
token's flaws, and claim paths. The browser layer's own constructor refuses every
configuration (see the table below); its handlers are modelled as they would run once built.

### App

`CommandTree` is the registry with its collision rules, the clap tree and the
completion model; `Args` the way of a value from a command line or from JSON to a
typed argument, the shared validation and the published schema. `App` makes up
to `MaxCalls` builder calls in any order, then the stages of `build` one by one, each
with its own idea of whether the application already has such a command, then
runs one command line. `env` is the list of environment variables for the root help: the app's own
calls (`register_env_var`), at the last stage those of every command (`register_commands`: a blank or a
second description for one name fails the build), then those telemetry reads, where the app has not described
them itself (`register_if_absent`). `BuildResolve` also fails over a manifest that has a `telemetry` of its own
(`published_telemetry_manifest`), `BuildClap` over one whose fields about telemetry have a blank description. A name is a segment (`Segments`), a path a nonempty sequence of them
(`Paths`); the words of a command line are followed one by one from the root (`WalkStep`),
as clap does with its subcommands. The framework's own commands are registered under the
namespace the app chose, or at the root: a clash (`Clash`) is a name of the app's, an alias, or the
namespace itself where the framework wants a command.

### ConfStore

`ManagedConfig`: threads of one process save (through a temporary file, under the write lock),
reload and refresh; another process replaces the file; the process ends anywhere
and starts again; the service publishes, withdraws, refuses or does not answer.
`Roaming`: every write is one `put` of a client after its `get`, attempts are
repeated while the service may still be working on an earlier one, PostgreSQL's transaction has
its steps. `UserDocument` is what this promises (a write takes effect at most
once, as a whole, on the version it was made from), and `DocumentRefined` says
that `Roaming` implements it. `SchemaMigrations`: replicas of different binaries,
the advisory lock of a session, one transaction per migration, connections that break.
`ConfigResolution` and `Bundle` are operators.

### Serving

`ToolCalls`: a call from the request over HTTP or stdio through resolution in the
caller's own list (the provider is asked with no identity, too: over stdio, or over HTTP without a login), validation, gate, command and answer, with panics anywhere; and,
as operators, the risk tiers, the confirmation of a chat, resources, `mcp install`.
`ChatTurns`: the events of a turn to the messages of the next request. `ApiServer`: what
`build` accepts, routing, and the order signal → not ready → 200 ms → cancel →
drain, beside a balancer that sends requests while its last probe said ready.
`Doctor`: checks joined in the order they end; a place is empty, or holds the finding of its check, or that of
whichever check panicked while it was empty. `Secrets`: `replace_private` step by step
on Unix and Windows. `Plugins`: the registry file and the loaded manifests.

## 3. Runs

Eleven runs that pass and one that shows a disagreement between the code and a
comment. A property that a cfg names is often a conjunction of the properties
its module states one by one; the parts are in brackets.

| Run | Instance | Shows |
|---|---|---|
| `jwks_cache` | 2 requests, 4 tokens, rotation between 2 key sets, TTL 3, interval 2, 3 ticks | `FetchesAreShared` (`TypeOK`, the inductive `IInv`, `SingleFlight`, `NoLockCycle`, `NoRedundantFetch`), `StoresAreSpaced` (rate limit), `UnavailableOnlyBeforeFirstFetch`, `EveryRequestAnswered` |
| `token_faults` | 2 processes, 2 grants (one interactive), 2 token responses, 2 operations, failing store, kills | `NobodyIsStranded` (`TypeOK`, `RefreshChainUnbroken`), `RetryIsFresh`, `SiblingsSurvive` |
| `install_locked` | 2 processes, 2 versions, update and rollback, no stale locks | `OneUpdateAtATime` (`TypeOK`, the inductive `LockInv`, `MutualExclusion`), `NeverHalfWritten` (the inductive `WholeInv`, `InstalledIsWhole`), `Reversible`, `NeverTakenAway` |
| `install_serial` | 1 process, 3 versions with a prerelease, all operations and policies | `ReceiptDescribesBinaries`, `VersionsAreAdmitted` (`ChannelsNeverDowngrade`, `MinimumHeld`) |
| `install_windows` | 1 process, 2 versions, 2 crashes, every file operation may fail, Windows, dead locks age | `WholeCopySurvives`, `DeadLockIsBroken` |
| `config_writes` | 2 administrators, 3 requests of every kind, base and leaf profile, 2 fields, 1 caller | `StoreIsSound` (`TypeOK`, `PoliciesFitManifest`, `ReferencesResolve`), `NoLockCycle`, `VersionsIdentify` (`HistoryAgrees`, `CacheIsCurrent`), `NoLostUpdate` |
| `config_not_modified` | one change of the rules | **violated** `FreshIsCurrent` |
| `telemetry` | 2 process slots with one run each, several launches (kill switch, environment levels, script, withdrawn, deprecated), 3 install ids, several start files | `ExportIsConsented` (`TypeOK`, `ConsentBoundsExport`, `NothingForbiddenLeaves`), `UserIsTold` (`NoticePrecedesExport`, `DoctorNamesLostSpans`), `WritesKeepOtherFields`, `EndUserRunEnds` |
| `sessions` | 2 tabs, 2 sign-ins, 4 requests, jumps of 4 up to time 12, access life 5, refresh life 11, idle 10, one fault; both surfaces, rotating or not | `CalmSessionLasts`, `AdmittedIsEntitled` (`TypeOK`, `AdmittedIsGenuine`, `EndedSessionRunsOut`, `IdleWindow`), `SignInsComplete` (`CodesAreNotWasted`, `CalmSignInCompletes`), `SettingsAreSound` (`ValidatorsAgree`, `ClaimPathsAreFaithful`, `ClientAddressesAreSafe`, `DeviceLoginIsPolite`, `HostSessionFits`, `PartiesAgree`) |
| `app` | 3 builder calls in any order over every name the framework cares about, 5 environment variables, manifests that telemetry can and cannot be merged into; one command line; 1224 arguments against 113 JSON values and 133 command lines of up to 2 tokens | `OneCommandPerLine` (`TypeOK`, `RegistryUnambiguous`, `DispatchRunsTheNamedCommand`), `BuildIsComplete` (`ClearAppGetsItsCommands`, `VariablesAreListed`, `PanicsOnlyOverChatAndMcp`, `SnapshotsAreComplete`, `ServiceHasNoEndUserCommands`, `CompletionOffersParse`), `ArgumentsAreAlike` (`SchemaIsExact`, `SurfacesAgree`) |
| `confstore` | 2 threads, 3 operations, 1 save elsewhere, 2 starts, 2 policies; 2 roaming writes with one retry each; 3 replicas, 2 broken connections | `ValuesAreRight` (`TypeOK`, `SettledIsRight`, `FileIsWhole`, `CachePairsEtag`, `ConflictIsSomebodyElse`), `MigrationsApplyOnce`, `RulesAgree` (`PrecedenceHolds`, `StoredPolicyIsApplied`, `FoldIsExact`, `RoamingIsAccepted`, `BundleRoundTrips`, `BackoffIsOrderly`), `DocumentRefined` (refinement of `UserDocument`) |
| `serving` | 2 calls by one caller or by nobody, one change of a list; 2 requests through the balancer; 3 checks; 2 writers of a secret, 1 kill; 2 plugins | `CallsAreApart` (`TypeOK`, `StdioIsSerial`, `RunsWhatIsListed`, `GateIsPassed`, `OutputIsOwn`), `NothingIsDropped` (`NoRequestIsRefused`, `TakenIsAnswered`), `FindingsSurvive` (`NormalFindingsSurvive`, `RunAllAttributesPanics`), `SurfaceRules` (`DestructiveNeedsConsent`, `MostSpecificIsRead`, `EveryCallHasItsResult`, `RoutesAreApart`, `InstalledServerIsReached`, `StoresAreAlike`), `KeptIsSound` (`SecretIsWhole`, `LoadedIsEnabled`), `EveryoneIsServed` (`EveryCallIsAnswered`, `SignalEndsServer`) |

Why the bounds are enough: two of each kind of actor suffice for a race between two, which is what
every property here is about, and the mutant recorded for each property shows that
the instance contains the case. Three ticks with a TTL of 3 and an interval of 2
contain a fresh cache, a stale one, and a refetch that is too early. Two token
responses contain one rotation and a race for it. Three versions contain an
upgrade, a downgrade and a prerelease between them. Three administrative
requests contain a sequence of two with a third racing one of them; in
`config_writes` the database starts empty or with the first bundle imported.
Four requests of two tabs contain two concurrent refreshes of one token, each followed by another request; twelve units
of time contain an expired access token, an expired session, an idle one and a sign-in that took too
long, in every order. Three builder calls contain a name taken before and
after an option that wants it. A variable of the app's with two descriptions and one without, and one name each of chat's
and telemetry's, contain every way in which two entries meet. The arguments have every kind, cardinality and type, are
published by their own name or another, with and without bounds, a pattern, a minimum of two values and a default that is or is not
valid; two items of an array contain one that is of the type beside one that is not. Three operations of two threads contain a refresh
with a save in between and the operation that puts it right. Three replicas contain an older binary, a newer one
and one whose migrations have a gap. Three checks contain two panics before and after a result.
The constants and bounds named `Max...`, `Faults` and `Jumps`, and the finite sets of tokens, ids and requests, are the only bounds that are not part
of the system. Deadlock checking is off where the actors end: command-line
invocations, a browser with no requests left, a server that was stopped.

Symmetry is used for processes, administrators, tabs, threads and writes in runs
without liveness only.

### Fairness

* `JwksCache`: tasks are scheduled and a tokio mutex is handed over in FIFO
  order, hence strong fairness of the local steps and of taking the gate. The
  HTTP client of `http_client()` has no timeout, so nothing in the code makes a
  network step happen; `AnsweringSpec` assumes a provider that answers, well or
  badly, and the run says what follows from it.
* `SelfInstall`: an install from an archive, which needs neither a receipt nor an
  executable in place, is attempted again and again and not always declined;
  processes run until they are killed; locks age.
* `Telemetry`: a process runs until it ends or is killed. The collector owes
  nobody an answer: that a run ends nevertheless is the flush budget's doing.
* `Serving`: tasks make progress, a command ends, fails or panics, the lock of
  stdio is handed over in FIFO order (strong fairness), the application's
  readiness check answers and a handler answers its request.

`TokenCache`, `ConfigService`, `Sessions`, `App` and `ConfStore` are checked for safety
only: what they wait for is a user, an administrator or a browser.

### What the code does not do

One disagreement is kept as a run (`findings` in `PROJECT.json`): *304 for another
profile's policy.* The ETag is a number that is unique only within a profile, so a
caller that the rules move to another profile with the same version keeps the
old policy although `policy_client.rs` calls a 304 the server's current word.

Others were met while modelling. The ones that a module states as a property,
with the sentence it comes from, are refuted by TLC under the constants given:

| Property | Constants | Why |
|---|---|---|
| `JwksCache!EveryRequestAnswered` under `FairSpec` | as `jwks_cache` | ADR 0070 bounds the wait by a timeout the HTTP client does not have |
| `JwksCache!FetchesAreSpaced` | as `jwks_cache` | the refetch time is recorded on success only (ADR 0070: one fetch per interval) |
| `JwksCache!UnavailableOnlyBeforeFirstFetch` | a provider that may publish no usable key | an empty key set replaces good keys and is then 503 (`server/mod.rs:350`) |
| `JwksCache!SignatureFailureRefetches` | a kid reissued with new material | ADR 0069 promises one refetch; only an unknown kid causes one (`server/mod.rs:389`) |
| `TokenCache!LogoutTellsTheTruth` | 2 processes that log out, failing store | a failed write is logged and `auth logout` exits 0 (`client/mod.rs:750`, `auth/commands.rs:104`) |
| `TokenCache!NotAuthenticatedOnlyWhenNeeded` | 2 processes, `send` and `token` | the two secrets are read one after the other while another process migrates; the loser of a refresh race |
| `TokenCache!OnlyLoginCreatesCredentials` | 2 processes, `send` and `logout` | a refresh under way writes credentials back after a logout (`client/mod.rs:665`) |
| `SelfInstall!MutualExclusion` | 2 processes, one crash, ageing locks | `UpdateLock::acquire` removes the path of the lock it found stale, whatever file is there by then (`update.rs:243`; ADR 0080:63) |
| `SelfInstall!MinimumHeld` | 1 process, one crash, a minimum version | an update killed between keeping `.prev` and writing the receipt leaves no previous version to compare (`update.rs:542`; `policy.rs:26`) |
| `SelfInstall!ReceiptDescribesBinaries`, `ChannelsNeverDowngrade` | 2 processes, updates | the receipt and the running version are read before the lock |
| `SelfInstall!StablePolicyHeld` | `updateFrom` under an enforced stable channel | `--from` checks the minimum version only |
| `SelfInstall!DoctorSeesMismatch` | 1 crash | the doctor never compares versions (ADR 0080 says it does) |
| `SelfInstall!InstalledIsWhole` | faults, rollback | `.prev` is copied in place; rollback places a torn copy |
| `ConfigService!NoLostRules` | 2 rule changes | `get_assignments` reads the rules and their version in two queries (`admin_router.rs:566`) |
| `ConfigService!ChainsResolve` | two profiles without a parent, 2 patches | the cycle check runs before the transaction (`postgres/mod.rs:563-570` says so) |
| `ConfStore!StoredPolicyIsExported` | as `confstore` | validation takes any unsigned 64-bit integer (`resolver.rs:306`), TOML has signed ones, and one such value in a policy fails the whole export, which the comment at `bundle.rs:73` calls not reachable |
| `ManagedConfig!RecommendedApplies` | as `confstore` | the file's document holds a value for every field, so a recommendation never counts (`managed/mod.rs:81`; ADR 0072:42-44) |

The rest came from reading the code against its documents; the models contain
the behaviour, and the properties above are stated around it.

*Self-install.* Uninstall takes no lock and deletes the files of an update beside it (`ops.rs:729`);
a rollback that fails after it placed the old binary loses `.prev` (`update.rs:561`).

*Telemetry.* With `cli.command.args` disabled the argument names are still sent
(`docs/telemetry.md:152-163`; `redact.rs:265`). The panic event never reaches the
collector (`builder.rs:2304`; `docs/telemetry.md:68`). A reset that an overlapping
`mutate` overtakes brings the install id back. Metrics are counted although the probe
`cli.command` is disabled. A file of a newer version is read as defaults and
overwritten (`store.rs:197`). A run killed between recording and printing the notice
leaves it unprinted (`startup.rs:570`). `telemetry status` ignores the environment
and the deployment's defaults (`commands.rs:167`). Probes of the author can be
neither disabled nor listed (`commands.rs:664`). Doctor says that no session
identifier is sent (`doctor.rs:394`), `session.id` always is (`probes.rs:106`).
`SubscriberCheck` is Ok when no provider was built. The deprecated `with_telemetry`
exports without consent, redaction and flush budget.

*OIDC.* The browser layer never builds: its size estimate for its own default is
3946 bytes and the limit 3900 (`browser/mod.rs:124-128`). `session_ttl` slides with every
refresh (`browser/mod.rs:50` calls it a maximum). The path of the state cookie is
`/callback` whatever `callback_path` is (`layer.rs:313`). An issuer with a trailing
slash never validates. When the keys are unavailable the browser layer spends
the refresh token and drops the new cookie (`layer.rs:230-259`). A request that was
under way at a logout can put the cookie back. `wait_for_callback` reads the first
connection only.

*Application.* A nested command called `version` gives way to the framework's version line
(`builder.rs:2053`). `build` panics when the application owns a group, alias or child named `chat`, or the
root `mcp` (`builder.rs:1372-1379`, `1529-1531`); so it may over a namespace that begins with one of them.
An alias of several segments may name what its own command is under. Completion offers groups that have nothing in them, which the parser does
not know, and omits `mcp` and itself. A nested context drops configuration, telemetry and
arguments (`dispatch.rs:147-181`). The arguments' disagreements are stated exactly, and are all there are: what the
schema allows and the tool refuses (`Withheld`: every string of an enumeration, an integral number for a float, `1.0` or an
integer above an i64 for an integer, an array of strings for anything else that repeats, the count of a repeated flag); what the
schema does not allow and the tool takes (`Unpublished`: an array for a scalar, whatever the bounds and the
pattern, one value for an argument that repeats, null or an object for an optional one, no value where a repeated one
asks for some); what only the command line takes (`OnlyOnTheLine`) or only MCP (`OnlyByMcp`: nothing given, where the
default is itself invalid). An argument published by `long` is looked up by `name` and never found, and neither is one
called `_positional`.

*Configuration.* A reload or save after a refresh drops the enforced values from the running
configuration until the next refresh (`managed/mod.rs:34`). The policy folded at startup comes from the cache
without a look at its age. A denied policy is dropped at run time and folded again
at the next start. An unreadable cache is ignored by a fetch and fails the start. A write whose
answer was lost is retried and reported as a conflict with itself. A bundle cannot say that the
default rule comes before others, and a store that passes validation cannot be exported when a policy or the value of
a rule has an integer above `i64::MAX`, or the value of a rule a null inside (`bundle.rs:153-157`); the ages of cached policies
are taken to be within an i64. The fixed retry strategy has no maximum (`retry/policy.rs:106`).

*Serving.* The tools `a/b` and `a_b` have one name. Chat ignores the execution gate; MCP asks for no
confirmation. A server with auth and an MCP router panics (`api/mod.rs:545`); `reserved_prefixes`
has no effect; the fallback of the root has no auth; a token that the application
cancels itself does not stop the server; draining has no time limit. `doctor` with filters may lose a panic and exit with
success, and `run_all` may give a panic's message to another check (`doctor/runner.rs:103`).

*Secrets and plugins.* On Windows a put and a get at the same time may fail with a sharing
violation, and a put may report an error although the value is there
(`private_file.rs:564-648`). Keys `a` and `a/b` exclude each other in files; two keys may
have the same environment variable. Two first calls to OpenBao log in twice; a
404 from the login is an absent secret. A plugin stays enabled when its manifest fails to load; a second load keeps
manifests of plugins that are gone; the registry file is written in place.

## 4. Proofs

TLAPS proves, for every value of the constants that satisfies the named
assumptions:

`JwksCacheProofs`

* `TypeCorrect`: the type invariant.
* `InductiveInvariant`: `IInv`, in two lemmas. `GateInductive` shows `GateInv`:
  exactly the holder of `refetch_gate` is past it, and the inner locks are held
  exactly in their windows. `RefetchInductive` shows `RefetchInv`: from the second
  look at the cache to the store the cache still cannot answer, and past the
  rate limit the limit stays satisfied. The second needs the first, because only
  the gate's holder writes the cache and the refetch time, and two facts of the
  clock (`ElapsedOnlyGrows`, `CacheStaysBlind`): time makes a stale cache no
  fresher and an interval no shorter.
* `OutageOnlyAtFirst`: a 503 for want of keys comes before the first fetch only
  (`UnavailableOnlyBeforeFirstFetch`), if the provider never publishes a set without a usable
  key (`{} \notin KeySets`; without that the table above has the counterexample). The invariant: once something was
  fetched, the cache has keys, and so has every fetch that is about to be stored.
* `AtMostOneFetch`, `LockOrdersNeverMeet`, `WaitersShareTheFetch` follow from it, and
  together they are `RequestsShareFetches`, the property `FetchesAreShared` of the
  run. `StoresKeepTheInterval` is the action property `StoresAreSpaced`.

`TokenCacheProofs`, for any number of processes, grants and token responses, with
kills and a store that fails

* `CacheCorrect`: `CacheInv`. Beside the types it says who is past the lock and what the
  holder has read there (`HereInv`: the copy it will write back is what is stored, or an empty
  one after a failed read), that a response on its way belongs to one process, that a refresh
  token belongs to one grant (`OwnersInv`: otherwise the rotation of one grant could strand
  another), and `ChainInv`.
* `ChainCorrect` (`NobodyIsStranded`), `RetryCorrect` (`RetryIsFresh`), and the action property
  `WritesSpareSiblings` (`SiblingsSurvive`) follow from it.

`SelfInstallProofs`

* `TypeCorrect`.
* `LockExcludes`: `OneUpdateAtATime`, if no lock is ever taken for stale
  (`Ageing = "none"`) and nobody uninstalls. `LockInv` is inductive: whoever is
  past the lock owns it, and nobody is at a step that removes it. That the
  assumption is needed is the row about `MutualExclusion` above.
* `BinaryStays`: on Unix nothing but an uninstall ever empties the path of the
  binary, whatever races, fails or is killed (`NeverTakenAway`). It needs no
  lock: every way to the binary is a rename of a file that exists.
* `BinaryIsWhole`: `NeverHalfWritten`, without crashes and file errors.
  `WholeInv` says that the only torn file is a `.prev` in the making; that
  rollback cannot pick it up needs `LockInv`.
* `UpdatesAreReversible`: `Reversible`, with any number of processes, crashes and file errors, if
  no lock is taken for stale and every operation takes it (so there is no uninstall and no install from the running binary,
  which do not). `UndoInv` says for the holder of the lock, at each of its steps, which of
  the three copies is the binary and which the `.prev` it found.
* `ReceiptIsTrue` (`ReceiptDescribesBinaries`) and `VersionsAdmitted`, for operations that run
  one after the other (one process, no crash, no file error, no unmanaged install, which ignores the receipt): two
  processes break it, as the table says. `AloneInv`
  follows an operation from what it read to what it places; only with the first is the second true, since a
  rollback compares the version the receipt names and places what `.prev` holds.
* `CopySurvives`: `WholeCopySurvives` on Windows through failures and kills,
  for one process without rollback (a rollback places `.prev`, which a kill may have left torn).

`ConfigServiceProofs`, for any number of administrators, profiles, fields and requests

* `StoreCorrect` (`StoreIsSound`): `StoreInv`. A commit is sound only because of what its
  transaction validated and holds, so the invariant says for each request, by the step it is at, what it has
  checked (`Knows`), which rows it has locked (`Holds`), and that what it read is still what is stored.
* `UpdatesAreKept` (`NoLostUpdate`) and `LocksAreOrdered` (`NoLockCycle`, by the order manifest, policies,
  rules) follow from the same invariant.
* `VersionsTell` (`VersionsIdentify`): `CacheInv` says that every entry of the lookup cache was computed from a table
  of policies that was once stored; since versions only grow (`VersionsGrow`), the same chain and the
  same combined version are the same documents.

`TelemetryProofs`, for any number of processes, runs, launches and settings files

* `ExportConsented` (`ExportIsConsented`), `UserTold` (`UserIsTold`) and the action property `WritesAreNarrow`
  (`WritesKeepOtherFields`) from one invariant, `TelemetryInv`: what a run's frozen policy owes to
  its environment and to the copy of the settings it read (`PolicyInv`), which provider was built of it, what is in its
  buffers, what it is about to write; and that a level recorded as announced was announced, in the file
  and in every copy of it. The lemmas on `resolve_policy`, `fold_environment` and
  redaction are about every input.

`SessionsProofs`, for any number of tabs, sign-ins, requests and faults

* `SessionsInvariant`: `SessionsInv`. Every session cookie, in the jar, in a request or in an answer, is of a grant the
  realm made, does not outlive it by more than an access token, and belongs to this deployment while nothing failed
  (`CookieInv`); what a handler found out before it called the realm (`RequestInv`); what an answer may say
  (`AnswerInv`); no two tabs are in one sign-in, and its code is unspent (`ClaimsInv`); and, in calm, one request is under
  way at most, and the session in the jar, or the one the answer brings, is the one the realm will refresh (`Calm`).
  The last is why `CalmSessionLasts` holds, and needs the one before: the cookie a request carries is then the jar's.
* `SessionLasts` (`CalmSessionLasts`), `AdmissionsEntitled` (`AdmittedIsEntitled`) and `SignInsUndisturbed` (`SignInsComplete`).
  The generation of a token is bounded by the requests sent, which takes the number of requests
  under way: hence the finite set of tabs.
* `SettingsSound` (`SettingsAreSound`): what settings, documents and tokens alone decide. No invariant is needed, and most of
  it is proved of more than the run enumerates: `OneJudgement` of any flaws and audiences (no validator looks at `nbf`, so a token that is not
  yet valid is admitted by all three; each validator is reduced to one
  verdict, `VerdictFacts`, and a status that is a function of it); `AnyAddressIsSafe` and `IssuersAreOne` of any hosts, ports, paths
  and queries; `SessionFits` of any sizes (the length of a sealed cookie is monotone, `SealedGrows`); `LoginIsPolite` of any
  interval, expiry and list of answers, by the invariant of the polling loop (`Spaced`), carried along the recursive
  function by its least bad step (`RunExists`). The paths of claims (`PathsFaithful`) are proved for the keys that the model
  has, one or two characters of a letter, a dot and a backslash: the parse is followed character by character, for one key, for two, and for the
  document it is looked up in.

`ConfStoreProofs`

* `MigrationsCorrect` (`MigrationsApplyOnce`), for any set of replicas and any lists of migrations:
  whoever is past the advisory lock holds it, and what the holder read is still the schema's version.
* `DocumentImplemented`: `DocumentRefined`, the refinement of `UserDocument` by `Roaming`: the initial states map to
  initial states and every step to a write that takes effect, an answer, or a stutter. `RoamingInv` says that a stored write's
  version is beyond the one it was made from, for attempts that are repeated and answers that are on their way.
* `ValuesCorrect` (`ValuesAreRight`): `ManagedInv` says what each thread has in hand at each step,
  and that it is what the file says when the thread is alone; `OnceInv` is for writes without retries.

`AppProofs`, first half: the application, for any names, commands, aliases, groups, namespaces and any number of
calls on the builder

* `AppIsSound`: `AppInv` is inductive. `BaseInv` holds the types and `Unambiguous`: a name means one command, by its path
  or by an alias beside it, or a group, and nothing is registered under a command. The rest is what each stage of `build`
  may assume of the ones before:
  `Fresh` (until the first registration the registry is the app's), `Deployed` and `SelfOfAnEndUser` (the deployment is
  decided before anything depends on it), `Origins` (what is not the app's was placed by a step that is over, and has no alias but
  `completions`), `Got` (without a clash all of it is there), `Snapshots` (what the copies for completion and for `mcp serve`
  lack), `FailedForAReason`, and `Clash /\ Taken` where `build` panics. `Origins` is needed for `Got`: a step fails to place its
  command only if the name is somebody's, and that somebody is the app, because the steps before place other names. `LastInv` says that
  what ran is what `run_command` makes of the line.
* `ALineRunsOneCommand` (`OneCommandPerLine`): a line of any length. The walk is a function on the number of words; that
  it goes through groups as long as a path does, and ends in the command (`WalkThroughGroups`, `WalkToCommand`), is proved
  by the least word at which it would not. It reaches one command only because names are unambiguous.
* `TheBuiltAppIsComplete` (`BuildIsComplete`): `Got` and `Origins` at the last stage; what completion offers parses, by the
  same walk. That none of the reasons to refuse is let pass, and that the variables listed are those declared, needs
  `EnvInv` besides: the list holds only what the app itself told it until the last stage, one description for a
  name; once chat's stage is over there is a command of its name, with chat's variables if it is the framework's; and the options that
  `build` refuses are gone from the stages behind their check. A step of `build` keeps it because it only adds commands
  of the framework's and leaves the others as they are (`Grows`).
* `ArgumentsAreTakenAlike` (`ArgumentsAreAlike`) holds in every state and needs no invariant: for arguments of any names,
  bounds, minimum and default, every JSON scalar, arrays of any length and command lines of any length. What MCP asks is
  reduced to what validation asks of one value (`McpAsks`), a list to its items (`AcceptedLists`), the command line to the
  value of each token (`CliAsks`, `TokenFacts`); the rest is the cases of cardinality, kind and type.

`AppProofs`, second half: for any number of calls, callers, requests, checks, threads and plugins

* `CallsApart` (`CallsAreApart`), `RequestsAreServed` (`NothingIsDropped`), `FindingsAreKept` (`FindingsSurvive`),
  `KeptStaysSound` (`KeptIsSound`): `ServingInv`, one part for each side. `ToolsInv` ties a call to the one command that its name
  stood for when it was looked up; `ApiInv` ties the probe to the flags: one that ended after readiness went off said no.
* `DoctorInv` says what may stand at each place of the doctor's report (`Expected`): the finding of its own check once that has
  ended, else nothing or somebody's panic; and that `run_all` has as many messages as places that panicked, so that
  the places left empty at the end are those, and there is a message for each. What `Vec::flatten` keeps (`PresentFacts`) is proved for
  lists of any length by the least place at which it would not hold.

What the theorems assume of the constants is what the modules' ASSUMEs say, and TLC evaluates
them in every run: bounds are naturals; the values that stand for "none" are not values; documents,
bundles and rules are over the declared fields and profiles; ids name one command and the provider's are its own
(`IdAssumption`); the probes of the author are registered by `register`, and reports are not `None`
(`OpsProbesAreRegistered`, `ReportAssumption`); cookies are neither `Keep` nor `Clear`, and there is at least
one sign-in and one request (`SessionConstants`, `SessionValues`); the framework's own names are segments, the app's paths are
nonempty sequences of segments and its commands have aliases that are (`AppAssumption`); the checks are a list
and the unknown id is none of them (`DoctorAssumption`). Where a theorem needs more, its statement says so.

Only model-checked:

* liveness, and everything under fairness, which is outside this prover: `EveryRequestAnswered`,
  `DeadLockIsBroken`, `EndUserRunEnds`, `EveryoneIsServed`;
* rules over data, each an equality of two operators over sequences or trees that is checked in the initial states for all
  inputs of a small set and would need an induction over them: `RulesAgree`, `SurfaceRules`.

## 5. Not modelled

* Output, messages, surface documents, spec rendering, test kits, examples:
  text and fixtures, no state. Derive macros: code generation at compile time.
* Cryptography, key conversion and JWT decoding (a token is what is wrong with it, a cookie the key it
  opens under); the SDKs of OpenTelemetry, rmcp, axum, aikit and PostgreSQL are modelled by how the
  code uses them.
* Within the modelled components: PATH edits, completions, the Windows registry and `--purge` of
  self-install; archive contents; wire formats and parsers of bundles, manifests
  and rules; the registry backend of the configuration store; tar files; the
  `Retry-After` header and the synchronous executor (the same loop as the modelled one); trace propagation
  and resource attributes; spans and the rendering of diagnostics; what commands
  print; the lines a chat reads.

Time is a counter or a flag where the code compares a clock.

## 6. Plan

The model is complete in the parts above, and every safety property of the runs is proved but two: `RulesAgree` and `SurfaceRules`,
rules over data. They could be taken further, part by part:

1. those parts that are a comparison of two records or of a few cases, like `BackoffIsOrderly` or `RoutesAreApart`,
   in the way `ArgumentsAreAlike` and the parts of `SettingsAreSound` were: without induction;
2. those that fold a list of layers (`PrecedenceHolds`, `FoldIsExact`), by the least layer at which two folds would differ, as
   the walk over the words of a line and the doctor's flattening were, once the folds are functions on the number of layers.

## 7. Running

    tlc -workers 2 -config JwksCache.cfg MCJwksCache
    tlapm --threads 4 JwksCacheProofs.tla

and likewise for the other configurations and proof modules. The longest runs
(`app`, `sessions`, `install_windows`, `confstore`, `serving`) take about two minutes on two cores.
