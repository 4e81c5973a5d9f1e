----------------------------- MODULE OidcConfig -----------------------------
(***************************************************************************)
(* What the OIDC crate accepts before anything runs: addresses, discovery  *)
(* documents, the settings of the client, of the host session and of the   *)
(* browser layer, and the two interactive sign-ins of the client. All of   *)
(* it is a function of its input. A URL is the record of the parts that    *)
(* the code looks at; No and Malformed stand for one that is not there and *)
(* for one that does not parse, Error for a refusal.                       *)
(***************************************************************************)
EXTENDS Integers, Sequences, FiniteSets

Reserved == {"client_id", "redirect_uri", "state"}

\* The parts of a URL: slashes counts the ones its path ends with, query the
\* parameters it already has.
Url(scheme, host, port, path, slashes) ==
  [scheme |-> scheme, host |-> host, port |-> port, path |-> path,
   slashes |-> slashes, creds |-> FALSE, fragment |-> FALSE, query |-> {}]

No == Url("no", "", "none", "", 0)
Malformed == Url("malformed", "", "none", "", 0)
Error == Url("error", "", "none", "", 0)
IsUrl(u) == u.scheme \notin {"no", "malformed", "error"}

\* 127.0.0.1, localhost or [::1].
is_loopback(u) == u.host = "loopback"

\* https, or http to the machine itself: the rule every address shares.
SecureScheme(u) == u.scheme = "https" \/ (u.scheme = "http" /\ is_loopback(u))

\* validate_jwks_uri.
validate_jwks_uri(u) == IsUrl(u) /\ SecureScheme(u)

\* normalize_issuer: default ports, trailing slashes, credentials, the query
\* and the fragment are dropped. Error is InsecureIssuer.
normalize_issuer(u) ==
  IF ~IsUrl(u) \/ ~SecureScheme(u) THEN Error
  ELSE Url(u.scheme, u.host, IF u.port = "default" THEN "none" ELSE u.port, u.path, 0)

Bare(u) == ~u.creds /\ ~u.fragment

\* secure_endpoint, secure_transport_endpoint and secure_issuer.
secure_endpoint(u) == IsUrl(u) /\ SecureScheme(u) /\ Bare(u)
secure_transport_endpoint(u) ==
  IsUrl(u) /\ (SecureScheme(u) \/ (u.scheme = "http" /\ u.host = "cluster")) /\ Bare(u)
secure_issuer(u) == secure_endpoint(u) /\ u.query = {}

-----------------------------------------------------------------------------
(* The client.                                                             *)

\* required_discovered_endpoint and optional_discovered_endpoint: Error
\* when it is unsafe, malformed, or missing and required.
required_discovered_endpoint(u) == IF secure_endpoint(u) THEN u ELSE Error
optional_discovered_endpoint(u) ==
  IF u = No THEN No ELSE required_discovered_endpoint(u)

\* fetch_discovery of the client: the document has to be of the configured
\* issuer; an override of the token endpoint replaces the discovered one,
\* which has to be there and safe all the same.
fetch_discovery(issuer, override, doc) ==
  LET t == required_discovered_endpoint(doc.token)
      d == optional_discovered_endpoint(doc.device)
      a == optional_discovered_endpoint(doc.authorization)
      refused == \/ ~secure_issuer(doc.issuer) \/ normalize_issuer(doc.issuer) # issuer
                 \/ Error \in {t, d, a}
  IN [ok |-> ~refused, token |-> IF override = No THEN t ELSE override,
      device |-> d, authorization |-> a]

\* pick_interactive_flow.
pick_interactive_flow(remote, gui) ==
  IF ~remote /\ gui THEN "AuthCodePkce" ELSE "DeviceCode"

\* OidcClientBuilder::from_env: the flow the environment asks for. "error"
\* for a missing issuer, client or secret and for a flow it does not know.
from_env(e) ==
  CASE ~e.issuer \/ ~e.client -> "error"
    [] e.issuer /\ e.client /\ e.flow = "device" -> "DeviceCode"
    [] e.issuer /\ e.client /\ e.flow = "pkce" -> "AuthCodePkce"
    [] e.issuer /\ e.client /\ e.flow \in {"client-credentials", "cc"} ->
         IF e.secret THEN "ClientCredentials" ELSE "error"
    [] e.issuer /\ e.client /\ e.flow \in {"auto", "none"} ->
         IF e.secret THEN "ClientCredentials" ELSE pick_interactive_flow(e.remote, e.gui)
    [] OTHER -> "error"

\* OidcClientBuilder::build, validate_transport_override and
\* default_cache_dir: the issuer the client will compare tokens and
\* documents with, or Error.
OidcClientBuilder_build(c) ==
  LET overrides == {c.discovery, c.token} \ {No}
  IN IF secure_issuer(c.issuer) /\ c.client /\ c.flow # "none"
        /\ (\A u \in overrides : secure_transport_endpoint(u))
        /\ (c.cache_dir \/ c.home)
     THEN normalize_issuer(c.issuer) ELSE Error

\* effective_scopes and cache_key: the entry of the token cache a client
\* uses. Scopes are sorted and deduplicated, so a set stands for them.
effective_scopes(c) ==
  CASE c.scopes # "none" -> c.scopes
    [] c.scopes = "none" /\ c.flow = "ClientCredentials" -> {}
    [] OTHER -> {"openid"}
cache_key(c) == <<normalize_issuer(c.issuer), c.client, c.flow, effective_scopes(c)>>

\* authorization_url: the endpoint must not bind a parameter of ours.
authorization_url(u) ==
  IF u.query \cap Reserved # {} THEN Error ELSE [u EXCEPT !.query = @ \cup Reserved]

\* parse_request: the one request line the loopback listener reads.
parse_request(line, expected) ==
  CASE ~line.wellformed \/ line.path # "/callback" -> "error"
    [] line.wellformed /\ line.path = "/callback" /\ line.states # <<expected>> -> "error"
    [] line.wellformed /\ line.path = "/callback" /\ line.states = <<expected>> ->
         IF line.error \/ Len(line.codes) # 1 THEN "error" ELSE line.codes[1]

\* wait_for_callback: the first connection is the only one that is read; no
\* connection within the timeout is a refusal.
wait_for_callback(connections, expected) ==
  IF connections = <<>> THEN "error" ELSE parse_request(connections[1], expected)

\* do_device_code_login: polls until an answer that is neither pending nor
\* slow_down. The deadline is looked at before the wait. The result is the
\* times at which the token endpoint was asked, and how it ended.
do_device_code_login(interval, expires, answers) ==
  LET polled[n \in 0 .. Len(answers)] ==
        IF n = 0 THEN [clock |-> 0, gap |-> interval, asked |-> <<>>, result |-> "waiting"]
        ELSE LET s == polled[n - 1]
                 at == s.clock + s.gap
             IN IF s.result # "waiting" THEN s
                ELSE IF s.clock > expires THEN [s EXCEPT !.result = "expired"]
                ELSE [clock |-> at, asked |-> Append(s.asked, at),
                      gap |-> IF answers[n] = "slow_down" THEN s.gap + 5 ELSE s.gap,
                      result |-> IF answers[n] \in {"authorization_pending", "slow_down"}
                                 THEN "waiting" ELSE answers[n]]
      last == polled[Len(answers)]
  IN [asked |-> last.asked,
      result |-> IF last.result = "waiting" /\ last.clock > expires THEN "expired" ELSE last.result]

\* validate_return, compose_url and end_session_url: the address that ends
\* the realm's session, or why there is none.
validate_return(redirect, state) ==
  /\ state # "empty" /\ (state # "none" => redirect # No)
  /\ redirect # No =>
       /\ IsUrl(redirect) /\ Bare(redirect)
       /\ redirect.scheme \notin {"javascript", "data", "file"}
       /\ redirect.scheme \in {"http", "https"} => secure_endpoint(redirect)
compose_url(u, redirect, state) ==
  IF \/ ~secure_endpoint(u)
     \/ u.query \cap {"client_id", "post_logout_redirect_uri", "state", "id_token_hint"} # {}
  THEN Error
  ELSE [u EXCEPT !.query = @ \cup {"client_id"}
          \cup (IF redirect = No THEN {} ELSE {"post_logout_redirect_uri"})
          \cup (IF state = "none" THEN {} ELSE {"state"})]
end_session_url(issuer, doc, redirect, state) ==
  CASE ~validate_return(redirect, state) \/ ~secure_issuer(issuer) -> Error
    [] normalize_issuer(doc.issuer) # issuer -> Error
    [] doc.end = No -> No
    [] OTHER -> compose_url(doc.end, redirect, state)

-----------------------------------------------------------------------------
(* The resource server, the host session and the browser layer.            *)

\* static_decoding_keys: kinds of keys a configured set may hold.
static_decoding_keys(keys) == keys # {} /\ keys \subseteq {"RSA", "EC"}

\* IssuerState::build.
IssuerState_build(c) ==
  /\ normalize_issuer(c.issuer) # Error
  /\ c.algorithms # {}
  /\ c.jwks_uri # No => validate_jwks_uri(c.jwks_uri) /\ c.static = "none"
  /\ c.static # "none" => static_decoding_keys(c.static)
  /\ c.roles_path

\* OidcValidator::new_multi: a sequence of issuers, none twice once they are
\* normalised.
new_multi(cs) ==
  /\ Len(cs) > 0
  /\ \A i \in 1 .. Len(cs) : IssuerState_build(cs[i])
  /\ \A i, j \in 1 .. Len(cs) :
       i < j => normalize_issuer(cs[i].issuer) # normalize_issuer(cs[j].issuer)

\* sealed_len and the expected size of the session cookie.
sealed_len(n) == ((12 + n + 16) * 4 + 2) \div 3
expected_cookie(c) ==
  c.cookie_name + 1 + sealed_len(43 + c.binding + (c.tokens[1] * 3) \div 4
                                 + (c.tokens[2] * 3) \div 4 + 16)

\* HostSessions::new.
HostSessions_new(c) ==
  /\ normalize_issuer(c.issuer) # Error
  /\ c.jwks_uri # No => validate_jwks_uri(c.jwks_uri)
  /\ IsUrl(c.redirect)
  /\ SecureScheme(c.redirect)
  /\ c.prefix # "/" /\ c.redirect.path = <<c.prefix, "callback">> /\ c.redirect.slashes = 0
  /\ c.client /\ c.binding > 0 /\ c.algorithms # {} /\ c.idle >= 60 /\ c.cookie_name > 0
  /\ expected_cookie(c) <= c.max_cookie

\* SessionRecord::encode and put_token: the bytes a sealed session holds. A
\* JWS is kept as its three decoded segments, any other token as it is.
put_token(t) ==
  IF t.jws THEN 1 + 3 * 2 + (t.len * 3) \div 4 ELSE 1 + 2 + t.len
record_len(binding, access, refresh) == 43 + binding + put_token(access) + put_token(refresh)

\* oidc_dual_mode_layer.
oidc_dual_mode_layer(c) ==
  /\ normalize_issuer(c.issuer) # Error
  /\ c.jwks_uri # No => validate_jwks_uri(c.jwks_uri)

\* is_same_origin and cross_site: the host's own pages, by Origin alone, and
\* by Origin or Sec-Fetch-Site.
is_same_origin(h) == h.origins = <<"own">>
cross_site(h) ==
  \/ h.origins # <<>> /\ h.origins[1] # "own"
  \/ h.site = "cross-site"
  \/ h.origins = <<>> /\ h.site = "none"

-----------------------------------------------------------------------------
(* What holds of every setting and document.                               *)

\* Addresses of every kind the checks tell apart.
Urls == [scheme : {"https", "http"}, host : {"remote", "loopback", "cluster"}, port : {"none"},
         path : {"/"}, slashes : {0}, creds : BOOLEAN, fragment : {FALSE}, query : {{}}]

\* Every address a built client sends a secret to is encrypted, or on this
\* machine, or one the deployment itself set for inside its cluster.
SafeAddresses ==
  \A u, v, w \in Urls, o \in {No} \cup Urls :
    LET c == [issuer |-> u, client |-> TRUE, flow |-> "DeviceCode", discovery |-> No, token |-> o,
              cache_dir |-> TRUE, home |-> TRUE]
        issuer == OidcClientBuilder_build(c)
        found == fetch_discovery(issuer, o, [issuer |-> u, token |-> v, device |-> w,
                                             authorization |-> w])
        over == end_session_url(issuer, [issuer |-> u, end |-> v], No, "none")
    IN issuer # Error =>
         /\ SecureScheme(issuer)
         /\ found.ok => /\ SecureScheme(found.device) /\ SecureScheme(found.authorization)
                        /\ SecureScheme(found.token) \/ (found.token = o /\ o.host = "cluster")
         /\ over # Error => SecureScheme(over)

\* The waits of a device login: never shorter than the server's interval and
\* five seconds for each slow_down it sent, one poll after expiry at most.
PollsAreSpaced ==
  \A interval \in 1 .. 2, expires \in {1, 3, 8},
     answers \in UNION {[1 .. n -> {"authorization_pending", "slow_down", "ok"}] : n \in 0 .. 4} :
    LET asked == do_device_code_login(interval, expires, answers).asked
        slowed(i) == Cardinality({j \in 1 .. i : answers[j] = "slow_down"})
    IN /\ asked # <<>> => asked[1] >= interval
       /\ \A i \in 1 .. Len(asked) - 1 : asked[i + 1] - asked[i] >= interval + 5 * slowed(i)
       /\ Cardinality({i \in 1 .. Len(asked) : asked[i] > expires}) <= 1

\* A host sized for an access token of a characters and a refresh token of r
\* leaves room for the session of two signed tokens of these sizes.
SizedSessionFits(binding, a, r, most) ==
  LET c == [issuer |-> Url("https", "remote", "none", "/", 0), jwks_uri |-> No,
            redirect |-> Url("https", "remote", "none", <<"/auth", "callback">>, 0),
            prefix |-> "/auth", client |-> TRUE, binding |-> binding, algorithms |-> {"RS256"},
            idle |-> 60, cookie_name |-> 9, tokens |-> <<a, r>>, max_cookie |-> most]
      jws(n) == [jws |-> TRUE, len |-> n]
  IN HostSessions_new(c) => c.cookie_name + 1 + sealed_len(record_len(binding, jws(a), jws(r))) <= most

\* Settings that HostSessions::new takes leave room for the session of two
\* signed tokens of the expected sizes.
ExpectedSessionFits ==
  \A binding \in {1, 33}, a, r \in {0, 3, 1000, 1501, 2400}, most \in {1000, 3800, 4000} :
    SizedSessionFits(binding, a, r, most)

\* Spellings of issuers: ports and slashes that normalisation drops, schemes
\* and parts that some of the parties refuse.
Issuers == [scheme : {"https", "http"}, host : {"remote", "loopback"}, port : {"none", "default", "8443"},
            path : {"/", "/realm"}, slashes : 0 .. 1, creds : BOOLEAN, fragment : {FALSE}, query : {{}, {"x"}}]

\* One issuer for everybody: what a client is built with, a resource server,
\* the dual-mode layer and a host accept too and know under the same name, two
\* spellings of it share the client's cache entry and cannot be configured as
\* two issuers, and a token of one flow is never served to another.
IssuersAgree ==
  \A u, v \in Issuers :
    LET server(i) == [issuer |-> i, algorithms |-> {"RS256"}, jwks_uri |-> No, static |-> "none", roles_path |-> TRUE]
        client(i, flow) == [issuer |-> i, client |-> TRUE, flow |-> flow, discovery |-> No, token |-> No,
                            cache_dir |-> TRUE, home |-> TRUE, scopes |-> "none"]
        built(i) == OidcClientBuilder_build(client(i, "DeviceCode"))
    IN /\ built(u) # Error =>
            /\ IssuerState_build(server(u)) /\ oidc_dual_mode_layer(server(u))
            /\ normalize_issuer(built(u)) = built(u)
       /\ IssuerState_build(server(u)) <=> oidc_dual_mode_layer(server(u))
       /\ built(u) # Error /\ built(v) # Error =>
            /\ new_multi(<<server(u), server(v)>>) <=> built(u) # built(v)
            /\ built(u) = built(v) <=> cache_key(client(u, "DeviceCode")) = cache_key(client(v, "DeviceCode"))
            /\ cache_key(client(u, "DeviceCode")) # cache_key(client(v, "ClientCredentials"))

\* The code that a sign-in on this machine goes on with came with its own
\* state, once, whoever else connects to the listener, and the address it was
\* asked for at binds no parameter twice; a machine without a browser of its
\* own is sent to one only where the environment asks for it, and a secret
\* that is set is used unless it asks for a sign-in.
SignInIsOwn ==
  /\ \A connections \in UNION {[1 .. n -> [wellformed : BOOLEAN, path : {"/callback", "/"}, error : BOOLEAN,
                                          states : {<<>>, <<"own">>, <<"other">>, <<"own", "other">>},
                                          codes : {<<>>, <<"x">>, <<"x", "y">>}]] : n \in 0 .. 1} :
       wait_for_callback(connections, "own") # "error" =>
         \E c \in {connections[1]} : c.states = <<"own">> /\ c.codes = <<"x">> /\ ~c.error /\ c.path = "/callback"
  /\ \A q \in SUBSET (Reserved \cup {"x"}) :
       LET u == authorization_url([Url("https", "remote", "none", "/", 0) EXCEPT !.query = q])
       IN u = Error \/ (u.query = q \cup Reserved /\ q \cap Reserved = {})
  /\ \A e \in [issuer : BOOLEAN, client : BOOLEAN, secret : BOOLEAN, remote : BOOLEAN, gui : BOOLEAN,
               flow : {"device", "pkce", "client-credentials", "cc", "auto", "none", "x"}] :
       /\ from_env(e) = "AuthCodePkce" => e.flow = "pkce" \/ (e.gui /\ ~e.remote)
       /\ e.secret /\ from_env(e) \in {"AuthCodePkce", "DeviceCode"} => e.flow \in {"pkce", "device"}
       /\ from_env(e) = "ClientCredentials" => e.secret

\* The two tests for the host's own pages do not contradict each other: what
\* is_same_origin takes, logout refuses only on the word of Sec-Fetch-Site.
OwnPages ==
  \A h \in [origins : {<<>>, <<"own">>, <<"other">>, <<"own", "other">>, <<"other", "own">>},
           site : {"none", "same-origin", "same-site", "cross-site"}] :
    is_same_origin(h) /\ cross_site(h) => h.site = "cross-site"
=============================================================================
