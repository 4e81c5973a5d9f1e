------------------------------ MODULE Sessions ------------------------------
(***************************************************************************)
(* A browser with several tabs, signed in through a realm, served by the   *)
(* host session or by the browser session layer: the composition of        *)
(* HostSession and BrowserSession over SessionBase, and its properties.    *)
(***************************************************************************)
EXTENDS HostSession, BrowserSession, OidcConfig, OidcTokens

vars == <<base, callback_path>>

Init ==
  /\ BaseInit
  /\ callback_path \in CallbackPaths
  \* The route matters to the browser layer's sign-in only.
  /\ callback_path # StateCookiePath => surface = "browser" /\ ~rotates /\ jar.session = None

\* What the browser, the realm and time do, whoever serves the browser.
Around ==
  /\ \/ \E t \in Tabs : Deliver(t) \/ LoseAnswer(t) \/ RealmSignsIn(t) \/ LeaveRealm(t)
     \/ \E g \in Logins : RealmEnds(g)
     \/ \E d \in Jumps : Tick(d)
     \/ \E part \in {"key", "bind"} : Redeploy(part)
  /\ UNCHANGED callback_path

\* A request is handled as soon as it is sent: until its call to the realm a
\* handler reads only the request's own cookies and the clock, so it is late
\* for the others only through that call and through its answer.
AtOnce == \A t \in Tabs : tab[t].pc = "sent" => tab'[t].pc # "sent"

Next ==
  /\ \/ Around
     \/ surface = "host" /\ HostNext /\ UNCHANGED callback_path
     \/ surface = "browser" /\ BrowserNext
  /\ AtOnce

Spec == Init /\ [][Next]_vars

-----------------------------------------------------------------------------
(* Properties.                                                             *)

TypeOK ==
  /\ surface \in {"host", "browser"} /\ rotates \in BOOLEAN /\ calm \in BOOLEAN
  /\ now \in 0 .. MaxTime /\ used \in 0 .. MaxTime
  /\ \A g \in Logins : /\ realm[g].st \in {"new", "begun", "code", "live", "ended"}
                       /\ realm[g].gen \in 0 .. MaxRequests
  /\ jar.session \in {None} \cup Cookie
  /\ jar.signin \in {None} \cup SignIn
  /\ \A t \in Tabs : tab[t].pc \in {"idle", "sent", "token", "answer", "realm", "landed"}
  /\ left.requests \in 0 .. MaxRequests /\ left.faults \in 0 .. Faults

Answered(t, whys) == tab[t].pc = "answer" /\ tab[t].answer.why \in whys

\* A browser that sends one request at a time, gets every answer, and whose
\* realm works, is never signed out by a refused refresh: the rotated token
\* always reaches the jar before the next one is needed. A refresh is
\* refused only when the refresh token expired while the request was under
\* way (resolve, process_session).
CalmSessionLasts ==
  \A t \in Tabs :
    calm /\ Answered(t, {"RefreshRefused", "Invalid", "BindingMismatch", "session_expired"})
         /\ tab[t].session # None
         => now >= tab[t].session.refresh_exp

\* Whoever is admitted holds an access token that was issued to this client
\* and had not expired (beyond the validators' leeway) when the request
\* began, in an unexpired session of this deployment's key.
Leeway == IF surface = "host" THEN 0 ELSE ClockSkew
AdmittedIsGenuine ==
  \A t \in Tabs :
    LET c == tab[t].answer.admit
    IN Answered(t, {"Active"}) =>
         /\ c.own
         /\ tab[t].at <= c.access_exp + Leeway
         /\ tab[t].at <= tab[t].session.refresh_exp + Leeway

\* A session that was ended at the realm, by logout or otherwise, is
\* admitted for one access token's lifetime at most: an answer that puts an
\* old cookie back into the jar after a logout, or a realm that cannot be
\* reached, revives nothing beyond that (resolve, process_session, logout).
EndedSessionRunsOut ==
  \A t \in Tabs :
    LET c == tab[t].answer.admit
    IN Answered(t, {"Active"}) /\ realm[c.grant].st = "ended" =>
         tab[t].at <= realm[c.grant].until + AccessLife + Leeway

\* The idle timeout: nobody is admitted later than the timeout after the
\* session was last used, and in calm a session ends as idle only when it was
\* unused for nine tenths of it, because the stamp lags by a tenth at most.
IdleWindow ==
  \A t \in Tabs :
    surface = "host" /\ tab[t].session # None /\ tab[t].session = jar.session =>
      /\ Answered(t, {"Active"}) => tab[t].at - used <= IdleTimeout \/ used > tab[t].at
      /\ calm /\ Answered(t, {"Idle"}) =>
           tab[t].at - used > IdleTimeout - IdleTimeout \div 10

\* A code reaches the token endpoint only with the verifier of the sign-in
\* it was issued for: a tab whose sign-in cookie another tab replaced does
\* not spend its code (callback, handle_callback).
CodesAreNotWasted ==
  \A t \in Tabs : tab[t].pc = "token" /\ tab[t].kind = "callback" =>
                    tab[t].signin.login = tab[t].login

\* A sign-in whose tab nobody disturbed finds its sign-in cookie: with the
\* callback route of the state cookie's path, a calm callback is refused only
\* when the sign-in took too long.
CalmSignInCompletes ==
  \A t \in Tabs :
    calm /\ callback_path = StateCookiePath
         /\ Answered(t, {"sign_in", "no_state", "code_refused", "exchange_failed"}) =>
      \/ surface = "host" /\ tab[t].signin # None /\ tab[t].at - tab[t].signin.at > SignInTtl
      \/ tab[t].signin = None \/ tab[t].signin.login # tab[t].login

-----------------------------------------------------------------------------
(* What the settings, the documents and the token alone decide is the same *)
(* in every state; it is looked at in the first ones.                      *)

\* The resource server, the browser layer and the dual-mode layer are three
\* pieces of code that judge the same token: they admit the same ones, and
\* blame missing keys (503) on the same ones (layer_call,
\* validate_access_token_str, validate_bearer_token).
ValidatorsAgree == now = 0 => TokensJudgedAlike

\* A claim path written with escapes names exactly the keys it was written
\* for, dots and backslashes in a key included (ClaimPath::parse).
ClaimPathsAreFaithful == now = 0 => PathsParseBack

\* Discovery, the overrides and the end of a session never lead a client to
\* an address that is neither encrypted nor this machine, except one the
\* deployment itself set (OidcClientBuilder::build, fetch_discovery,
\* end_session_url).
ClientAddressesAreSafe == now = 0 => SafeAddresses

\* The device login respects the interval and every slow_down, and polls at
\* most once after the code expired (do_device_code_login).
DeviceLoginIsPolite == now = 0 => PollsAreSpaced

\* A host that accepted its settings can store the session it was sized for
\* (HostSessions::new against SessionRecord::encode).
HostSessionFits == now = 0 => ExpectedSessionFits

\* Client, resource server, dual-mode layer and host mean the same issuer by
\* the same settings, a sign-in goes on with its own code, and the host's two
\* tests for its own pages agree (normalize_issuer, OidcValidator::new_multi,
\* wait_for_callback, OidcClientBuilder::from_env, cross_site).
PartiesAgree == now = 0 => IssuersAgree /\ SignInIsOwn /\ OwnPages

-----------------------------------------------------------------------------
(* What the run asks, by part.                                             *)

\* Whoever is let in has a token that is theirs, has not idled and is not
\* long ended (HostSessions::resolve, BrowserSessionService::call).
AdmittedIsEntitled == TypeOK /\ AdmittedIsGenuine /\ EndedSessionRunsOut /\ IdleWindow

\* Sign-ins in several tabs do not spend each other's codes, and a calm one
\* completes (login, callback, handle_callback).
SignInsComplete == CodesAreNotWasted /\ CalmSignInCompletes

\* What is decided by settings, documents and tokens alone.
SettingsAreSound ==
  /\ ValidatorsAgree /\ ClaimPathsAreFaithful /\ ClientAddressesAreSafe
  /\ DeviceLoginIsPolite /\ HostSessionFits /\ PartiesAgree
=============================================================================
