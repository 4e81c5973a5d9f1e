--------------------------- MODULE BrowserSession ---------------------------
(***************************************************************************)
(* cli-framework-oidc/src/browser: the session layer of an SPA's pages,    *)
(* its callback and logout routes, and the dual-mode layer of its API. The *)
(* access token in the cookie is validated on every request; one that does *)
(* not validate, for whatever reason, is refreshed.                        *)
(***************************************************************************)
EXTENDS SessionBase

CONSTANTS
  SessionTtl,     \* session_ttl: the cookie's Max-Age is at most this
  CallbackPaths   \* callback_path: the routes a deployment may choose

ASSUME BrowserConstants == SessionTtl \in Nat /\ CallbackPaths # {}

VARIABLE callback_path
browser == <<callback_path>>

\* decrypt_cookie: version, base64 and both layers of encryption.
decrypt_cookie(c) == c # None /\ c.deploy = deploy.key

\* build_session_cookie_header and encrypt_cookie: a cookie that expires with
\* its refresh token, and after session_ttl at the latest.
Capped(a, b) == IF a < b THEN a ELSE b
build_session_cookie_header(c, at) ==
  [c EXCEPT !.until = at + Capped(c.refresh_exp - at, SessionTtl)]

\* validate_access_token: the library's leeway is clock_skew; keys may be
\* out of reach and the token may be meant for another audience.
validate_access_token(c, keys) == keys /\ c.own /\ now <= c.access_exp + ClockSkew

\* redirect_to_login: a page begins a sign-in, an API request is told 401.
\* The state cookie's Path is /callback, whatever the callback route is.
StateCookiePath == "/callback"
redirect_to_login(t, n) ==
  IF tab[t].kind = "fetch" THEN Answer("unauthorized", None, Keep, Keep)
  ELSE IF n = 0 THEN Answer("not_followed", None, Keep, Keep)
  ELSE Answer("login", None, Keep, [deploy |-> deploy.key, login |-> n, at |-> now])
ToLogin(t, r) ==
  /\ realm' = IF tab[t].kind = "page" /\ Fresh # 0 THEN [r EXCEPT ![Fresh].st = "begun"] ELSE r
  /\ Reply(t, redirect_to_login(t, Fresh))

Pages == {"page", "fetch"}
Expired(c, at) == at > c.refresh_exp + ClockSkew
SessionExpired(t, r) ==
  IF tab[t].kind = "fetch"
  THEN Reply(t, Answer("session_expired", None, Keep, Keep)) /\ realm' = r
  ELSE ToLogin(t, r)

\* process_session, up to the refresh. keys tells whether validation found
\* its keys.
process_session(t, keys) ==
  LET c == tab[t].session
      at == tab[t].at
      valid == validate_access_token(c, keys)
  IN /\ tab[t].pc = "sent" /\ tab[t].kind \in Pages
     /\ IF keys THEN UNCHANGED <<left, calm>> ELSE Fault
     /\ IF ~decrypt_cookie(c) THEN ToLogin(t, realm)
        ELSE IF Expired(c, at) THEN SessionExpired(t, realm)
        ELSE /\ UNCHANGED realm
             /\ IF valid /\ at + RefreshSkew <= c.access_exp
                THEN Reply(t, Answer("Active", c, Keep, Keep))
                ELSE tab' = [tab EXCEPT ![t].pc = "token", ![t].login = IF valid THEN 1 ELSE 0]
     /\ UNCHANGED <<surface, rotates, deploy, now, jar, used, callback_path>>
Proactive(t) == tab[t].login = 1

\* refresh_tokens: a refresh token the realm does not send stays, a lifetime
\* it does not tell is taken to be half an hour.
Renewed(c, at, issue) ==
  [c EXCEPT !.gen = NextGen(c), !.access_exp = now + AccessLife, !.own = issue # "foreign",
            !.refresh_exp = at + RefreshLife]

\* The realm grants the refresh. Ahead of expiry the request goes on with the
\* new cookie whatever the new token is like; after it the new token has to
\* validate, and when it does not the new cookie is dropped with it.
TokensRefreshed(t, issue) ==
  LET c == tab[t].session
      new == build_session_cookie_header(Renewed(c, tab[t].at, issue), tab[t].at)
  IN /\ tab[t].pc = "token" /\ tab[t].kind \in Pages /\ RefreshGood(c)
     /\ issue # "oversize"
     /\ IF issue = "good" THEN UNCHANGED <<left, calm>> ELSE Fault
     /\ IF Proactive(t) \/ issue \notin {"foreign", "unverified"}
        THEN /\ realm' = Granted(c.grant, NextGen(c))
             /\ Reply(t, Answer("Active", IF issue \in {"foreign", "unverified"} THEN c ELSE new,
                                new, Keep))
        ELSE ToLogin(t, Granted(c.grant, NextGen(c)))
     /\ UNCHANGED <<surface, rotates, deploy, now, jar, used, callback_path>>

\* The realm refuses, cannot be reached, or its answer is lost: ahead of
\* expiry the request goes on with the old token, after it the session is
\* over for this request.
RefreshFailed(t, how) ==
  LET c == tab[t].session
  IN /\ tab[t].pc = "token" /\ tab[t].kind \in Pages
     /\ how # "unreachable" => (how = "lost" <=> RefreshGood(c))
     /\ IF how = "refused" THEN UNCHANGED <<left, calm>> ELSE Fault
     /\ LET after == IF how = "lost" THEN Granted(c.grant, NextGen(c)) ELSE realm
        IN IF Proactive(t)
           THEN Reply(t, Answer("Active", c, Keep, Keep)) /\ realm' = after
           ELSE SessionExpired(t, after)
     /\ UNCHANGED <<surface, rotates, deploy, now, jar, used, callback_path>>

\* handle_callback: the state cookie is sent only below its Path. Errors
\* before it is decoded leave it in place, a mismatch clears it.
StateCookie(t) == IF callback_path = StateCookiePath THEN tab[t].signin ELSE None
handle_callback(t) ==
  LET s == StateCookie(t)
  IN /\ tab[t].pc = "sent" /\ tab[t].kind = "callback"
     /\ IF s = None THEN Reply(t, Answer("no_state", None, Keep, Keep))
        ELSE IF s.deploy # deploy.key \/ s.login # tab[t].login
        THEN Reply(t, Answer("sign_in", None, Keep, Clear))
        ELSE tab' = [tab EXCEPT ![t].pc = "token"]
     /\ UNCHANGED <<surface, rotates, deploy, now, realm, jar, left, calm, used, callback_path>>

\* exchange_code: tokens of any kind become a session, they are looked at by
\* the next request. A failure leaves the state cookie.
exchange_code(t, issue) ==
  LET n == tab[t].login
      c == [deploy |-> deploy.key, bind |-> deploy.bind, grant |-> n, gen |-> 0,
            own |-> issue # "foreign", access_exp |-> now + AccessLife, last |-> now,
            refresh_exp |-> now + RefreshLife, until |-> 0, born |-> now]
  IN /\ tab[t].pc = "token" /\ tab[t].kind = "callback"
     /\ issue \in {"good", "foreign"}
     /\ CodeGood(n, tab[t].signin.login)
     /\ IF issue = "good" THEN UNCHANGED <<left, calm>> ELSE Fault
     /\ realm' = Granted(n, 0)
     /\ Reply(t, Answer("signed_in", c, build_session_cookie_header(c, now), Clear))
     /\ UNCHANGED <<surface, rotates, deploy, now, jar, used, callback_path>>
ExchangeFailed(t, reached) ==
  /\ tab[t].pc = "token" /\ tab[t].kind = "callback"
  /\ IF reached THEN ~CodeGood(tab[t].login, tab[t].signin.login) /\ UNCHANGED <<left, calm>>
     ELSE Fault
  /\ Reply(t, Answer("exchange_failed", None, Keep, Keep))
  /\ UNCHANGED <<surface, rotates, deploy, now, realm, jar, used, callback_path>>

\* handle_logout: the cookie is cleared and the browser sent to the realm's
\* end of session, where the user may or may not confirm.
handle_logout(t, confirmed) ==
  LET c == tab[t].session
  IN /\ tab[t].pc = "sent" /\ tab[t].kind = "logout"
     /\ IF confirmed
        THEN /\ c # None
             /\ realm[c.grant].st = "live"
             /\ realm' = RealmEnded(c.grant)
        ELSE UNCHANGED realm
     /\ Reply(t, Answer("signed_out", None, Clear, Keep))
     /\ UNCHANGED <<surface, rotates, deploy, now, jar, left, calm, used, callback_path>>

\* DualModeService::call without a bearer token, and
\* validate_jwt_from_cookie: the cookie's token is validated, never
\* refreshed.
dual_call(t, keys) ==
  LET c == tab[t].session
  IN /\ tab[t].pc = "sent" /\ tab[t].kind = "api"
     /\ IF keys THEN UNCHANGED <<left, calm>> ELSE Fault
     /\ Reply(t, IF decrypt_cookie(c) /\ c # None
                    THEN IF ~Expired(c, tab[t].at) /\ validate_access_token(c, keys)
                         THEN Answer("Active", c, Keep, Keep)
                         ELSE Answer("unauthorized", None, Keep, Keep)
                    ELSE Answer("unauthorized", None, Keep, Keep))
     /\ UNCHANGED <<surface, rotates, deploy, now, realm, jar, used, callback_path>>

BrowserKinds == Pages \cup {"callback", "logout", "api"}
BrowserNext ==
  \E t \in Tabs :
    \/ \E k \in BrowserKinds : Send(t, k) /\ UNCHANGED callback_path
    \/ \E keys \in BOOLEAN :
         process_session(t, keys) \/ dual_call(t, keys) \/ handle_logout(t, keys) \/ ExchangeFailed(t, keys)
    \/ \E i \in Issues : TokensRefreshed(t, i) \/ exchange_code(t, i)
    \/ \E how \in {"refused", "unreachable", "lost"} : RefreshFailed(t, how)
    \/ handle_callback(t)
=============================================================================
