----------------------------- MODULE HostSession ----------------------------
(***************************************************************************)
(* cli-framework-oidc/src/host_session: sign-in, resolve, the session      *)
(* route and logout of a host that keeps a person's tokens in one sealed   *)
(* cookie. A call to the realm separates the two halves of a handler; now  *)
(* is read in the first half and used in the second.                       *)
(***************************************************************************)
EXTENDS SessionBase

CONSTANTS
  IdleTimeout,   \* idle_timeout
  SignInTtl      \* sign_in_ttl

ASSUME HostConstants == IdleTimeout \in Nat \ {0} /\ SignInTtl \in Nat

\* Sealer::open and the purposes' keys: a cookie opens under the key it was
\* sealed with. The binding is compared afterwards.
opens(c) == c # None /\ c.deploy = deploy.key

\* EndReason and Resolution::Ended: only a session that was there and is over
\* is cleared; one that could not be refreshed just now is kept.
Ended(reason) ==
  Answer(reason, None, IF reason \in {"NoSession", "Unavailable"} THEN Keep ELSE Clear, Keep)

\* The checks of Inner::resolve before the realm is asked. "Refresh" when
\* the access token expires within the window.
Verdict(c, at) ==
  CASE c = None -> "NoSession"
    [] c # None /\ ~opens(c) -> "Invalid"
    [] opens(c) /\ c.bind # deploy.bind -> "BindingMismatch"
    [] opens(c) /\ c.bind = deploy.bind ->
         CASE at - c.last > IdleTimeout -> "Idle"
           [] at - c.last <= IdleTimeout /\ at >= c.refresh_exp -> "Expired"
           [] at - c.last <= IdleTimeout /\ at < c.refresh_exp ->
                IF at + RefreshSkew >= c.access_exp THEN "Refresh" ELSE "Active"

\* session_cookie and Resolution::Active: the cookie is rewritten after a
\* refresh, and when a tenth of the idle window has passed since the stamp.
Active(c, at, rewrite) ==
  Answer("Active", c, IF rewrite THEN [c EXCEPT !.last = at] ELSE Keep, Keep)
Stale(c, at) == at - c.last > IdleTimeout \div 10

\* Inner::resolve and the session route, first half.
resolve(t) ==
  LET c == tab[t].session
      v == Verdict(c, tab[t].at)
  IN /\ tab[t].pc = "sent" /\ tab[t].kind = "resolve"
     /\ IF v = "Refresh" THEN tab' = [tab EXCEPT ![t].pc = "token"]
        ELSE Reply(t, IF v = "Active" THEN Active(c, tab[t].at, Stale(c, tab[t].at)) ELSE Ended(v))
     /\ UNCHANGED <<surface, rotates, deploy, now, realm, jar, left, calm, used>>

\* refresh_exp: the lifetime the realm tells counts from the request's now;
\* without one the previous expiry stays.
refresh_exp(issue, at, previous) == IF issue = "untold" THEN previous ELSE at + RefreshLife

\* verified_access: the keys, and the client the token was issued to.
verified_access(issue) == issue \notin {"foreign", "unverified"}

\* Mutant: the refresh token that was spent is kept.
RefreshedKeepsToken(c, at, issue) ==
  [c EXCEPT !.access_exp = now + AccessLife, !.refresh_exp = at + RefreshLife, !.last = at]

\* The refreshed record: generation, expiries and the new access token.
Refreshed(c, at, issue) ==
  [c EXCEPT !.gen = NextGen(c), !.access_exp = now + AccessLife, !.own = issue # "foreign",
            !.refresh_exp = refresh_exp(issue, at, c.refresh_exp), !.last = at]

\* The realm answers the refresh: verified_access looks at the new token, and
\* the new cookie has to fit. Whatever goes wrong, the old token is spent.
RefreshGranted(t, issue) ==
  LET c == tab[t].session
      at == tab[t].at
  IN /\ tab[t].pc = "token" /\ tab[t].kind = "resolve" /\ RefreshGood(c)
     /\ realm' = Granted(c.grant, NextGen(c))
     /\ IF issue = "good" THEN UNCHANGED <<left, calm>> ELSE Fault
     /\ Reply(t, IF ~verified_access(issue) THEN Ended("RefreshRefused")
                 ELSE IF issue = "oversize" THEN Ended("Invalid")
                 ELSE Active(Refreshed(c, at, issue), at, TRUE))
     /\ UNCHANGED <<surface, rotates, deploy, now, jar, used>>

RefreshRefused(t) ==
  /\ tab[t].pc = "token" /\ tab[t].kind = "resolve" /\ ~RefreshGood(tab[t].session)
  /\ Reply(t, Ended("RefreshRefused"))
  /\ UNCHANGED <<surface, rotates, deploy, now, realm, jar, left, calm, used>>

\* Mutant: without an answer the session is taken to go on.
UnavailableAdmits(t, rotated) ==
  /\ tab[t].pc = "token" /\ tab[t].kind = "resolve" /\ Fault /\ UNCHANGED realm
  /\ Reply(t, Active(tab[t].session, tab[t].at, FALSE))
  /\ UNCHANGED <<surface, rotates, deploy, now, jar, used>>

\* The realm cannot be reached, or its answer is lost after it rotated the
\* token: the old access token serves until it expires.
RefreshUnavailable(t, rotated) ==
  LET c == tab[t].session
      at == tab[t].at
  IN /\ tab[t].pc = "token" /\ tab[t].kind = "resolve" /\ Fault
     /\ rotated => RefreshGood(c)
     /\ realm' = IF rotated THEN Granted(c.grant, NextGen(c)) ELSE realm
     /\ Reply(t, IF at >= c.access_exp THEN Ended("Unavailable") ELSE Active(c, at, Stale(c, at)))
     /\ UNCHANGED <<surface, rotates, deploy, now, jar, used>>

-----------------------------------------------------------------------------
\* login: a fresh state, nonce and verifier, sealed in the sign-in cookie.
Redirect(n) ==
  IF n = 0 THEN Answer("not_followed", None, Keep, Keep)
  ELSE Answer("login", None, Keep, [deploy |-> deploy.key, login |-> n, at |-> now])
login(t) ==
  LET n == Fresh
  IN /\ tab[t].pc = "sent" /\ tab[t].kind = "login"
     /\ IF n = 0 THEN UNCHANGED realm ELSE Begun(n)
     /\ Reply(t, Redirect(n))
     /\ UNCHANGED <<surface, rotates, deploy, now, jar, left, calm, used>>

\* callback, before the code is exchanged: the sign-in cookie opens, is not
\* too old and is the one this redirect belongs to.
fail(why) == Answer(why, None, Keep, Clear)
\* Mutant: the state of the redirect is not compared.
SignInOkAnyState(s, at, n) == opens(s) /\ at - s.at <= SignInTtl

SignInOk(s, at, n) == opens(s) /\ at - s.at <= SignInTtl /\ s.login = n
callback(t) ==
  /\ tab[t].pc = "sent" /\ tab[t].kind = "callback"
  /\ IF SignInOk(tab[t].signin, tab[t].at, tab[t].login) THEN tab' = [tab EXCEPT ![t].pc = "token"]
     ELSE Reply(t, fail("sign_in"))
  /\ UNCHANGED <<surface, rotates, deploy, now, realm, jar, left, calm, used>>

\* new_record: the session a code begins.
new_record(g, until) ==
  [deploy |-> deploy.key, bind |-> deploy.bind, grant |-> g, gen |-> 0, own |-> TRUE,
   access_exp |-> now + AccessLife, last |-> now, refresh_exp |-> now + RefreshLife,
   until |-> until, born |-> now]

\* The realm answers the exchange: the id token and its nonce, the access
\* token and its subject are verified, a refresh token's lifetime has to be
\* told, and the cookie has to fit.
Forever == MaxTime + 1
CodeGranted(t, issue) ==
  LET n == tab[t].login
  IN /\ tab[t].pc = "token" /\ tab[t].kind = "callback"
     /\ CodeGood(n, tab[t].signin.login)
     /\ realm' = Granted(n, 0)
     /\ IF issue = "good" THEN UNCHANGED <<left, calm>> ELSE Fault
     /\ Reply(t, IF issue = "good" THEN Answer("signed_in", new_record(n, Forever), new_record(n, Forever), Clear)
                 ELSE fail("tokens"))
     /\ UNCHANGED <<surface, rotates, deploy, now, jar, used>>

CodeRefused(t) ==
  /\ tab[t].pc = "token" /\ tab[t].kind = "callback"
  /\ ~CodeGood(tab[t].login, tab[t].signin.login)
  /\ Reply(t, fail("code_refused"))
  /\ UNCHANGED <<surface, rotates, deploy, now, realm, jar, left, calm, used>>

CodeUnavailable(t) ==
  /\ tab[t].pc = "token" /\ tab[t].kind = "callback" /\ Fault
  /\ Reply(t, fail("unavailable"))
  /\ UNCHANGED <<surface, rotates, deploy, now, realm, jar, used>>

\* logout: the realm is told with the refresh token of a cookie that opens
\* and is bound to this deployment; the cookie is cleared whatever it says.
logout(t, crossSite) ==
  LET c == tab[t].session
      known == opens(c) /\ c.bind = deploy.bind
  IN /\ tab[t].pc = "sent" /\ tab[t].kind = "logout"
     /\ IF crossSite THEN Reply(t, Answer("cross_site", None, Keep, Keep))
        ELSE IF known THEN tab' = [tab EXCEPT ![t].pc = "token"]
        ELSE Reply(t, Answer("signed_out", None, Clear, Keep))
     /\ UNCHANGED <<surface, rotates, deploy, now, realm, jar, left, calm, used>>
RealmLogout(t, told) ==
  LET c == tab[t].session
  IN /\ tab[t].pc = "token" /\ tab[t].kind = "logout"
     /\ IF told THEN UNCHANGED <<left, calm>> ELSE Fault
     /\ IF told /\ RefreshGood(c) THEN realm' = RealmEnded(c.grant)
        ELSE UNCHANGED realm
     /\ Reply(t, Answer("signed_out", None, Clear, Keep))
     /\ UNCHANGED <<surface, rotates, deploy, now, jar, used>>

HostKinds == {"login", "callback", "resolve", "logout"}
HostNext ==
  \E t \in Tabs :
    \/ \E k \in HostKinds : Send(t, k)
    \/ resolve(t) \/ RefreshRefused(t) \/ login(t) \/ callback(t)
    \/ \E i \in Issues : RefreshGranted(t, i) \/ CodeGranted(t, i)
    \/ \E b \in BOOLEAN : RefreshUnavailable(t, b) \/ logout(t, b) \/ RealmLogout(t, b)
    \/ CodeRefused(t) \/ CodeUnavailable(t)
=============================================================================
