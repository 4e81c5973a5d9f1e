----------------------------- MODULE SessionBase ----------------------------
(***************************************************************************)
(* What a signed-in browser consists of, whichever of the two session      *)
(* components of the OIDC crate serves it: the realm (external: codes,     *)
(* grants, rotating refresh tokens), the browser's cookie jar, its tabs,   *)
(* each with at most one request under way, and the clock.                 *)
(*                                                                         *)
(* Both components are stateless: the session is the sealed cookie, so a   *)
(* request works on the cookie as it was when it was sent, and what it     *)
(* sets is merged into the jar when its answer arrives, in whatever order  *)
(* answers arrive. A number stands for a sign-in: its state, nonce and     *)
(* verifier, the code the realm issues for it and the grant that follows.  *)
(***************************************************************************)
EXTENDS Integers, FiniteSets, Sequences

CONSTANTS
  None,          \* no cookie
  Keep, Clear,   \* what an answer does to a cookie when it does not set one
  Tabs,          \* the browser's tabs
  MaxLogins,     \* bound: sign-ins begun
  MaxRequests,   \* bound: requests sent
  MaxTime,       \* bound: the clock
  Jumps,         \* how far the clock may advance at once
  AccessLife,    \* lifetime of an access token
  RefreshLife,   \* lifetime of a refresh token
  ClockSkew,     \* leeway of every expiry check of a token
  RefreshSkew,   \* refresh when the access token expires within this window
  Faults         \* bound: lost calls, lost answers, unavailable keys, key changes

ASSUME SessionConstants ==
  /\ MaxLogins \in Nat \ {0} /\ MaxRequests \in Nat \ {0} /\ MaxTime \in Nat /\ Faults \in Nat
  /\ IsFiniteSet(Tabs)
  /\ AccessLife \in Nat \ {0} /\ RefreshLife \in Nat \ {0}
  /\ ClockSkew \in Nat /\ RefreshSkew \in Nat /\ Jumps \subseteq Nat \ {0}

VARIABLES
  surface,   \* "host" or "browser": the component that serves this browser
  rotates,   \* whether the realm rotates refresh tokens
  deploy,    \* the deployment's session key and binding
  now,       \* the clock
  realm,     \* for each sign-in, what the realm knows of it
  jar,       \* the browser's session cookie and sign-in cookie
  tab,       \* each tab's page and request
  left,      \* requests and faults left: the bounds
  calm,      \* no request overlapped another and nothing failed, so far
  used       \* when the session in the jar was last admitted

base == <<surface, rotates, deploy, now, realm, jar, tab, left, calm, used>>

Logins == 1 .. MaxLogins

\* CookiePayload and SessionRecord: what the session cookie seals. A token
\* is its grant and generation; the access token adds its expiry and whether
\* it was issued to this client. born is when the user signed in, which the
\* cookie does not hold.
Cookie == [deploy: Nat, bind: Nat, grant: Logins, gen: Nat, access_exp: Nat,
           own: BOOLEAN, last: Nat, refresh_exp: Nat, until: Nat, born: Nat]

\* AuthState and SignIn: what the sign-in cookie seals.
SignIn == [deploy: Nat, login: Logins, at: Nat]
ASSUME SessionValues ==
  /\ {None, Keep, Clear} \cap (Cookie \cup SignIn) = {}
  /\ None \notin {Keep, Clear} /\ Keep # Clear

\* An answer: why, the record whose access token the request was admitted
\* with, and what happens to the two cookies.
Answer(why, admit, session, signin) ==
  [why |-> why, admit |-> admit, session |-> session, signin |-> signin]
NoAnswer == Answer("none", None, Keep, Keep)

Idle == [pc |-> "idle", kind |-> "none", at |-> 0, session |-> None, signin |-> None,
         login |-> 0, answer |-> NoAnswer]

\* A browser that is not signed in, or that signed in just now.
SignedIn(g) == [deploy |-> 1, bind |-> 1, grant |-> g, gen |-> 0, own |-> TRUE, access_exp |-> AccessLife,
                last |-> 0, refresh_exp |-> RefreshLife, until |-> MaxTime + 1, born |-> 0]
BaseInit ==
  /\ surface \in {"host", "browser"}
  /\ rotates \in BOOLEAN
  /\ deploy = [key |-> 1, bind |-> 1]
  /\ now = 0
  /\ \E g \in {0, 1} :
       /\ realm = [l \in Logins |-> [st |-> IF l = g THEN "live" ELSE "new", gen |-> 0,
                                     until |-> IF l = g THEN RefreshLife ELSE 0]]
       /\ jar = [session |-> IF g = 0 THEN None ELSE SignedIn(g), signin |-> None]
       /\ left = [requests |-> MaxRequests - g, faults |-> Faults]
  /\ tab = [t \in Tabs |-> Idle]
  /\ calm = TRUE
  /\ used = 0

-----------------------------------------------------------------------------
(* The browser.                                                            *)

\* A tab sends a request of a kind: it carries the cookies of the jar that
\* have not expired. Two requests at once, or one that is not told of the
\* other's answer, end the calm.
Live(c) == IF c = None THEN None ELSE IF now >= c.until THEN None ELSE c
Busy(t) == tab[t].pc \in {"sent", "token", "answer"}
Send(t, kind) ==
  /\ tab[t].pc \in {"idle", "landed"}
  /\ kind = "callback" <=> tab[t].pc = "landed"
  /\ left.requests > 0
  /\ left' = [left EXCEPT !.requests = @ - 1]
  /\ tab' = [tab EXCEPT ![t].pc = "sent", ![t].kind = kind, ![t].at = now,
                        ![t].session = Live(jar.session), ![t].signin = jar.signin]
  /\ calm' = (calm /\ \A u \in Tabs : ~Busy(u))
  /\ UNCHANGED <<surface, rotates, deploy, now, realm, jar, used>>

\* The server has the answer of a tab's request.
Reply(t, a) == tab' = [tab EXCEPT ![t].pc = "answer", ![t].answer = a]

Merge(old, set) == IF set = Keep THEN old ELSE IF set = Clear THEN None ELSE set

\* An answer arrives: its cookies go into the jar, and a redirect to the
\* realm opens the realm's page.
Deliver(t) ==
  LET a == tab[t].answer
  IN /\ tab[t].pc = "answer"
     /\ jar' = [session |-> Merge(jar.session, a.session), signin |-> Merge(jar.signin, a.signin)]
     /\ used' = IF a.admit = None THEN used
                ELSE IF a.why = "signed_in" THEN a.session.born
                ELSE IF a.session # Keep THEN tab[t].at
                ELSE IF tab[t].session = jar.session THEN tab[t].at ELSE used
     /\ tab' = [tab EXCEPT ![t] = IF a.why = "login"
                                  THEN [Idle EXCEPT !.pc = "realm", !.login = a.signin.login]
                                  ELSE Idle]
     /\ UNCHANGED <<surface, rotates, deploy, now, realm, left, calm>>

\* The answer is lost: the tab was closed, or the connection.
Fault == left.faults > 0 /\ left' = [left EXCEPT !.faults = @ - 1] /\ calm' = FALSE
LoseAnswer(t) ==
  /\ tab[t].pc = "answer" /\ Fault
  /\ tab' = [tab EXCEPT ![t] = Idle]
  /\ UNCHANGED <<surface, rotates, deploy, now, realm, jar, used>>

-----------------------------------------------------------------------------
(* The realm (external).                                                   *)

\* The user signs in: the realm issues a code for this sign-in and sends the
\* browser back with it; or the user gives up there.
RealmSignsIn(t) ==
  /\ tab[t].pc = "realm" /\ realm[tab[t].login].st = "begun"
  /\ realm' = [realm EXCEPT ![tab[t].login].st = "code"]
  /\ tab' = [tab EXCEPT ![t].pc = "landed"]
  /\ UNCHANGED <<surface, rotates, deploy, now, jar, left, calm, used>>
LeaveRealm(t) ==
  /\ tab[t].pc = "realm"
  /\ tab' = [tab EXCEPT ![t] = Idle]
  /\ UNCHANGED <<surface, rotates, deploy, now, realm, jar, left, calm, used>>

\* An administrator, or the user elsewhere, ends the session at the realm.
RealmEnded(g) == [realm EXCEPT ![g].st = "ended", ![g].until = now]
RealmEnds(g) ==
  /\ realm[g].st = "live" /\ Fault
  /\ realm' = RealmEnded(g)
  /\ UNCHANGED <<surface, rotates, deploy, now, jar, tab, used>>

\* A sign-in that nobody has begun, 0 when the bound is reached.
Fresh == IF \E n \in Logins : realm[n].st = "new"
         THEN CHOOSE n \in Logins : realm[n].st = "new" ELSE 0
Begun(n) == realm' = [realm EXCEPT ![n].st = "begun"]

\* What may be wrong with the tokens the realm grants: another client's, keys
\* to verify them out of reach, too large for a cookie, no lifetime told.
Issues == {"good", "foreign", "unverified", "oversize", "untold"}

\* The token endpoint accepts an unused code with its own verifier, and a
\* refresh token that is current, or any unexpired one without rotation.
CodeGood(code, verifier) == code = verifier /\ realm[code].st = "code"
RefreshGood(c) ==
  LET r == realm[c.grant]
  IN r.st = "live" /\ now < r.until /\ (rotates => c.gen = r.gen)
Granted(g, gen) ==
  [realm EXCEPT ![g] = [st |-> "live", gen |-> gen, until |-> now + RefreshLife]]
NextGen(c) == IF rotates THEN c.gen + 1 ELSE c.gen

-----------------------------------------------------------------------------
(* Time and the deployment.                                                *)

Tick(d) ==
  /\ now + d <= MaxTime
  /\ now' = now + d
  /\ UNCHANGED <<surface, rotates, deploy, realm, jar, tab, left, calm, used>>

\* The service is deployed again with another session key, or another
\* binding.
Redeploy(part) ==
  /\ Fault
  /\ deploy' = [deploy EXCEPT ![part] = @ + 1]
  /\ UNCHANGED <<surface, rotates, now, realm, jar, tab, used>>
=============================================================================
