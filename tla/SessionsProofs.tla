-------------------------- MODULE SessionsProofs --------------------------
(***************************************************************************)
(* Who is admitted, for how long, and whose sign-in completes, for every   *)
(* value of the constants: any number of tabs, sign-ins, requests and      *)
(* faults, with either component serving the browser.                      *)
(***************************************************************************)
EXTENDS Sessions, FiniteSetTheorems, SequenceTheorems, WellFoundedInduction, TLAPS

-----------------------------------------------------------------------------
(* Types.                                                                  *)

RealmRecord == [st : {"new", "begun", "code", "live", "ended"}, gen : Nat, until : Nat]
Whys ==
  {"none", "Active", "NoSession", "Invalid", "BindingMismatch", "Idle", "Expired", "RefreshRefused",
   "Unavailable", "login", "not_followed", "sign_in", "no_state", "tokens", "code_refused",
   "unavailable", "exchange_failed", "signed_in", "cross_site", "signed_out", "unauthorized",
   "session_expired"}
Answers ==
  [why : Whys, admit : {None} \cup Cookie, session : {Keep, Clear} \cup Cookie,
   signin : {Keep, Clear} \cup SignIn]
TabRecord ==
  [pc : {"idle", "sent", "token", "answer", "realm", "landed"},
   kind : {"none"} \cup HostKinds \cup BrowserKinds, at : 0 .. MaxTime,
   session : {None} \cup Cookie, signin : {None} \cup SignIn, login : 0 .. MaxLogins,
   answer : Answers]

TypedInv ==
  /\ surface \in {"host", "browser"} /\ rotates \in BOOLEAN /\ calm \in BOOLEAN
  /\ deploy \in [key : Nat, bind : Nat]
  /\ now \in 0 .. MaxTime /\ used \in 0 .. MaxTime
  /\ realm \in [Logins -> RealmRecord]
  /\ jar \in [session : {None} \cup Cookie, signin : {None} \cup SignIn]
  /\ tab \in [Tabs -> TabRecord]
  /\ left \in [requests : 0 .. MaxRequests, faults : 0 .. Faults]

-----------------------------------------------------------------------------
(* Cookies.                                                                *)

\* The requests that have their answer bound the generations of the tokens.
Pending == {t \in Tabs : tab[t].pc \in {"sent", "token"}}
Spent == MaxRequests - left.requests - Cardinality(Pending)

\* A session cookie, wherever it is: its tokens were granted before now, and
\* before the session ended at the realm; in calm the deployment that sealed it
\* is still the one that opens it.
CookieInv(c) ==
  /\ c.gen <= Spent /\ c.born <= now /\ c.last <= now
  /\ c.access_exp <= now + AccessLife
  /\ realm[c.grant].st \in {"live", "ended"}
  /\ realm[c.grant].st = "ended" => c.access_exp <= realm[c.grant].until + AccessLife
  /\ calm => c.deploy = deploy.key /\ c.bind = deploy.bind
  /\ surface = "host" => c.own

\* A sign-in cookie in calm.
SignInInv(s) == calm => s.deploy = deploy.key

\* The session in the jar was used after its stamp; the host's stamp lags by
\* a tenth of the idle timeout at most, in calm.
JarInv ==
  /\ jar.session # None =>
       /\ CookieInv(jar.session) /\ jar.session.last <= used
       /\ surface = "host" /\ calm => used - jar.session.last <= IdleTimeout \div 10
  /\ jar.signin # None => SignInInv(jar.signin)

-----------------------------------------------------------------------------
(* Requests and answers.                                                   *)

\* What a request carries, and what its handler has found out before it
\* called the realm.
RequestInv(r) ==
  /\ r.at <= now /\ (r.pc = "sent" => r.at = now)
  /\ r.session # None => CookieInv(r.session) /\ r.session.last <= r.at
  /\ r.signin # None => SignInInv(r.signin)
  /\ r.pc = "token" /\ r.kind = "callback" => r.signin # None /\ r.signin.login = r.login
  /\ r.pc = "token" /\ r.kind = "resolve" =>
       /\ r.session # None /\ r.at < r.session.refresh_exp
       /\ r.at - r.session.last <= IdleTimeout
  /\ r.pc = "token" /\ r.kind = "logout" => r.session # None
  /\ r.pc = "token" /\ r.kind \in Pages =>
       /\ r.session # None /\ r.at <= r.session.refresh_exp + ClockSkew
       /\ r.login = 1 => r.session.own /\ r.at <= r.session.access_exp + ClockSkew

\* An answer that admits the request.
AdmitInv(r, a) ==
  /\ r.session # None /\ a.admit # None /\ a.session # Clear
  /\ a.admit.own
  /\ r.at <= a.admit.access_exp + Leeway /\ r.at <= r.session.refresh_exp + Leeway
  /\ a.session # Keep => a.session.last <= r.at
  /\ surface = "host" =>
       /\ r.at - r.session.last <= IdleTimeout
       /\ a.session # Keep => a.session.last = r.at
       /\ calm /\ a.session = Keep => r.at - r.session.last <= IdleTimeout \div 10

\* A calm answer does not refuse what was in order.
CalmInv(r, a) ==
  /\ callback_path = StateCookiePath /\ a.why \in {"sign_in", "no_state", "code_refused", "exchange_failed"} =>
       \/ surface = "host" /\ r.signin # None /\ r.at - r.signin.at > SignInTtl
       \/ r.signin = None \/ r.signin.login # r.login
  /\ a.why \in {"RefreshRefused", "Invalid", "BindingMismatch", "session_expired"} =>
       r.session = None \/ now >= r.session.refresh_exp

AnswerInv(r, a) ==
  /\ a.admit # None => CookieInv(a.admit) /\ a.why \in {"Active", "signed_in"}
  /\ a.session \in Cookie => CookieInv(a.session) /\ a.admit # None
  /\ a.signin \in SignIn => SignInInv(a.signin)
  /\ a.why = "login" => a.signin \in SignIn
  /\ a.why = "Active" => AdmitInv(r, a)
  /\ a.why = "signed_in" => a.session \in Cookie /\ a.session.last = a.session.born
  /\ a.why = "Idle" => r.session # None /\ r.at - r.session.last > IdleTimeout
  /\ calm => CalmInv(r, a)

TabInv(r) ==
  /\ RequestInv(r)
  /\ r.pc = "answer" => AnswerInv(r, r.answer)
  /\ r.pc # "answer" => r.answer = NoAnswer

-----------------------------------------------------------------------------
(* Sign-ins and the calm.                                                  *)

\* A tab at the realm, or back with a code that is not spent.
InSignIn(r) ==
  \/ r.pc \in {"realm", "landed"}
  \/ r.kind = "callback" /\ r.pc \in {"sent", "token"}

\* The sign-in that a tab is in, 0 for none.
Claim(r) ==
  IF r.pc = "answer" THEN (IF r.answer.why = "login" THEN r.answer.signin.login ELSE 0)
  ELSE IF InSignIn(r) THEN r.login ELSE 0

\* No two tabs are in one sign-in, and its code is there until it is spent.
ClaimsInv ==
  \A t \in Tabs :
    LET n == Claim(tab[t])
    IN n # 0 =>
         /\ realm[n].st = IF tab[t].pc \in {"answer", "realm"} THEN "begun" ELSE "code"
         /\ \A u \in Tabs : Claim(tab[u]) = n => u = t
SigningIn == \A t \in Tabs : InSignIn(tab[t]) => tab[t].login # 0

\* A session that the realm will refresh until it expires.
Good(c) ==
  c # None =>
    /\ realm[c.grant].st = "live"
    /\ rotates => c.gen = realm[c.grant].gen
    /\ c.refresh_exp <= realm[c.grant].until

\* In calm there is one request at a time, and the session in the jar is good,
\* or will be when the answer is there.
Calm ==
  calm =>
    /\ \A t, u \in Tabs : Busy(t) /\ Busy(u) => t = u
    /\ (\A t \in Tabs : tab[t].pc # "answer") => Good(jar.session)
    /\ \A t \in Tabs :
         /\ tab[t].pc \in {"sent", "token"} => tab[t].session \in {None, jar.session}
         /\ tab[t].pc = "answer" => Good(Merge(jar.session, tab[t].answer.session))

SessionsInv ==
  /\ TypedInv
  /\ \A g \in Logins : realm[g].gen <= Spent
  /\ JarInv
  /\ \A t \in Tabs : TabInv(tab[t])
  /\ ClaimsInv /\ SigningIn
  /\ Calm

-----------------------------------------------------------------------------
(* Values and counts.                                                      *)

LEMMA Values ==
  /\ \A c \in Cookie \cup SignIn : c \notin {None, Keep, Clear}
  /\ None # Keep /\ None # Clear /\ Keep # Clear
BY SessionValues

LEMMA LoginNumbers == Logins \subseteq Nat \ {0} /\ Logins \subseteq 0 .. MaxLogins
BY SessionConstants DEF Logins

LEMMA CookieFields ==
    ASSUME NEW c \in Cookie
    PROVE  /\ c.deploy \in Nat /\ c.bind \in Nat /\ c.grant \in Logins /\ c.gen \in Nat
           /\ c.access_exp \in Nat /\ c.own \in BOOLEAN /\ c.last \in Nat /\ c.refresh_exp \in Nat
           /\ c.until \in Nat /\ c.born \in Nat
BY DEF Cookie

LEMMA PendingIsFinite == IsFiniteSet(Pending) /\ Cardinality(Pending) \in Nat
BY SessionConstants, FS_Subset, FS_CardinalityType DEF Pending

LEMMA LeftIsBounded ==
    ASSUME TypedInv
    PROVE  /\ left.requests \in 0 .. MaxRequests /\ left.faults \in 0 .. Faults
           /\ MaxRequests \in Nat /\ Spent \in Int /\ Spent <= MaxRequests
<1>1. left.requests \in 0 .. MaxRequests /\ left.faults \in 0 .. Faults
  BY DEF TypedInv
<1> QED BY <1>1, PendingIsFinite, SessionConstants DEF Spent

\* A request is sent, goes on, or is answered.
OneLess == left'.requests = left.requests - 1
Handled(r) == r.pc \in {"sent", "token"}
LEMMA SpentSend ==
    ASSUME TypedInv, NEW t \in Tabs, ~Handled(tab[t]), NEW k, Handled(k), tab' = [tab EXCEPT ![t] = k], OneLess
    PROVE  Spent' = Spent
<1>1. DOMAIN tab = Tabs
  BY DEF TypedInv
<1>2. Pending' = Pending \cup {t} /\ t \notin Pending
  BY <1>1 DEF Pending, Handled
<1>3. Cardinality(Pending') = Cardinality(Pending) + 1
  BY <1>2, PendingIsFinite, FS_AddElement
<1>4. left.requests \in Int /\ MaxRequests \in Int
  BY LeftIsBounded
<1> QED BY <1>3, <1>4, PendingIsFinite DEF Spent, OneLess

LEMMA SpentReply ==
    ASSUME TypedInv, NEW t \in Tabs, tab[t].pc \in {"sent", "token"},
           NEW k, k.pc \notin {"sent", "token"}, tab' = [tab EXCEPT ![t] = k],
           left'.requests = left.requests
    PROVE  Spent' = Spent + 1
<1>1. DOMAIN tab = Tabs
  BY DEF TypedInv
<1>2. Pending' = Pending \ {t} /\ t \in Pending
  BY <1>1 DEF Pending
<1>3. Cardinality(Pending') = Cardinality(Pending) - 1
  BY <1>2, PendingIsFinite, FS_RemoveElement
<1>4. left.requests \in Int /\ MaxRequests \in Int
  BY LeftIsBounded
<1> QED BY <1>3, <1>4, PendingIsFinite DEF Spent

LEMMA SpentKept ==
    ASSUME TypedInv, NEW t \in Tabs,
           NEW k, k.pc \in {"sent", "token"} <=> tab[t].pc \in {"sent", "token"},
           tab' = [tab EXCEPT ![t] = k], left'.requests = left.requests
    PROVE  Spent' = Spent
<1>1. DOMAIN tab = Tabs
  BY DEF TypedInv
<1>2. Pending' = Pending
  BY <1>1 DEF Pending
<1> QED BY <1>2 DEF Spent

LEMMA SpentUnchanged ==
    ASSUME tab' = tab, left'.requests = left.requests
    PROVE  Spent' = Spent
BY DEF Spent, Pending

-----------------------------------------------------------------------------
(* What time, other requests and the realm leave as it was.                *)

\* Of the realm's sessions: a granted one is never forgotten, and an ended one
\* keeps the time it was ended at.
Advance ==
  /\ surface' = surface /\ callback_path' = callback_path
  /\ now' >= now
  /\ calm' => calm /\ deploy' = deploy
  /\ Spent' \in Int /\ Spent' >= Spent
  /\ \A g \in Logins : realm[g].st \in {"live", "ended"} =>
       /\ realm'[g].st \in {"live", "ended"}
       /\ realm'[g].st = "ended" =>
            \/ realm'[g].until >= now
            \/ realm[g].st = "ended" /\ realm'[g].until = realm[g].until

LEMMA CookieKept ==
    ASSUME TypedInv, TypedInv', Advance, NEW c \in Cookie, CookieInv(c)
    PROVE  CookieInv(c)'
<1>1. now \in Int /\ now' \in Int /\ c.gen \in Int /\ c.born \in Int /\ c.last \in Int /\ c.access_exp \in Int
      /\ c.grant \in Logins /\ AccessLife \in Int
  BY CookieFields, SessionConstants DEF TypedInv
<1>2. Spent \in Int /\ Spent' \in Int
  BY LeftIsBounded DEF Advance
<1>3. /\ c.gen <= Spent /\ c.born <= now /\ c.last <= now /\ c.access_exp <= now + AccessLife
      /\ realm[c.grant].st \in {"live", "ended"}
      /\ realm[c.grant].st = "ended" => c.access_exp <= realm[c.grant].until + AccessLife
  BY DEF CookieInv
<1>4. now' >= now /\ Spent' >= Spent
  BY DEF Advance
<1>5. c.gen <= Spent' /\ c.born <= now' /\ c.last <= now' /\ c.access_exp <= now' + AccessLife
  BY <1>1, <1>2, <1>3, <1>4
<1>6. realm'[c.grant].st \in {"live", "ended"}
  BY <1>1, <1>3 DEF Advance
<1>7. realm'[c.grant].st = "ended" => c.access_exp <= realm'[c.grant].until + AccessLife
  <2>1. realm'[c.grant].until \in Int
    BY <1>1 DEF TypedInv, RealmRecord
  <2> QED BY <1>1, <1>3, <2>1 DEF Advance
<1>8. calm' => c.deploy = deploy'.key /\ c.bind = deploy'.bind
  BY DEF CookieInv, Advance
<1>9. surface' = "host" => c.own
  BY DEF CookieInv, Advance
<1> QED BY <1>5, <1>6, <1>7, <1>8, <1>9 DEF CookieInv

LEMMA SignInKept ==
    ASSUME Advance, NEW s, SignInInv(s)
    PROVE  SignInInv(s)'
BY DEF Advance, SignInInv

LEMMA RequestKept ==
    ASSUME TypedInv, TypedInv', Advance, NEW r \in TabRecord, RequestInv(r), r.pc = "sent" => now' = now
    PROVE  RequestInv(r)'
<1>1. now \in Int /\ now' \in Int /\ r.at \in Int /\ r.session \in {None} \cup Cookie
  BY DEF TypedInv, TabRecord
<1>2. r.session # None => CookieInv(r.session)'
  BY <1>1, CookieKept DEF RequestInv
<1>3. r.signin # None => SignInInv(r.signin)'
  BY SignInKept DEF RequestInv
<1>4. r.at <= now' /\ (r.pc = "sent" => r.at = now')
  BY <1>1 DEF RequestInv, Advance
<1> QED BY <1>2, <1>3, <1>4 DEF RequestInv

LEMMA AdmitKept ==
    ASSUME Advance, NEW r, NEW a, AdmitInv(r, a)
    PROVE  AdmitInv(r, a)'
BY DEF Advance, AdmitInv, Leeway

LEMMA AnswerKept ==
    ASSUME TypedInv, TypedInv', Advance, NEW r \in TabRecord, NEW a \in Answers, AnswerInv(r, a)
    PROVE  AnswerInv(r, a)'
<1>1. a.admit \in {None} \cup Cookie
  BY DEF Answers
<1>2. a.admit # None => CookieInv(a.admit)'
  BY <1>1, CookieKept DEF AnswerInv
<1>3. a.session \in Cookie => CookieInv(a.session)'
  BY CookieKept DEF AnswerInv
<1>4. a.signin \in SignIn => SignInInv(a.signin)'
  BY SignInKept DEF AnswerInv
<1>5. a.why = "Active" => AdmitInv(r, a)'
  BY AdmitKept DEF AnswerInv
<1>6. calm' => CalmInv(r, a)'
  <2>1. r.session # None => r.session.refresh_exp \in Int
    BY CookieFields DEF TabRecord
  <2>2. now \in Int /\ now' \in Int
    BY DEF TypedInv
  <2>3. calm' => CalmInv(r, a)
    BY DEF AnswerInv, Advance
  <2>4. surface' = surface /\ callback_path' = callback_path /\ now' >= now
    BY DEF Advance
  <2>5. r.session = None \/ now >= r.session.refresh_exp => r.session = None \/ now' >= r.session.refresh_exp
    BY <2>1, <2>2, <2>4
  <2> QED BY <2>3, <2>4, <2>5 DEF CalmInv
<1> QED BY <1>2, <1>3, <1>4, <1>5, <1>6 DEF AnswerInv

LEMMA TabKept ==
    ASSUME TypedInv, TypedInv', Advance, NEW r \in TabRecord, TabInv(r), r.pc = "sent" => now' = now
    PROVE  TabInv(r)'
<1>1. r.answer \in Answers
  BY DEF TabRecord
<1> QED BY <1>1, RequestKept, AnswerKept DEF TabInv

LEMMA JarKept ==
    ASSUME TypedInv, TypedInv', Advance, JarInv, jar' = jar, used' = used
    PROVE  JarInv'
<1>1. jar.session \in {None} \cup Cookie
  BY DEF TypedInv
<1>2. jar.session # None => CookieInv(jar.session)'
  BY <1>1, CookieKept DEF JarInv
<1>3. jar.signin # None => SignInInv(jar.signin)'
  BY SignInKept DEF JarInv
<1> QED BY <1>2, <1>3 DEF JarInv, Advance

-----------------------------------------------------------------------------
(* A step of one tab.                                                      *)

\* The realm moves on: sign-ins begin, this tab's code is issued or spent,
\* sessions are renewed or end.
Moves(t) ==
  \A g \in Logins :
    \/ realm'[g] = realm[g]
    \/ realm[g].st = "new" /\ realm'[g].st = "begun"
    \/ realm[g].st = "begun" /\ g = Claim(tab[t]) /\ realm'[g].st = "code"
    \/ realm[g].st = "code" /\ g = Claim(tab[t]) /\ realm'[g].st = "live"
    \/ realm[g].st = "live" /\ realm'[g].st = "live"
    \/ realm[g].st = "live" /\ realm'[g].st = "ended" /\ realm'[g].until = now

LEMMA ClaimIsLogin ==
    ASSUME NEW r \in TabRecord, r.pc = "answer" /\ r.answer.why = "login" => r.answer.signin \in SignIn
    PROVE  Claim(r) \in {0} \cup Logins
<1>1. r.login \in {0} \cup Logins
  BY DEF TabRecord, Logins
<1>2. r.answer.signin \in SignIn => r.answer.signin.login \in Logins
  BY DEF SignIn
<1> QED BY <1>1, <1>2 DEF Claim

\* A tab stays in its sign-in, leaves it, or begins one.
LEMMA ClaimsKept ==
    ASSUME TypedInv, ClaimsInv, SigningIn, NEW t \in Tabs, Moves(t),
           NEW k, tab' = [tab EXCEPT ![t] = k], InSignIn(k) => k.login # 0,
           \A u \in Tabs : Claim(tab[u]) \in {0} \cup Logins,
           Claim(k) \in {0} \cup Logins,
           Claim(k) # 0 =>
             /\ Claim(k) = Claim(tab[t]) \/ realm[Claim(k)].st = "new"
             /\ realm'[Claim(k)].st = IF k.pc \in {"answer", "realm"} THEN "begun" ELSE "code"
    PROVE  ClaimsInv' /\ SigningIn'
<1>0. DOMAIN tab = Tabs
  BY DEF TypedInv
<1>1. tab'[t] = k /\ \A u \in Tabs : u # t => tab'[u] = tab[u]
  BY <1>0
<1>2. SigningIn'
  BY <1>1 DEF SigningIn
<1>3. ASSUME NEW u \in Tabs, u # t, NEW n, n = Claim(tab[u]), n # 0
      PROVE  /\ realm'[n].st = IF tab[u].pc \in {"answer", "realm"} THEN "begun" ELSE "code"
             /\ Claim(k) # n
             /\ \A w \in Tabs : Claim(tab[w]) = n => w = u
  <2>1. /\ realm[n].st = IF tab[u].pc \in {"answer", "realm"} THEN "begun" ELSE "code"
        /\ \A w \in Tabs : Claim(tab[w]) = n => w = u
    BY <1>3 DEF ClaimsInv
  <2>2. n # Claim(tab[t]) /\ n \in Logins
    BY <1>3, <2>1
  <2>3. realm[n].st \in {"begun", "code"}
    BY <2>1
  <2>4. realm'[n] = realm[n]
    BY <2>2, <2>3 DEF Moves
  <2>5. Claim(k) # n
    BY <1>3, <2>2, <2>3
  <2> QED BY <2>1, <2>4, <2>5
<1>4. ASSUME NEW u \in Tabs, NEW n, n = Claim(tab'[u]), n # 0
      PROVE  /\ realm'[n].st = IF tab'[u].pc \in {"answer", "realm"} THEN "begun" ELSE "code"
             /\ \A w \in Tabs : Claim(tab'[w]) = n => w = u
  <2>1. CASE u = t
    <3>1. realm'[n].st = IF tab'[u].pc \in {"answer", "realm"} THEN "begun" ELSE "code"
      BY <1>1, <1>4, <2>1
    <3>2. ASSUME NEW w \in Tabs, w # t PROVE Claim(tab'[w]) # n
      BY <1>1, <1>3, <1>4, <2>1, <3>2
    <3> QED BY <2>1, <3>1, <3>2
  <2>2. CASE u # t
    <3>1. n = Claim(tab[u]) /\ tab'[u] = tab[u]
      BY <1>1, <1>4, <2>2
    <3>2. /\ realm'[n].st = IF tab[u].pc \in {"answer", "realm"} THEN "begun" ELSE "code"
          /\ Claim(k) # n
          /\ \A w \in Tabs : Claim(tab[w]) = n => w = u
      BY <1>3, <1>4, <2>2, <3>1
    <3>3. ASSUME NEW w \in Tabs, Claim(tab'[w]) = n PROVE w = u
      BY <1>1, <3>2, <3>3
    <3> QED BY <3>1, <3>2, <3>3
  <2> QED BY <2>1, <2>2
<1>5. ClaimsInv'
  BY <1>4 DEF ClaimsInv
<1> QED BY <1>2, <1>5

LEMMA MovesAdvance ==
    ASSUME TypedInv, NEW t \in Tabs, Moves(t)
    PROVE  \A g \in Logins : realm[g].st \in {"live", "ended"} =>
             /\ realm'[g].st \in {"live", "ended"}
             /\ realm'[g].st = "ended" =>
                  \/ realm'[g].until >= now
                  \/ realm[g].st = "ended" /\ realm'[g].until = realm[g].until
<1>1. now \in Int
  BY DEF TypedInv
<1> QED BY <1>1 DEF Moves

\* A tab moves on, and the realm with it.
LEMMA TabStep ==
    ASSUME SessionsInv, NEW t \in Tabs, NEW k \in TabRecord, tab' = [tab EXCEPT ![t] = k],
           UNCHANGED <<surface, rotates, now, callback_path>>,
           realm' \in [Logins -> RealmRecord], Moves(t),
           left' \in [requests : 0 .. MaxRequests, faults : 0 .. Faults],
           calm' \in BOOLEAN, deploy' \in [key : Nat, bind : Nat], calm' => calm /\ deploy' = deploy,
           Spent' \in Int, Spent' >= Spent, \A g \in Logins : realm'[g].gen <= Spent',
           used' \in 0 .. MaxTime, jar' \in [session : {None} \cup Cookie, signin : {None} \cup SignIn],
           (jar' = jar /\ used' = used) \/ JarInv',
           TabInv(k)', InSignIn(k) => k.login # 0,
           Claim(k) # 0 =>
             /\ Claim(k) = Claim(tab[t]) \/ realm[Claim(k)].st = "new"
             /\ realm'[Claim(k)].st = IF k.pc \in {"answer", "realm"} THEN "begun" ELSE "code",
           Calm'
    PROVE  SessionsInv'
<1>0. TypedInv /\ JarInv /\ ClaimsInv /\ SigningIn /\ \A u \in Tabs : tab[u] \in TabRecord /\ TabInv(tab[u])
  BY DEF SessionsInv, TypedInv
<1>1. TypedInv'
  BY <1>0 DEF TypedInv
<1>2. Advance
  <2>1. now' >= now
    BY <1>0 DEF TypedInv
  <2> QED BY <1>0, <2>1, MovesAdvance DEF Advance
<1>3. JarInv'
  BY <1>0, <1>1, <1>2, JarKept
<1>4. ASSUME NEW u \in Tabs PROVE TabInv(tab[u])'
  <2>1. CASE u = t
    <3>1. tab'[u] = k
      BY <1>0, <2>1 DEF TypedInv
    <3> QED BY <3>1
  <2>2. CASE u # t
    <3>1. tab'[u] = tab[u]
      BY <1>0, <2>2 DEF TypedInv
    <3>r. PICK r : r = tab[u]
      OBVIOUS
    <3>2. TabInv(r)'
      BY <1>0, <1>1, <1>2, <3>r, TabKept
    <3> QED BY <3>1, <3>2, <3>r
  <2> QED BY <2>1, <2>2
<1>5. ClaimsInv' /\ SigningIn'
  <2>1. ASSUME NEW r \in TabRecord, r.pc = "answer" => AnswerInv(r, r.answer)
        PROVE  Claim(r) \in {0} \cup Logins
    BY <2>1, ClaimIsLogin DEF AnswerInv
  <2>2. \A u \in Tabs : Claim(tab[u]) \in {0} \cup Logins
    BY <1>0, <2>1 DEF TabInv
  <2>3. Claim(k) \in {0} \cup Logins
    <3>1. k.pc = "answer" /\ k.answer.why = "login" => k.answer.signin \in SignIn
      BY DEF TabInv, AnswerInv
    <3> QED BY <3>1, ClaimIsLogin
  <2> QED BY <1>0, <2>2, <2>3, ClaimsKept
<1> QED BY <1>1, <1>3, <1>4, <1>5 DEF SessionsInv

\* In calm the one request that is under way goes on or is answered.
LEMMA CalmKept ==
    ASSUME SessionsInv, NEW t \in Tabs, tab[t].pc \in {"sent", "token"},
           NEW k \in TabRecord, tab' = [tab EXCEPT ![t] = k],
           jar' = jar, rotates' = rotates, calm' => calm,
           \/ k.pc = "token" /\ realm' = realm /\ k.session = tab[t].session
           \/ k.pc = "answer" /\ (calm' => Good(Merge(jar.session, k.answer.session))')
    PROVE  Calm'
<1> SUFFICES ASSUME calm'
             PROVE  /\ \A u, w \in Tabs : Busy(u)' /\ Busy(w)' => u = w
                    /\ (\A u \in Tabs : tab'[u].pc # "answer") => Good(jar.session)'
                    /\ \A u \in Tabs :
                         /\ tab'[u].pc \in {"sent", "token"} => tab'[u].session \in {None, jar'.session}
                         /\ tab'[u].pc = "answer" => Good(Merge(jar.session, tab[u].answer.session))'
  BY DEF Calm
<1>1. tab'[t] = k /\ \A u \in Tabs : u # t => tab'[u] = tab[u]
  BY DEF SessionsInv, TypedInv
<1>2. /\ \A u, w \in Tabs : Busy(u) /\ Busy(w) => u = w
      /\ (\A u \in Tabs : tab[u].pc # "answer") => Good(jar.session)
      /\ tab[t].session \in {None, jar.session}
  BY DEF SessionsInv, Calm
<1>3. ASSUME NEW u \in Tabs, u # t PROVE ~Busy(u)
  BY <1>2, <1>3 DEF Busy
<1>4. ASSUME NEW u \in Tabs, u # t PROVE tab'[u].pc \notin {"sent", "token", "answer"} /\ ~Busy(u)'
  BY <1>1, <1>3, <1>4 DEF Busy
<1>5. \A u, w \in Tabs : Busy(u)' /\ Busy(w)' => u = w
  BY <1>4
<1>6. CASE k.pc = "token" /\ realm' = realm /\ k.session = tab[t].session
  <2>1. \A u \in Tabs : tab[u].pc # "answer"
    BY <1>3 DEF Busy
  <2>2. Good(jar.session)
    BY <1>2, <2>1
  <2>3. Good(jar.session)'
    BY <1>6, <2>2 DEF Good
  <2>4. \A u \in Tabs : tab'[u].pc # "answer"
    BY <1>1, <1>4, <1>6
  <2> QED BY <1>1, <1>2, <1>4, <1>5, <1>6, <2>3, <2>4
<1>7. CASE k.pc = "answer" /\ Good(Merge(jar.session, k.answer.session))'
  <2>1. tab'[t].pc = "answer"
    BY <1>1, <1>7
  <2>2. ASSUME NEW u \in Tabs, tab'[u].pc = "answer"
        PROVE  Good(Merge(jar.session, tab[u].answer.session))'
    <3>1. u = t
      BY <1>4, <2>2
    <3> QED BY <1>1, <1>7, <3>1
  <2> QED BY <1>1, <1>4, <1>5, <1>7, <2>1, <2>2
<1> QED BY <1>6, <1>7

\* The handler of a tab's request works: what it leaves as it is.
Works(t) ==
  /\ tab[t].pc \in {"sent", "token"}
  /\ UNCHANGED <<surface, rotates, deploy, now, jar, used, callback_path>>
  /\ UNCHANGED <<left, calm>> \/ Fault

LEMMA WorksLeft ==
    ASSUME TypedInv, NEW t \in Tabs, Works(t)
    PROVE  /\ left' \in [requests : 0 .. MaxRequests, faults : 0 .. Faults]
           /\ left'.requests = left.requests
           /\ calm' \in BOOLEAN /\ (calm' => calm)
           /\ deploy' \in [key : Nat, bind : Nat] /\ used' \in 0 .. MaxTime
           /\ jar' \in [session : {None} \cup Cookie, signin : {None} \cup SignIn]
<1>1. left \in [requests : 0 .. MaxRequests, faults : 0 .. Faults] /\ calm \in BOOLEAN
  BY DEF TypedInv
<1>2. /\ left' \in [requests : 0 .. MaxRequests, faults : 0 .. Faults]
      /\ left'.requests = left.requests
      /\ calm' \in BOOLEAN /\ (calm' => calm)
  <2>1. CASE UNCHANGED <<left, calm>>
    BY <1>1, <2>1
  <2>2. CASE Fault
    <3>1. left.faults \in 0 .. Faults /\ left.faults > 0 /\ Faults \in Nat
      BY <1>1, <2>2, SessionConstants DEF Fault
    <3>2. left.faults - 1 \in 0 .. Faults
      BY <3>1
    <3> QED BY <1>1, <2>2, <3>2 DEF Fault
  <2> QED BY <2>1, <2>2 DEF Works
<1> QED BY <1>2 DEF Works, TypedInv

\* The handler goes on after a call to the realm.
GoingOn(r, n) == [r EXCEPT !.pc = "token", !.login = n]
LEMMA GoesOn ==
    ASSUME SessionsInv, NEW t \in Tabs, Works(t), tab[t].pc = "sent", realm' = realm,
           NEW n \in 0 .. MaxLogins, NEW r, r = tab[t], NEW k, k = GoingOn(r, n),
           tab' = [tab EXCEPT ![t] = k],
           r.kind = "callback" => n = r.login, RequestInv(k)
    PROVE  SessionsInv'
<1>1. TypedInv /\ r \in TabRecord /\ TabInv(r) /\ RequestInv(r)
  BY DEF SessionsInv, TypedInv, TabInv
<1>2. k \in TabRecord
  BY <1>1 DEF GoingOn, TabRecord
<1>3. /\ k.pc = "token" /\ k.login = n /\ k.kind = r.kind /\ k.session = r.session
      /\ k.answer = r.answer /\ r.pc = "sent"
  BY <1>1 DEF GoingOn, TabRecord
<1>4. /\ left' \in [requests : 0 .. MaxRequests, faults : 0 .. Faults]
      /\ left'.requests = left.requests
      /\ calm' \in BOOLEAN /\ (calm' => calm)
      /\ deploy' \in [key : Nat, bind : Nat] /\ used' \in 0 .. MaxTime
      /\ jar' \in [session : {None} \cup Cookie, signin : {None} \cup SignIn]
  BY <1>1, WorksLeft
<1>5. Spent' = Spent /\ Spent \in Int
  BY <1>1, <1>3, <1>4, SpentKept, LeftIsBounded
<1>6. Moves(t)
  BY DEF Moves
<1>7. /\ UNCHANGED <<surface, rotates, deploy, now, jar, used, callback_path>>
      /\ now' >= now /\ \A g \in Logins : realm'[g].gen <= Spent'
  BY <1>1, <1>5 DEF Works, SessionsInv, TypedInv
<1>8. TypedInv'
  BY <1>1, <1>2, <1>4, <1>7 DEF TypedInv
<1>9. Advance
  BY <1>1, <1>4, <1>5, <1>6, <1>7, MovesAdvance DEF Advance
<1>10. TabInv(k)'
  <2>1. k.answer = NoAnswer
    BY <1>1, <1>3 DEF TabInv
  <2>2. RequestInv(k)'
    BY <1>1, <1>2, <1>7, <1>8, <1>9, RequestKept
  <2> QED BY <1>3, <2>1, <2>2 DEF TabInv
<1>11. InSignIn(k) => InSignIn(r) /\ k.login = r.login
  BY <1>3 DEF InSignIn
<1>12. Claim(k) # 0 => Claim(k) = Claim(r) /\ InSignIn(r)
  BY <1>3, <1>11 DEF Claim
<1>13. InSignIn(k) => k.login # 0
  BY <1>11 DEF SessionsInv, SigningIn
<1>14. Claim(k) # 0 => realm'[Claim(k)].st = IF k.pc \in {"answer", "realm"} THEN "begun" ELSE "code"
  BY <1>3, <1>12 DEF SessionsInv, ClaimsInv
<1>15. Calm'
  BY <1>2, <1>3, <1>4, <1>7, CalmKept
<1>16. realm' \in [Logins -> RealmRecord] /\ Spent' \in Int /\ Spent' >= Spent
  BY <1>5, <1>8 DEF TypedInv
<1>17. UNCHANGED <<surface, rotates, now, callback_path>> /\ (jar' = jar /\ used' = used)
       /\ deploy' = deploy
  BY <1>7
<1>18. Claim(k) # 0 =>
         /\ Claim(k) = Claim(tab[t]) \/ realm[Claim(k)].st = "new"
         /\ realm'[Claim(k)].st = IF k.pc \in {"answer", "realm"} THEN "begun" ELSE "code"
  BY <1>12, <1>14
<1>19. \A g \in Logins : realm'[g].gen <= Spent'
  BY <1>7
<1> QED BY <1>2, <1>4, <1>6, <1>10, <1>13, <1>15, <1>16, <1>17, <1>18, <1>19, TabStep

\* The handler has the answer.
Answering(r, a) == [r EXCEPT !.pc = "answer", !.answer = a]
Replying(t, a) == tab' = [tab EXCEPT ![t] = Answering(tab[t], a)]

LEMMA ReplyIsReplying ==
    ASSUME NEW t \in Tabs, NEW a, Reply(t, a), TypedInv
    PROVE  Replying(t, a)
BY DEF Reply, Replying, Answering, TypedInv, TabRecord

\* What the steps of the realm and of the counts leave in order.
RealmMoves(t) ==
  /\ realm' \in [Logins -> RealmRecord] /\ Moves(t)
  /\ \A g \in Logins : realm'[g].gen <= Spent + 1

LEMMA AnsweringFields ==
    ASSUME NEW r \in TabRecord, NEW a \in Answers, NEW k, k = Answering(r, a)
    PROVE  /\ k \in TabRecord /\ k.pc = "answer" /\ k.answer = a
           /\ k.at = r.at /\ k.session = r.session /\ k.signin = r.signin
           /\ k.login = r.login /\ k.kind = r.kind
BY DEF Answering, TabRecord

LEMMA ReplyAdvances ==
    ASSUME SessionsInv, NEW t \in Tabs, Works(t), RealmMoves(t),
           NEW a \in Answers, Replying(t, a)
    PROVE  TypedInv' /\ Advance /\ Spent' = Spent + 1 /\ Spent \in Int
<1>1. TypedInv
  BY DEF SessionsInv
<1>2. PICK r : r = tab[t]
  OBVIOUS
<1>3. PICK k : k = Answering(r, a)
  OBVIOUS
<1>4. r \in TabRecord /\ r.pc \in {"sent", "token"} /\ tab' = [tab EXCEPT ![t] = k]
  BY <1>1, <1>2, <1>3 DEF TypedInv, Works, Replying
<1>5. k \in TabRecord /\ k.pc = "answer"
  BY <1>3, <1>4, AnsweringFields
<1>6. /\ left' \in [requests : 0 .. MaxRequests, faults : 0 .. Faults]
      /\ left'.requests = left.requests
      /\ calm' \in BOOLEAN /\ (calm' => calm)
      /\ deploy' \in [key : Nat, bind : Nat] /\ used' \in 0 .. MaxTime
      /\ jar' \in [session : {None} \cup Cookie, signin : {None} \cup SignIn]
  BY <1>1, WorksLeft
<1>7. Spent' = Spent + 1
  BY <1>1, <1>2, <1>4, <1>5, <1>6, SpentReply
<1>8. Spent \in Int
  BY <1>1, LeftIsBounded
<1>9. surface' = surface /\ rotates' = rotates /\ now' = now /\ callback_path' = callback_path /\ deploy' = deploy
  BY DEF Works
<1>10. TypedInv'
  BY <1>1, <1>4, <1>5, <1>6, <1>9 DEF TypedInv, RealmMoves
<1>11. now' >= now
  BY <1>1, <1>9 DEF TypedInv
<1>12. Advance
  BY <1>1, <1>6, <1>7, <1>8, <1>9, <1>11, MovesAdvance DEF Advance, RealmMoves
<1> QED BY <1>7, <1>8, <1>10, <1>12

LEMMA Replied ==
    ASSUME SessionsInv, NEW t \in Tabs, Works(t), RealmMoves(t),
           NEW a \in Answers, Replying(t, a),
           NEW r, r = tab[t], AnswerInv(r, a)',
           a.why = "login" => /\ realm[a.signin.login].st = "new"
                              /\ realm'[a.signin.login].st = "begun",
           calm' => Good(Merge(jar.session, a.session))'
    PROVE  SessionsInv'
<1>1. TypedInv /\ r \in TabRecord /\ RequestInv(r)
  BY DEF SessionsInv, TypedInv, TabInv
<1>2. PICK k : k = Answering(r, a)
  OBVIOUS
<1>3. tab' = [tab EXCEPT ![t] = k] /\ r.pc \in {"sent", "token"}
  BY <1>2 DEF Replying, Works
<1>4. /\ k \in TabRecord /\ k.pc = "answer" /\ k.answer = a
      /\ k.at = r.at /\ k.session = r.session /\ k.signin = r.signin
      /\ k.login = r.login /\ k.kind = r.kind
  BY <1>1, <1>2, AnsweringFields
<1>5. TypedInv' /\ Advance /\ Spent' = Spent + 1 /\ Spent \in Int
  BY ReplyAdvances
<1>6. /\ left' \in [requests : 0 .. MaxRequests, faults : 0 .. Faults]
      /\ left'.requests = left.requests
      /\ calm' \in BOOLEAN /\ (calm' => calm)
      /\ deploy' \in [key : Nat, bind : Nat] /\ used' \in 0 .. MaxTime
      /\ jar' \in [session : {None} \cup Cookie, signin : {None} \cup SignIn]
  BY <1>1, WorksLeft
<1>7. UNCHANGED <<surface, rotates, deploy, now, jar, used, callback_path>>
  BY DEF Works
<1>8. TabInv(k)'
  <2>1. RequestInv(r)'
    BY <1>1, <1>5, <1>7, RequestKept
  <2>2. RequestInv(k)'
    BY <1>4, <2>1 DEF RequestInv
  <2>3. AnswerInv(k, a)'
    <3>1. AdmitInv(r, a)' => AdmitInv(k, a)'
      BY <1>4 DEF AdmitInv
    <3>2. CalmInv(r, a)' => CalmInv(k, a)'
      BY <1>4 DEF CalmInv
    <3> QED BY <1>4, <3>1, <3>2 DEF AnswerInv
  <2> QED BY <1>4, <2>2, <2>3 DEF TabInv
<1>9. Claim(k) = (IF a.why = "login" THEN a.signin.login ELSE 0) /\ ~InSignIn(k)
  BY <1>4 DEF Claim, InSignIn
<1>10. Claim(k) # 0 =>
         /\ Claim(k) = Claim(tab[t]) \/ realm[Claim(k)].st = "new"
         /\ realm'[Claim(k)].st = IF k.pc \in {"answer", "realm"} THEN "begun" ELSE "code"
  BY <1>4, <1>9
<1>11. Calm'
  BY <1>3, <1>4, <1>6, <1>7, CalmKept
<1>12. /\ realm' \in [Logins -> RealmRecord] /\ Moves(t) /\ Spent' \in Int /\ Spent' >= Spent
       /\ \A g \in Logins : realm'[g].gen <= Spent'
  BY <1>5 DEF RealmMoves
<1> QED BY <1>3, <1>4, <1>6, <1>7, <1>8, <1>9, <1>10, <1>11, <1>12, TabStep

-----------------------------------------------------------------------------
(* The realm's moves.                                                      *)

LEMMA RealmStill ==
    ASSUME SessionsInv, NEW t \in Tabs, realm' = realm
    PROVE  RealmMoves(t)
<1>1. TypedInv /\ \A g \in Logins : realm[g].gen <= Spent /\ realm[g].gen \in Nat
  BY DEF SessionsInv, TypedInv, RealmRecord
<1>2. \A g \in Logins : realm'[g].gen <= Spent + 1
  BY <1>1, LeftIsBounded
<1>3. Moves(t)
  BY DEF Moves
<1> QED BY <1>1, <1>2, <1>3 DEF RealmMoves, TypedInv

LEMMA RealmGrants ==
    ASSUME SessionsInv, NEW t \in Tabs, NEW g \in Logins, NEW gen \in Nat, gen <= Spent + 1,
           realm[g].st = "live" \/ (realm[g].st = "code" /\ g = Claim(tab[t])),
           realm' = Granted(g, gen)
    PROVE  /\ RealmMoves(t)
           /\ realm'[g] = [st |-> "live", gen |-> gen, until |-> now + RefreshLife]
           /\ \A h \in Logins : h # g => realm'[h] = realm[h]
<1>1. TypedInv /\ \A h \in Logins : realm[h].gen <= Spent /\ realm[h].gen \in Nat
  BY DEF SessionsInv, TypedInv, RealmRecord
<1>2. PICK new : new = [st |-> "live", gen |-> gen, until |-> now + RefreshLife]
  OBVIOUS
<1>3. now + RefreshLife \in Nat
  BY <1>1, SessionConstants DEF TypedInv
<1>4. new \in RealmRecord /\ new.gen = gen /\ new.st = "live"
  BY <1>2, <1>3 DEF RealmRecord
<1>5. realm' = [realm EXCEPT ![g] = new] /\ realm \in [Logins -> RealmRecord]
  BY <1>1, <1>2 DEF Granted, TypedInv
<1>6. realm'[g] = new /\ \A h \in Logins : h # g => realm'[h] = realm[h]
  BY <1>5
<1>7. realm' \in [Logins -> RealmRecord]
  BY <1>4, <1>5
<1>8. \A h \in Logins : realm'[h].gen <= Spent + 1
  BY <1>1, <1>4, <1>6, LeftIsBounded
<1>9. Moves(t)
  BY <1>4, <1>6 DEF Moves
<1> QED BY <1>2, <1>6, <1>7, <1>8, <1>9 DEF RealmMoves

LEMMA RealmEnding ==
    ASSUME SessionsInv, NEW t \in Tabs, NEW g \in Logins, realm[g].st = "live", realm' = RealmEnded(g)
    PROVE  /\ RealmMoves(t)
           /\ realm'[g].st = "ended" /\ realm'[g].until = now
           /\ \A h \in Logins : h # g => realm'[h] = realm[h]
<1>1. TypedInv /\ \A h \in Logins : realm[h].gen <= Spent /\ realm[h].gen \in Nat
  BY DEF SessionsInv, TypedInv, RealmRecord
<1>2. PICK old : old = realm[g]
  OBVIOUS
<1>3. PICK new : new = [old EXCEPT !.st = "ended", !.until = now]
  OBVIOUS
<1>4. realm \in [Logins -> RealmRecord] /\ old \in RealmRecord /\ now \in Nat
  BY <1>1, <1>2, SessionConstants DEF TypedInv
<1>5. new \in RealmRecord /\ new.gen = old.gen /\ new.st = "ended" /\ new.until = now
  BY <1>3, <1>4 DEF RealmRecord
<1>6. realm' = [realm EXCEPT ![g] = new]
  BY <1>2, <1>3, <1>4 DEF RealmEnded, RealmRecord
<1>7. realm'[g] = new /\ \A h \in Logins : h # g => realm'[h] = realm[h]
  BY <1>4, <1>6
<1>8. realm' \in [Logins -> RealmRecord]
  BY <1>4, <1>5, <1>6
<1>9. \A h \in Logins : realm'[h].gen <= Spent + 1
  BY <1>1, <1>2, <1>5, <1>7, LeftIsBounded
<1>10. Moves(t)
  BY <1>5, <1>7 DEF Moves
<1> QED BY <1>5, <1>7, <1>8, <1>9, <1>10 DEF RealmMoves

LEMMA RealmBegins ==
    ASSUME SessionsInv, NEW t \in Tabs, NEW g \in Logins, realm[g].st = "new",
           NEW R \in [Logins -> RealmRecord], R = realm, realm' = [R EXCEPT ![g].st = "begun"]
    PROVE  /\ RealmMoves(t)
           /\ realm'[g].st = "begun"
           /\ \A h \in Logins : h # g => realm'[h] = realm[h]
<1>1. TypedInv /\ \A h \in Logins : realm[h].gen <= Spent /\ realm[h].gen \in Nat
  BY DEF SessionsInv, TypedInv, RealmRecord
<1>2. PICK old : old = realm[g]
  OBVIOUS
<1>3. PICK new : new = [old EXCEPT !.st = "begun"]
  OBVIOUS
<1>5. new \in RealmRecord /\ new.gen = old.gen /\ new.st = "begun"
  BY <1>2, <1>3 DEF RealmRecord
<1>6. realm' = [R EXCEPT ![g] = new]
  BY <1>2, <1>3 DEF RealmRecord
<1>7. realm'[g] = new /\ \A h \in Logins : h # g => realm'[h] = realm[h]
  BY <1>6
<1>8. realm' \in [Logins -> RealmRecord]
  BY <1>5, <1>6
<1>9. \A h \in Logins : realm'[h].gen <= Spent + 1
  BY <1>1, <1>2, <1>5, <1>7, LeftIsBounded
<1>10. Moves(t)
  BY <1>5, <1>7 DEF Moves
<1> QED BY <1>5, <1>7, <1>8, <1>9, <1>10 DEF RealmMoves

LEMMA FreshIsNew ==
  Fresh \in {0} \cup Logins /\ (Fresh # 0 => realm[Fresh].st = "new")
BY LoginNumbers DEF Fresh

-----------------------------------------------------------------------------
(* Answers.                                                                *)

\* The session that a calm request came with is the one in the jar, and good.
LEMMA CalmRequest ==
    ASSUME SessionsInv, NEW t \in Tabs, tab[t].pc \in {"sent", "token"}, calm
    PROVE  Good(jar.session) /\ tab[t].session \in {None, jar.session} /\ Good(tab[t].session)
<1>1. \A u \in Tabs : tab[u].pc # "answer"
  BY DEF SessionsInv, Calm, Busy
<1>2. Good(jar.session) /\ tab[t].session \in {None, jar.session}
  BY <1>1 DEF SessionsInv, Calm
<1> QED BY <1>2 DEF Good

LEMMA GoodKept ==
    ASSUME NEW c, Good(c), rotates' = rotates, c # None => realm'[c.grant] = realm[c.grant]
    PROVE  Good(c)'
BY DEF Good

\* An answer that sets no cookie and admits nobody.
LEMMA PlainReply ==
    ASSUME SessionsInv, NEW t \in Tabs, Works(t), RealmMoves(t),
           NEW a \in Answers, Replying(t, a), NEW r, r = tab[t],
           a.admit = None, a.session \in {Keep, Clear}, a.signin \in {Keep, Clear},
           a.why \notin {"Active", "login", "signed_in"},
           a.why = "Idle" => r.session # None /\ r.at - r.session.last > IdleTimeout,
           calm' => CalmInv(r, a),
           calm' => a.session = Clear \/ realm' = realm
    PROVE  SessionsInv'
<1>1. a.session \notin Cookie /\ a.signin \notin SignIn
  BY Values
<1>2. CalmInv(r, a)' <=> CalmInv(r, a)
  BY DEF CalmInv, Works
<1>3. AnswerInv(r, a)'
  BY <1>1, <1>2 DEF AnswerInv
<1>4. ASSUME calm' PROVE Good(Merge(jar.session, a.session))'
  <2>1. CASE a.session = Clear
    BY <2>1, Values DEF Merge, Good
  <2>2. CASE a.session = Keep /\ realm' = realm
    <3>1. calm /\ tab[t].pc \in {"sent", "token"} /\ rotates' = rotates /\ jar' = jar
      BY <1>4 DEF Works, Fault
    <3>2. Good(jar.session)
      BY <3>1, CalmRequest
    <3>3. Good(jar.session)'
      BY <2>2, <3>1, <3>2 DEF Good
    <3> QED BY <2>2, <3>3 DEF Merge
  <2> QED BY <1>4, <2>1, <2>2, Values
<1> QED BY <1>3, <1>4, Replied

\* The browser is sent to the realm to sign in.
LEMMA LoginReply ==
    ASSUME SessionsInv, NEW t \in Tabs, Works(t), RealmMoves(t),
           NEW n \in Logins, realm[n].st = "new", realm'[n].st = "begun",
           NEW a, a = Answer("login", None, Keep, [deploy |-> deploy.key, login |-> n, at |-> now]),
           Replying(t, a), calm' => \A h \in Logins : h # n => realm'[h] = realm[h]
    PROVE  SessionsInv'
<1>1. PICK r : r = tab[t]
  OBVIOUS
<1>2. PICK s : s = [deploy |-> deploy.key, login |-> n, at |-> now]
  OBVIOUS
<1>3. now \in Nat /\ deploy.key \in Nat
  BY SessionConstants DEF SessionsInv, TypedInv
<1>4. s \in SignIn /\ s.deploy = deploy.key /\ s.login = n
  BY <1>2, <1>3 DEF SignIn
<1>5. a = [why |-> "login", admit |-> None, session |-> Keep, signin |-> s]
  BY <1>2 DEF Answer
<1>6. a \in Answers /\ a.why = "login" /\ a.admit = None /\ a.session = Keep /\ a.signin = s
  <2>1. a.why = "login" /\ a.admit = None /\ a.session = Keep /\ a.signin = s
    BY <1>5
  <2>2. "login" \in Whys
    BY DEF Whys
  <2>3. a \in Answers
    BY <1>4, <1>5, <2>2 DEF Answers
  <2> QED BY <2>1, <2>3
<1>7. SignInInv(s)'
  BY <1>4 DEF SignInInv, Works
<1>8. AnswerInv(r, a)'
  BY <1>4, <1>6, <1>7, Values DEF AnswerInv, CalmInv
<1>9. ASSUME calm' PROVE Good(Merge(jar.session, a.session))'
  <2>1. calm /\ tab[t].pc \in {"sent", "token"} /\ rotates' = rotates /\ jar' = jar
    BY <1>9 DEF Works, Fault
  <2>2. Good(jar.session)
    BY <2>1, CalmRequest
  <2>3. jar.session # None => jar.session.grant \in Logins /\ jar.session.grant # n
    BY <2>2, CookieFields DEF Good, SessionsInv, TypedInv
  <2>4. Good(jar.session)'
    BY <1>9, <2>1, <2>2, <2>3 DEF Good
  <2> QED BY <1>6, <2>4 DEF Merge
<1>10. a.signin.login = n
  BY <1>4, <1>6
<1> QED BY <1>1, <1>6, <1>8, <1>9, <1>10, Replied

\* A stamped cookie is one whose last use is now.
Stamped(c, at) == [c EXCEPT !.last = at]
LEMMA StampedFields ==
    ASSUME NEW c \in Cookie, NEW at \in Nat, NEW d, d = Stamped(c, at)
    PROVE  /\ d \in Cookie /\ d.last = at
           /\ d.deploy = c.deploy /\ d.bind = c.bind /\ d.grant = c.grant /\ d.gen = c.gen
           /\ d.access_exp = c.access_exp /\ d.own = c.own /\ d.refresh_exp = c.refresh_exp
           /\ d.until = c.until /\ d.born = c.born
BY DEF Stamped, Cookie

\* The session's own cookie admits the request, stamped when the stamp is old.
LEMMA ActiveReply ==
    ASSUME SessionsInv, NEW t \in Tabs, Works(t), RealmMoves(t), surface = "host",
           NEW r, r = tab[t], NEW c \in Cookie, c = r.session,
           r.at <= c.access_exp, r.at <= c.refresh_exp, r.at - c.last <= IdleTimeout,
           NEW a, a = Active(c, r.at, Stale(c, r.at)), Replying(t, a), calm' => realm' = realm
    PROVE  SessionsInv'
<1>1. TypedInv /\ r \in TabRecord /\ RequestInv(r) /\ r.at \in Nat /\ r.at \in 0 .. MaxTime /\ c # None
  BY SessionConstants, Values DEF SessionsInv, TypedInv, TabInv, TabRecord
<1>2. PICK d : d = Stamped(c, r.at)
  OBVIOUS
<1>3. /\ d \in Cookie /\ d.last = r.at
      /\ d.deploy = c.deploy /\ d.bind = c.bind /\ d.grant = c.grant /\ d.gen = c.gen
      /\ d.access_exp = c.access_exp /\ d.own = c.own /\ d.refresh_exp = c.refresh_exp
      /\ d.until = c.until /\ d.born = c.born
  <2>1. c \in Cookie /\ r.at \in Nat
    BY <1>1
  <2> QED BY <1>2, <2>1, StampedFields, Z3
<1>4. a = [why |-> "Active", admit |-> c, session |-> IF Stale(c, r.at) THEN d ELSE Keep, signin |-> Keep]
  BY <1>2 DEF Active, Answer, Stamped
<1>5. /\ a \in Answers /\ a.why = "Active" /\ a.admit = c /\ a.signin = Keep
      /\ a.session = IF Stale(c, r.at) THEN d ELSE Keep
  BY <1>3, <1>4 DEF Answers, Whys
<1>6. TypedInv' /\ Advance
  BY <1>5, ReplyAdvances
<1>7. CookieInv(c) /\ c.last <= r.at /\ r.at <= now
  BY <1>1 DEF RequestInv
<1>8. CookieInv(c)'
  BY <1>6, <1>7, <1>1, CookieKept
<1>9. CookieInv(d)'
  BY <1>3, <1>7, <1>8 DEF CookieInv, Works
<1>10. AdmitInv(r, a)'
  <2>1. c.own /\ surface' = "host"
    BY <1>7 DEF CookieInv, Works
  <2>2. ~Stale(c, r.at) => r.at - c.last <= IdleTimeout \div 10
    BY <1>1, CookieFields, HostConstants DEF Stale
  <2>3. r.at <= c.access_exp + 0 /\ r.at <= c.refresh_exp + 0
    BY <1>1, CookieFields
  <2> QED BY <1>1, <1>3, <1>5, <2>1, <2>2, <2>3, Values DEF AdmitInv, Leeway
<1>11. AnswerInv(r, a)'
  BY <1>5, <1>8, <1>9, <1>10, Values DEF AnswerInv, CalmInv
<1>12. ASSUME calm' PROVE Good(Merge(jar.session, a.session))'
  <2>1. calm /\ tab[t].pc \in {"sent", "token"} /\ rotates' = rotates /\ jar' = jar /\ realm' = realm
    BY <1>12 DEF Works, Fault
  <2>2. Good(jar.session) /\ Good(c)
    BY <2>1, CalmRequest
  <2>3. Good(jar.session)' /\ Good(d)'
    BY <1>1, <1>3, <2>1, <2>2 DEF Good
  <2> QED BY <1>3, <1>5, <2>3, Values DEF Merge
<1> QED BY <1>5, <1>11, <1>12, Replied

LEMMA PlainFields ==
    ASSUME NEW why \in Whys, NEW session \in {Keep, Clear}, NEW signin \in {Keep, Clear},
           NEW a, a = Answer(why, None, session, signin)
    PROVE  /\ a \in Answers /\ a.why = why /\ a.admit = None
           /\ a.session = session /\ a.signin = signin
<1>1. a = [why |-> why, admit |-> None, session |-> session, signin |-> signin]
  BY DEF Answer
<1> QED BY <1>1 DEF Answers

LEMMA EndedWhys ==
  /\ "NoSession" \in Whys /\ "Invalid" \in Whys /\ "BindingMismatch" \in Whys /\ "Idle" \in Whys
  /\ "Expired" \in Whys /\ "Refresh" \notin Whys /\ "Active" \in Whys
  /\ "RefreshRefused" \in Whys /\ "Unavailable" \in Whys
BY DEF Whys

LEMMA EndedFields ==
    ASSUME NEW why \in Whys, NEW a, a = Ended(why)
    PROVE  /\ a \in Answers /\ a.why = why /\ a.admit = None /\ a.signin = Keep
           /\ a.session = IF why \in {"NoSession", "Unavailable"} THEN Keep ELSE Clear
<1>1. PICK session : session = IF why \in {"NoSession", "Unavailable"} THEN Keep ELSE Clear
  OBVIOUS
<1>2. a = Answer(why, None, session, Keep)
  BY <1>1 DEF Ended
<1> QED BY <1>1, <1>2, PlainFields

\* The handler goes on to call the realm.
LEMMA CallsRealm ==
    ASSUME SessionsInv, NEW t \in Tabs, Works(t), tab[t].pc = "sent", realm' = realm,
           tab' = [tab EXCEPT ![t].pc = "token"],
           RequestInv(GoingOn(tab[t], tab[t].login))
    PROVE  SessionsInv'
<1>1. PICK r : r = tab[t]
  OBVIOUS
<1>2. PICK n : n = r.login
  OBVIOUS
<1>3. PICK k : k = GoingOn(r, n)
  OBVIOUS
<1>4. r \in TabRecord /\ n \in 0 .. MaxLogins
  BY <1>1, <1>2 DEF SessionsInv, TypedInv, TabRecord
<1>5. tab' = [tab EXCEPT ![t] = k]
  BY <1>1, <1>2, <1>3, <1>4 DEF GoingOn, TabRecord
<1>6. RequestInv(k)
  BY <1>1, <1>2, <1>3
<1>7. r.kind = "callback" => n = r.login
  BY <1>2
<1> QED BY <1>1, <1>3, <1>4, <1>5, <1>6, <1>7, GoesOn, ZenonT(60)

LEMMA GoingOnFields ==
    ASSUME NEW r \in TabRecord, NEW n \in 0 .. MaxLogins, NEW k, k = GoingOn(r, n)
    PROVE  /\ k.pc = "token" /\ k.login = n /\ k.kind = r.kind /\ k.at = r.at
           /\ k.session = r.session /\ k.signin = r.signin
BY DEF GoingOn, TabRecord

-----------------------------------------------------------------------------
(* The host session.                                                       *)

\* What Verdict finds out.
LEMMA VerdictMeans ==
    ASSUME NEW c \in {None} \cup Cookie, NEW at \in Nat, NEW v, v = Verdict(c, at)
    PROVE  /\ v \in {"NoSession", "Invalid", "BindingMismatch", "Idle", "Expired", "Refresh", "Active"}
           /\ v = "NoSession" <=> c = None
           /\ v = "Invalid" => c.deploy # deploy.key
           /\ v = "BindingMismatch" => c.bind # deploy.bind
           /\ v = "Idle" => at - c.last > IdleTimeout
           /\ v \in {"Refresh", "Active"} => at - c.last <= IdleTimeout /\ at < c.refresh_exp
           /\ v = "Active" => at <= c.access_exp
<1>1. CASE c = None
  BY <1>1 DEF Verdict, opens
<1>2. CASE c # None /\ c.deploy # deploy.key
  BY <1>2 DEF Verdict, opens
<1>3. CASE c # None /\ c.deploy = deploy.key /\ c.bind # deploy.bind
  BY <1>3 DEF Verdict, opens
<1>4. CASE c # None /\ c.deploy = deploy.key /\ c.bind = deploy.bind
  <2>1. /\ c.last \in Nat /\ c.refresh_exp \in Nat /\ c.access_exp \in Nat
        /\ RefreshSkew \in Nat /\ IdleTimeout \in Nat
    BY <1>4, CookieFields, SessionConstants, HostConstants
  <2>2. v = CASE at - c.last > IdleTimeout -> "Idle"
              [] at - c.last <= IdleTimeout /\ at >= c.refresh_exp -> "Expired"
              [] at - c.last <= IdleTimeout /\ at < c.refresh_exp ->
                   IF at + RefreshSkew >= c.access_exp THEN "Refresh" ELSE "Active"
    BY <1>4 DEF Verdict, opens
  <2>3. CASE at - c.last > IdleTimeout
    BY <1>4, <2>1, <2>2, <2>3
  <2>4. CASE at - c.last <= IdleTimeout /\ at >= c.refresh_exp
    BY <1>4, <2>1, <2>2, <2>4
  <2>5. CASE at - c.last <= IdleTimeout /\ at < c.refresh_exp
    BY <1>4, <2>1, <2>2, <2>5
  <2> QED BY <2>1, <2>3, <2>4, <2>5
<1> QED BY <1>1, <1>2, <1>3, <1>4

LEMMA ResolveStep ==
    ASSUME SessionsInv, surface = "host", UNCHANGED callback_path, NEW t \in Tabs, resolve(t)
    PROVE  SessionsInv'
<1>1. PICK r : r = tab[t]
  OBVIOUS
<1>2. PICK c : c = r.session
  OBVIOUS
<1>3. PICK v : v = Verdict(c, r.at)
  OBVIOUS
<1>4. TypedInv /\ r \in TabRecord /\ c \in {None} \cup Cookie /\ r.at \in Nat /\ RequestInv(r)
  BY <1>1, <1>2, SessionConstants DEF SessionsInv, TypedInv, TabRecord, TabInv
<1>5. /\ r.pc = "sent" /\ r.kind = "resolve" /\ realm' = realm
      /\ UNCHANGED <<surface, rotates, deploy, now, jar, left, calm, used, callback_path>>
      /\ v = "Refresh" => tab' = [tab EXCEPT ![t].pc = "token"]
      /\ v # "Refresh" => Reply(t, IF v = "Active" THEN Active(c, r.at, Stale(c, r.at)) ELSE Ended(v))
  BY <1>1, <1>2, <1>3 DEF resolve
<1>6. Works(t) /\ RealmMoves(t)
  BY <1>1, <1>5, RealmStill DEF Works
<1>7. /\ v \in {"NoSession", "Invalid", "BindingMismatch", "Idle", "Expired", "Refresh", "Active"}
      /\ v = "NoSession" <=> c = None
      /\ v = "Invalid" => c.deploy # deploy.key
      /\ v = "BindingMismatch" => c.bind # deploy.bind
      /\ v = "Idle" => r.at - c.last > IdleTimeout
      /\ v \in {"Refresh", "Active"} => r.at - c.last <= IdleTimeout /\ r.at < c.refresh_exp
      /\ v = "Active" => r.at <= c.access_exp
  BY <1>3, <1>4, VerdictMeans
<1>8. CASE v = "Refresh"
  <2>1. PICK k : k = GoingOn(r, r.login)
    OBVIOUS
  <2>2. /\ k.pc = "token" /\ k.kind = "resolve" /\ k.at = r.at
        /\ k.session = c /\ k.signin = r.signin
    BY <1>2, <1>4, <1>5, <2>1, GoingOnFields DEF TabRecord
  <2>3. RequestInv(k)
    BY <1>2, <1>4, <1>5, <1>7, <1>8, <2>2 DEF RequestInv, Pages
  <2> QED BY <1>1, <1>5, <1>6, <1>8, <2>1, <2>3, CallsRealm
<1>9. CASE v = "Active"
  <2>1. PICK a : a = Active(c, r.at, Stale(c, r.at))
    OBVIOUS
  <2>2. Replying(t, a)
    BY <1>4, <1>5, <1>9, <2>1, ReplyIsReplying
  <2>3. c \in Cookie /\ r.at <= c.refresh_exp /\ r.at <= c.access_exp /\ r.at - c.last <= IdleTimeout
    <3>1. c \in Cookie
      BY <1>4, <1>7, <1>9
    <3> QED BY <1>4, <1>7, <1>9, <3>1, CookieFields
  <2> QED BY <1>1, <1>2, <1>5, <1>6, <2>1, <2>2, <2>3, ActiveReply
<1>10. CASE v \notin {"Refresh", "Active"}
  <2>1. PICK a : a = Ended(v)
    OBVIOUS
  <2>2. Replying(t, a)
    BY <1>4, <1>5, <1>10, <2>1, ReplyIsReplying
  <2>3. v \in Whys
    BY <1>7, <1>10, EndedWhys
  <2>4. /\ a \in Answers /\ a.why = v /\ a.admit = None /\ a.signin = Keep /\ a.session \in {Keep, Clear}
    BY <2>1, <2>3, EndedFields
  <2>5. calm => c = None \/ (c.deploy = deploy.key /\ c.bind = deploy.bind)
    BY <1>2, <1>4 DEF RequestInv, CookieInv
  <2>6. calm' => CalmInv(r, a)
    BY <1>2, <1>5, <1>7, <1>10, <2>4, <2>5 DEF CalmInv
  <2>7. a.why = "Idle" => r.session # None /\ r.at - r.session.last > IdleTimeout
    BY <1>2, <1>7, <2>4
  <2> QED BY <1>1, <1>5, <1>6, <1>7, <1>10, <2>2, <2>4, <2>6, <2>7, PlainReply
<1> QED BY <1>8, <1>9, <1>10

\* A refresh is granted: the realm renews the session of a cookie.
LEMMA RefreshMoves ==
    ASSUME SessionsInv, NEW t \in Tabs, NEW c \in Cookie, CookieInv(c), RefreshGood(c),
           realm' = Granted(c.grant, NextGen(c))
    PROVE  /\ RealmMoves(t) /\ c.grant \in Logins
           /\ NextGen(c) \in Nat /\ NextGen(c) <= Spent + 1 /\ (rotates => NextGen(c) = c.gen + 1)
           /\ realm[c.grant].st = "live"
           /\ realm'[c.grant].st = "live" /\ realm'[c.grant].gen = NextGen(c)
           /\ realm'[c.grant].until = now + RefreshLife
           /\ \A h \in Logins : h # c.grant => realm'[h] = realm[h]
<1>1. c.grant \in Logins /\ c.gen \in Nat /\ c.gen <= Spent /\ Spent \in Int
  BY CookieFields, LeftIsBounded DEF CookieInv, SessionsInv
<1>2. NextGen(c) \in Nat /\ NextGen(c) <= Spent + 1 /\ (rotates => NextGen(c) = c.gen + 1)
  BY <1>1 DEF NextGen
<1>3. realm[c.grant].st = "live"
  BY DEF RefreshGood
<1>4. PICK gen : gen = NextGen(c)
  OBVIOUS
<1>5. PICK g : g = c.grant
  OBVIOUS
<1>6. /\ RealmMoves(t)
      /\ realm'[g] = [st |-> "live", gen |-> gen, until |-> now + RefreshLife]
      /\ \A h \in Logins : h # g => realm'[h] = realm[h]
  BY <1>1, <1>2, <1>3, <1>4, <1>5, RealmGrants
<1> QED BY <1>1, <1>2, <1>3, <1>4, <1>5, <1>6

LEMMA RefreshedFields ==
    ASSUME TypedInv, NEW c \in Cookie, NEW at \in Nat, NEW issue \in Issues, NextGen(c) \in Nat,
           NEW d, d = Refreshed(c, at, issue)
    PROVE  /\ d \in Cookie /\ d.last = at /\ d.gen = NextGen(c) /\ d.access_exp = now + AccessLife
           /\ issue # "foreign" => d.own
           /\ d.refresh_exp \in {c.refresh_exp, at + RefreshLife}
           /\ issue # "untold" => d.refresh_exp = at + RefreshLife
           /\ d.deploy = c.deploy /\ d.bind = c.bind /\ d.grant = c.grant /\ d.born = c.born
<1>1. now + AccessLife \in Nat /\ at + RefreshLife \in Nat
  BY SessionConstants DEF TypedInv
<1>2. PICK e : e = refresh_exp(issue, at, c.refresh_exp)
  OBVIOUS
<1>3. e \in {c.refresh_exp, at + RefreshLife} /\ (issue # "untold" => e = at + RefreshLife)
  BY <1>2 DEF refresh_exp
<1>4. e \in Nat
  BY <1>1, <1>3, CookieFields
<1>5. PICK o : o = (issue # "foreign")
  OBVIOUS
<1>o. o \in BOOLEAN /\ (issue # "foreign" => o = TRUE)
  BY <1>5
<1>6. PICK gen : gen = NextGen(c)
  OBVIOUS
<1>7. PICK x : x = now + AccessLife
  OBVIOUS
<1>8. d = [c EXCEPT !.gen = gen, !.access_exp = x, !.own = o, !.refresh_exp = e, !.last = at]
  BY <1>2, <1>5, <1>6, <1>7 DEF Refreshed
<1>9. /\ d \in Cookie /\ d.last = at /\ d.gen = gen /\ d.access_exp = x /\ d.own = o /\ d.refresh_exp = e
      /\ d.deploy = c.deploy /\ d.bind = c.bind /\ d.grant = c.grant /\ d.born = c.born
  BY <1>1, <1>4, <1>o, <1>6, <1>7, <1>8 DEF Cookie
<1> QED BY <1>3, <1>o, <1>6, <1>7, <1>9

LEMMA RefreshRefusedStep ==
    ASSUME SessionsInv, surface = "host", UNCHANGED callback_path, NEW t \in Tabs, RefreshRefused(t)
    PROVE  SessionsInv'
<1>1. PICK r : r = tab[t]
  OBVIOUS
<1>2. PICK a : a = Ended("RefreshRefused")
  OBVIOUS
<1>3. TypedInv /\ r \in TabRecord /\ RequestInv(r) /\ r.session \in {None} \cup Cookie
  BY <1>1 DEF SessionsInv, TypedInv, TabInv, TabRecord
<1>4. /\ r.pc = "token" /\ r.kind = "resolve" /\ ~RefreshGood(r.session) /\ Reply(t, a) /\ realm' = realm
      /\ UNCHANGED <<surface, rotates, deploy, now, jar, left, calm, used, callback_path>>
  BY <1>1, <1>2 DEF RefreshRefused
<1>5. Works(t) /\ RealmMoves(t) /\ Replying(t, a)
  BY <1>1, <1>3, <1>4, RealmStill, ReplyIsReplying DEF Works
<1>6. /\ a \in Answers /\ a.why = "RefreshRefused" /\ a.admit = None /\ a.signin = Keep /\ a.session = Clear
  BY <1>2, EndedWhys, EndedFields
<1>7. ASSUME calm PROVE r.session = None \/ now >= r.session.refresh_exp
  <2>1. CASE r.session # None
    <3>1. PICK c : c = r.session
      OBVIOUS
    <3>2. c \in Cookie /\ c.grant \in Logins /\ c.refresh_exp \in Nat
      BY <1>3, <2>1, <3>1, CookieFields
    <3>3. Good(c)
      BY <1>1, <1>4, <1>7, <3>1, CalmRequest
    <3>4. realm[c.grant].until \in Nat /\ now \in Nat
      BY <1>3, <3>2, SessionConstants DEF TypedInv, RealmRecord
    <3>5. now >= realm[c.grant].until
      BY <1>4, <2>1, <3>1, <3>3, <3>4 DEF Good, RefreshGood
    <3> QED BY <2>1, <3>1, <3>2, <3>3, <3>4, <3>5 DEF Good
  <2> QED BY <2>1
<1>8. calm' => CalmInv(r, a)
  BY <1>4, <1>6, <1>7 DEF CalmInv
<1> QED BY <1>1, <1>4, <1>5, <1>6, <1>8, PlainReply

LEMMA RefreshUnavailableStep ==
    ASSUME SessionsInv, surface = "host", UNCHANGED callback_path, NEW t \in Tabs, NEW rotated,
           RefreshUnavailable(t, rotated)
    PROVE  SessionsInv'
<1>1. PICK r : r = tab[t]
  OBVIOUS
<1>2. PICK c : c = r.session
  OBVIOUS
<1>3. TypedInv /\ r \in TabRecord /\ RequestInv(r) /\ c \in {None} \cup Cookie /\ r.at \in Nat
  BY <1>1, <1>2, SessionConstants DEF SessionsInv, TypedInv, TabInv, TabRecord
<1>4. /\ r.pc = "token" /\ r.kind = "resolve" /\ Fault
      /\ rotated => RefreshGood(c)
      /\ realm' = IF rotated THEN Granted(c.grant, NextGen(c)) ELSE realm
      /\ Reply(t, IF r.at >= c.access_exp THEN Ended("Unavailable") ELSE Active(c, r.at, Stale(c, r.at)))
      /\ UNCHANGED <<surface, rotates, deploy, now, jar, used, callback_path>>
  BY <1>1, <1>2 DEF RefreshUnavailable
<1>5. c \in Cookie /\ r.at < c.refresh_exp /\ r.at - c.last <= IdleTimeout /\ CookieInv(c)
  BY <1>2, <1>3, <1>4 DEF RequestInv
<1>6. Works(t) /\ ~calm'
  BY <1>1, <1>4 DEF Works, Fault
<1>7. RealmMoves(t)
  <2>1. CASE rotated
    BY <1>4, <1>5, <2>1, RefreshMoves
  <2>2. CASE ~rotated
    BY <1>4, <2>2, RealmStill
  <2> QED BY <2>1, <2>2
<1>8. CASE r.at >= c.access_exp
  <2>1. PICK a : a = Ended("Unavailable")
    OBVIOUS
  <2>2. Replying(t, a)
    BY <1>3, <1>4, <1>8, <2>1, ReplyIsReplying
  <2>3. /\ a \in Answers /\ a.why = "Unavailable" /\ a.admit = None /\ a.signin = Keep /\ a.session = Keep
    BY <2>1, EndedWhys, EndedFields
  <2> QED BY <1>1, <1>6, <1>7, <2>2, <2>3, PlainReply
<1>9. CASE ~(r.at >= c.access_exp)
  <2>1. PICK a : a = Active(c, r.at, Stale(c, r.at))
    OBVIOUS
  <2>2. Replying(t, a)
    BY <1>3, <1>4, <1>9, <2>1, ReplyIsReplying
  <2>3. r.at <= c.access_exp /\ r.at <= c.refresh_exp
    BY <1>3, <1>5, <1>9, CookieFields
  <2> QED BY <1>1, <1>2, <1>5, <1>6, <1>7, <2>1, <2>2, <2>3, ActiveReply
<1> QED BY <1>8, <1>9

LEMMA RefreshGrantedStep ==
    ASSUME SessionsInv, surface = "host", UNCHANGED callback_path, NEW t \in Tabs, NEW issue \in Issues,
           RefreshGranted(t, issue)
    PROVE  SessionsInv'
<1>1. PICK r : r = tab[t]
  OBVIOUS
<1>2. PICK c : c = r.session
  OBVIOUS
<1>3. TypedInv /\ r \in TabRecord /\ RequestInv(r) /\ c \in {None} \cup Cookie /\ r.at \in Nat /\ r.at \in 0 .. MaxTime
  BY <1>1, <1>2, SessionConstants DEF SessionsInv, TypedInv, TabInv, TabRecord
<1>4. /\ r.pc = "token" /\ r.kind = "resolve" /\ RefreshGood(c)
      /\ realm' = Granted(c.grant, NextGen(c))
      /\ IF issue = "good" THEN UNCHANGED <<left, calm>> ELSE Fault
      /\ Reply(t, IF ~verified_access(issue) THEN Ended("RefreshRefused")
                  ELSE IF issue = "oversize" THEN Ended("Invalid")
                  ELSE Active(Refreshed(c, r.at, issue), r.at, TRUE))
      /\ UNCHANGED <<surface, rotates, deploy, now, jar, used, callback_path>>
  BY <1>1, <1>2 DEF RefreshGranted
<1>5. c \in Cookie /\ r.at < c.refresh_exp /\ r.at - c.last <= IdleTimeout /\ CookieInv(c) /\ c # None
  BY <1>2, <1>3, <1>4 DEF RequestInv
<1>6. Works(t) /\ (calm' => issue = "good" /\ calm)
  BY <1>1, <1>4 DEF Works, Fault
<1>7. /\ RealmMoves(t) /\ c.grant \in Logins
      /\ NextGen(c) \in Nat /\ NextGen(c) <= Spent + 1 /\ (rotates => NextGen(c) = c.gen + 1)
      /\ realm[c.grant].st = "live"
      /\ realm'[c.grant].st = "live" /\ realm'[c.grant].gen = NextGen(c)
      /\ realm'[c.grant].until = now + RefreshLife
      /\ \A h \in Logins : h # c.grant => realm'[h] = realm[h]
  BY <1>4, <1>5, RefreshMoves
<1>8. CASE issue \in {"foreign", "unverified", "oversize"}
  <2>1. PICK why : why = IF ~verified_access(issue) THEN "RefreshRefused" ELSE "Invalid"
    OBVIOUS
  <2>2. PICK a : a = Ended(why)
    OBVIOUS
  <2>3. Reply(t, a)
    BY <1>4, <1>8, <2>1, <2>2 DEF verified_access
  <2>4. Replying(t, a)
    BY <1>3, <2>3, ReplyIsReplying
  <2>5. why \in Whys /\ why \notin {"NoSession", "Unavailable", "Active", "login", "signed_in", "Idle"}
    BY <2>1, EndedWhys
  <2>6. /\ a \in Answers /\ a.why = why /\ a.admit = None /\ a.signin = Keep /\ a.session = Clear
    BY <2>2, <2>5, EndedFields
  <2>7. ~calm'
    BY <1>6, <1>8
  <2> QED BY <1>1, <1>6, <1>7, <2>4, <2>5, <2>6, <2>7, PlainReply
<1>9. CASE issue \in {"good", "untold"}
  <2>1. PICK d : d = Refreshed(c, r.at, issue)
    OBVIOUS
  <2>2. PICK e : e = Stamped(d, r.at)
    OBVIOUS
  <2>3. PICK a : a = Active(d, r.at, TRUE)
    OBVIOUS
  <2>4. Reply(t, a)
    BY <1>4, <1>9, <2>1, <2>3 DEF verified_access
  <2>5. Replying(t, a)
    BY <1>3, <2>4, ReplyIsReplying
  <2>6. /\ d \in Cookie /\ d.last = r.at /\ d.gen = NextGen(c) /\ d.access_exp = now + AccessLife
        /\ d.own /\ (issue = "good" => d.refresh_exp = r.at + RefreshLife)
        /\ d.deploy = c.deploy /\ d.bind = c.bind /\ d.grant = c.grant /\ d.born = c.born
    <3>1. issue # "foreign" /\ (issue = "good" => issue # "untold")
      BY <1>9
    <3>2. PICK at \in Nat : at = r.at
      BY <1>3
    <3>3. d = Refreshed(c, at, issue)
      BY <2>1, <3>2
    <3>4. /\ d \in Cookie /\ d.last = at /\ d.gen = NextGen(c) /\ d.access_exp = now + AccessLife
          /\ issue # "foreign" => d.own
          /\ issue # "untold" => d.refresh_exp = at + RefreshLife
          /\ d.deploy = c.deploy /\ d.bind = c.bind /\ d.grant = c.grant /\ d.born = c.born
      <4>1. TypedInv /\ c \in Cookie /\ at \in Nat /\ NextGen(c) \in Nat
        BY <1>3, <1>5, <1>7, <3>2
      <4> QED BY <3>3, <4>1, RefreshedFields
    <3> QED BY <3>1, <3>2, <3>4
  <2>7. /\ e \in Cookie /\ e.last = r.at /\ e.gen = d.gen /\ e.access_exp = d.access_exp
        /\ e.own = d.own /\ e.refresh_exp = d.refresh_exp
        /\ e.deploy = d.deploy /\ e.bind = d.bind /\ e.grant = d.grant /\ e.born = d.born
    <3>1. d \in Cookie /\ r.at \in Nat
      BY <1>3, <2>6
    <3> QED BY <2>2, <3>1, StampedFields
  <2>8. a = [why |-> "Active", admit |-> d, session |-> e, signin |-> Keep]
    BY <2>2, <2>3 DEF Active, Answer, Stamped
  <2>9. a \in Answers /\ a.why = "Active" /\ a.admit = d /\ a.session = e /\ a.signin = Keep
    BY <2>6, <2>7, <2>8, EndedWhys DEF Answers
  <2>10. TypedInv' /\ Advance /\ Spent' = Spent + 1 /\ Spent \in Int
    BY <1>6, <1>7, <2>5, <2>9, ReplyAdvances
  <2>11. /\ r.at <= now /\ c.born <= now /\ surface' = "host" /\ now' = now /\ now \in Nat
         /\ calm => c.deploy = deploy.key /\ c.bind = deploy.bind
    BY <1>3, <1>4, <1>5, SessionConstants DEF RequestInv, CookieInv, TypedInv
  <2>12. CookieInv(d)'
    <3>1. d.gen <= Spent' /\ d.born <= now' /\ d.last <= now' /\ d.access_exp <= now' + AccessLife
      BY <1>7, <2>6, <2>10, <2>11, SessionConstants
    <3>2. realm'[d.grant].st = "live"
      BY <1>7, <2>6
    <3>3. calm' => d.deploy = deploy'.key /\ d.bind = deploy'.bind
      BY <1>4, <1>6, <2>6, <2>11
    <3> QED BY <2>6, <3>1, <3>2, <3>3 DEF CookieInv
  <2>13. CookieInv(e)'
    BY <2>6, <2>7, <2>12 DEF CookieInv
  <2>14. AdmitInv(r, a)'
    <3>1. r.at <= d.access_exp + 0 /\ r.at <= c.refresh_exp + 0
      BY <1>3, <1>5, <2>6, <2>11, SessionConstants, CookieFields
    <3> QED BY <1>2, <1>3, <1>5, <2>6, <2>7, <2>9, <2>11, <3>1, Values DEF AdmitInv, Leeway
  <2>15. AnswerInv(r, a)'
    <3>1. CalmInv(r, a)'
      BY <2>9 DEF CalmInv
    <3>2. d # None /\ e \in Cookie /\ Keep \notin SignIn
      BY <2>6, <2>7, Values
    <3> QED BY <2>9, <2>12, <2>13, <2>14, <3>1, <3>2 DEF AnswerInv
  <2>16. ASSUME calm' PROVE Good(Merge(jar.session, a.session))'
    <3>1. r.at + RefreshLife <= now + RefreshLife
      BY <1>3, <2>11, SessionConstants
    <3>2. Good(e)'
      BY <1>6, <1>7, <2>6, <2>7, <2>16, <3>1 DEF Good
    <3> QED BY <2>7, <2>9, <3>2, Values DEF Merge
  <2> QED BY <1>1, <1>6, <1>7, <2>5, <2>9, <2>15, <2>16, Replied
<1> QED BY <1>8, <1>9 DEF Issues

LEMMA OtherWhys ==
  /\ "login" \in Whys /\ "not_followed" \in Whys /\ "sign_in" \in Whys /\ "no_state" \in Whys
  /\ "tokens" \in Whys /\ "code_refused" \in Whys /\ "unavailable" \in Whys /\ "exchange_failed" \in Whys
  /\ "signed_in" \in Whys /\ "cross_site" \in Whys /\ "signed_out" \in Whys /\ "unauthorized" \in Whys
  /\ "session_expired" \in Whys
BY DEF Whys

LEMMA LoginStep ==
    ASSUME SessionsInv, surface = "host", UNCHANGED callback_path, NEW t \in Tabs, login(t)
    PROVE  SessionsInv'
<1>1. PICK r : r = tab[t]
  OBVIOUS
<1>2. PICK n : n = Fresh
  OBVIOUS
<1>3. PICK a : a = Redirect(n)
  OBVIOUS
<1>4. /\ r.pc = "sent" /\ r.kind = "login" /\ Reply(t, a)
      /\ IF n = 0 THEN UNCHANGED realm ELSE Begun(n)
      /\ UNCHANGED <<surface, rotates, deploy, now, jar, left, calm, used, callback_path>>
  BY <1>1, <1>2, <1>3 DEF login
<1>5. TypedInv /\ Works(t) /\ Replying(t, a)
  BY <1>1, <1>4, ReplyIsReplying DEF SessionsInv, Works
<1>6. n \in {0} \cup Logins /\ (n # 0 => realm[n].st = "new")
  BY <1>2, FreshIsNew
<1>7. CASE n = 0
  <2>1. realm' = realm /\ RealmMoves(t)
    BY <1>4, <1>7, RealmStill
  <2>2. a = Answer("not_followed", None, Keep, Keep)
    BY <1>3, <1>7 DEF Redirect
  <2>3. /\ a \in Answers /\ a.why = "not_followed" /\ a.admit = None
        /\ a.session = Keep /\ a.signin = Keep
    BY <2>2, OtherWhys DEF Answer, Answers
  <2>4. CalmInv(r, a)
    BY <2>3 DEF CalmInv
  <2> QED BY <1>1, <1>5, <2>1, <2>3, <2>4, PlainReply
<1>8. CASE n # 0
  <2>1. n \in Logins /\ realm[n].st = "new" /\ realm \in [Logins -> RealmRecord]
        /\ realm' = [realm EXCEPT ![n].st = "begun"]
    BY <1>4, <1>5, <1>6, <1>8 DEF Begun, TypedInv
  <2>2. /\ RealmMoves(t) /\ realm'[n].st = "begun"
        /\ \A h \in Logins : h # n => realm'[h] = realm[h]
    BY <2>1, RealmBegins
  <2>3. a = Answer("login", None, Keep, [deploy |-> deploy.key, login |-> n, at |-> now])
    BY <1>3, <1>8 DEF Redirect
  <2> QED BY <1>5, <2>1, <2>2, <2>3, LoginReply
<1> QED BY <1>7, <1>8

LEMMA CallbackStep ==
    ASSUME SessionsInv, surface = "host", UNCHANGED callback_path, NEW t \in Tabs, callback(t)
    PROVE  SessionsInv'
<1>1. PICK r : r = tab[t]
  OBVIOUS
<1>2. PICK s : s = r.signin
  OBVIOUS
<1>3. TypedInv /\ r \in TabRecord /\ RequestInv(r) /\ s \in {None} \cup SignIn /\ r.at \in Nat
  BY <1>1, <1>2, SessionConstants DEF SessionsInv, TypedInv, TabInv, TabRecord
<1>4. /\ r.pc = "sent" /\ r.kind = "callback" /\ realm' = realm
      /\ IF SignInOk(s, r.at, r.login) THEN tab' = [tab EXCEPT ![t].pc = "token"]
         ELSE Reply(t, fail("sign_in"))
      /\ UNCHANGED <<surface, rotates, deploy, now, jar, left, calm, used, callback_path>>
  BY <1>1, <1>2 DEF callback
<1>5. Works(t) /\ RealmMoves(t)
  BY <1>1, <1>4, RealmStill DEF Works
<1>6. CASE SignInOk(s, r.at, r.login)
  <2>1. PICK k : k = GoingOn(r, r.login)
    OBVIOUS
  <2>2. /\ k.pc = "token" /\ k.kind = "callback" /\ k.at = r.at /\ k.login = r.login
        /\ k.session = r.session /\ k.signin = s
    <3>1. r.login \in 0 .. MaxLogins
      BY <1>3 DEF TabRecord
    <3>2. /\ k.pc = "token" /\ k.login = r.login /\ k.kind = r.kind /\ k.at = r.at
          /\ k.session = r.session /\ k.signin = r.signin
      BY <1>3, <2>1, <3>1, GoingOnFields
    <3> QED BY <1>2, <1>4, <3>2
  <2>3. s # None /\ s.login = r.login
    BY <1>6 DEF SignInOk, opens
  <2>4. RequestInv(k)
    BY <1>2, <1>3, <1>4, <2>2, <2>3 DEF RequestInv, Pages
  <2> QED BY <1>1, <1>4, <1>5, <1>6, <2>1, <2>4, CallsRealm
<1>7. CASE ~SignInOk(s, r.at, r.login)
  <2>1. PICK a : a = fail("sign_in")
    OBVIOUS
  <2>2. Replying(t, a)
    BY <1>3, <1>4, <1>7, <2>1, ReplyIsReplying
  <2>3. /\ a \in Answers /\ a.why = "sign_in" /\ a.admit = None
        /\ a.session = Keep /\ a.signin = Clear
    BY <2>1, OtherWhys DEF fail, Answer, Answers
  <2>4. ASSUME calm, s # None, s.login = r.login PROVE r.at - s.at > SignInTtl
    <3>1. s.deploy = deploy.key
      BY <1>2, <1>3, <2>4 DEF RequestInv, SignInInv
    <3>2. ~(r.at - s.at <= SignInTtl)
      BY <1>7, <2>4, <3>1 DEF SignInOk, opens
    <3>3. s.at \in Nat /\ SignInTtl \in Nat
      BY <1>3, <2>4, HostConstants DEF SignIn
    <3> QED BY <1>3, <3>2, <3>3
  <2>5. calm' => CalmInv(r, a)
    BY <1>2, <1>4, <2>3, <2>4 DEF CalmInv
  <2> QED BY <1>1, <1>4, <1>5, <2>2, <2>3, <2>5, PlainReply
<1> QED BY <1>6, <1>7

\* A code that waits at the token endpoint is one of a sign-in of its tab.
LEMMA CodeWaits ==
    ASSUME SessionsInv, NEW t \in Tabs, NEW r, r = tab[t], r.pc = "token", r.kind = "callback"
    PROVE  /\ r.login \in Logins /\ r.login = Claim(r) /\ realm[r.login].st = "code"
           /\ r.signin \in SignIn /\ r.signin.login = r.login
           /\ CodeGood(r.login, r.signin.login)
<1>1. r \in TabRecord /\ RequestInv(r)
  BY DEF SessionsInv, TypedInv, TabInv
<1>2. InSignIn(r)
  BY DEF InSignIn
<1>3. r.login # 0 /\ Claim(r) = r.login
  BY <1>2 DEF SessionsInv, SigningIn, Claim
<1>4. r.login \in Logins
  BY <1>1, <1>3 DEF TabRecord, Logins
<1>5. realm[r.login].st = "code"
  BY <1>3 DEF SessionsInv, ClaimsInv
<1>6. r.signin \in SignIn /\ r.signin.login = r.login
  BY <1>1 DEF RequestInv, TabRecord
<1> QED BY <1>3, <1>4, <1>5, <1>6 DEF CodeGood

LEMMA CodeRefusedStep ==
    ASSUME SessionsInv, NEW t \in Tabs, CodeRefused(t)
    PROVE  SessionsInv'
<1>1. CodeGood(tab[t].login, tab[t].signin.login)
  BY CodeWaits DEF CodeRefused
<1> QED BY <1>1 DEF CodeRefused

LEMMA CodeUnavailableStep ==
    ASSUME SessionsInv, surface = "host", UNCHANGED callback_path, NEW t \in Tabs, CodeUnavailable(t)
    PROVE  SessionsInv'
<1>1. PICK r : r = tab[t]
  OBVIOUS
<1>2. PICK a : a = fail("unavailable")
  OBVIOUS
<1>3. /\ r.pc = "token" /\ Fault /\ Reply(t, a) /\ realm' = realm
      /\ UNCHANGED <<surface, rotates, deploy, now, jar, used, callback_path>>
  BY <1>1, <1>2 DEF CodeUnavailable
<1>4. Works(t) /\ RealmMoves(t) /\ Replying(t, a) /\ ~calm'
  BY <1>1, <1>3, RealmStill, ReplyIsReplying DEF Works, SessionsInv, Fault
<1>5. /\ a \in Answers /\ a.why = "unavailable" /\ a.admit = None
      /\ a.session = Keep /\ a.signin = Clear
  BY <1>2, OtherWhys DEF fail, Answer, Answers
<1> QED BY <1>1, <1>4, <1>5, PlainReply

LEMMA LogoutStep ==
    ASSUME SessionsInv, surface = "host", UNCHANGED callback_path, NEW t \in Tabs, NEW crossSite,
           logout(t, crossSite)
    PROVE  SessionsInv'
<1>1. PICK r : r = tab[t]
  OBVIOUS
<1>2. PICK c : c = r.session
  OBVIOUS
<1>3. TypedInv /\ r \in TabRecord /\ RequestInv(r)
  BY <1>1 DEF SessionsInv, TypedInv, TabInv
<1>4. /\ r.pc = "sent" /\ r.kind = "logout" /\ realm' = realm
      /\ \/ Reply(t, Answer("cross_site", None, Keep, Keep))
         \/ c # None /\ tab' = [tab EXCEPT ![t].pc = "token"]
         \/ Reply(t, Answer("signed_out", None, Clear, Keep))
      /\ UNCHANGED <<surface, rotates, deploy, now, jar, left, calm, used, callback_path>>
  BY <1>1, <1>2 DEF logout, opens
<1>5. Works(t) /\ RealmMoves(t)
  BY <1>1, <1>4, RealmStill DEF Works
<1>6. CASE c # None /\ tab' = [tab EXCEPT ![t].pc = "token"]
  <2>1. PICK k : k = GoingOn(r, r.login)
    OBVIOUS
  <2>2. /\ k.pc = "token" /\ k.kind = "logout" /\ k.at = r.at /\ k.login = r.login
        /\ k.session = c /\ k.signin = r.signin
    <3>1. r.login \in 0 .. MaxLogins
      BY <1>3 DEF TabRecord
    <3>2. /\ k.pc = "token" /\ k.login = r.login /\ k.kind = r.kind /\ k.at = r.at
          /\ k.session = r.session /\ k.signin = r.signin
      BY <1>3, <2>1, <3>1, GoingOnFields
    <3> QED BY <1>2, <1>4, <3>2
  <2>3. RequestInv(k)
    BY <1>2, <1>3, <1>4, <1>6, <2>2 DEF RequestInv, Pages
  <2> QED BY <1>1, <1>4, <1>5, <1>6, <2>1, <2>3, CallsRealm
<1>7. CASE \E why \in {"cross_site", "signed_out"}, session \in {Keep, Clear} :
             Reply(t, Answer(why, None, session, Keep))
  <2>1. PICK why \in {"cross_site", "signed_out"}, session \in {Keep, Clear} :
          Reply(t, Answer(why, None, session, Keep))
    BY <1>7
  <2>2. PICK a : a = Answer(why, None, session, Keep)
    OBVIOUS
  <2>3. Replying(t, a)
    BY <1>3, <2>1, <2>2, ReplyIsReplying
  <2>4. a \in Answers /\ a.why = why /\ a.admit = None /\ a.session = session /\ a.signin = Keep
    BY <2>2, OtherWhys DEF Answer, Answers
  <2>5. CalmInv(r, a)
    BY <2>4 DEF CalmInv
  <2> QED BY <1>1, <1>4, <1>5, <2>3, <2>4, <2>5, PlainReply
<1> QED BY <1>4, <1>6, <1>7

LEMMA RealmLogoutStep ==
    ASSUME SessionsInv, surface = "host", UNCHANGED callback_path, NEW t \in Tabs, NEW told,
           RealmLogout(t, told)
    PROVE  SessionsInv'
<1>1. PICK r : r = tab[t]
  OBVIOUS
<1>2. PICK c : c = r.session
  OBVIOUS
<1>3. PICK a : a = Answer("signed_out", None, Clear, Keep)
  OBVIOUS
<1>4. TypedInv /\ r \in TabRecord /\ RequestInv(r) /\ c \in {None} \cup Cookie
  BY <1>1, <1>2 DEF SessionsInv, TypedInv, TabInv, TabRecord
<1>5. /\ r.pc = "token" /\ r.kind = "logout" /\ Reply(t, a)
      /\ IF told THEN UNCHANGED <<left, calm>> ELSE Fault
      /\ IF told /\ RefreshGood(c) THEN realm' = RealmEnded(c.grant) ELSE UNCHANGED realm
      /\ UNCHANGED <<surface, rotates, deploy, now, jar, used, callback_path>>
  BY <1>1, <1>2, <1>3 DEF RealmLogout
<1>6. Works(t) /\ Replying(t, a)
  BY <1>1, <1>4, <1>5, ReplyIsReplying DEF Works
<1>7. RealmMoves(t)
  <2>1. CASE told /\ RefreshGood(c)
    <3>1. c \in Cookie
      BY <1>2, <1>4, <1>5 DEF RequestInv
    <3>2. c.grant \in Logins /\ realm[c.grant].st = "live" /\ realm' = RealmEnded(c.grant)
      BY <1>5, <2>1, <3>1, CookieFields DEF RefreshGood
    <3> QED BY <3>2, RealmEnding
  <2>2. CASE ~(told /\ RefreshGood(c))
    BY <1>5, <2>2, RealmStill
  <2> QED BY <2>1, <2>2
<1>8. /\ a \in Answers /\ a.why = "signed_out" /\ a.admit = None /\ a.session = Clear /\ a.signin = Keep
  BY <1>3, OtherWhys DEF Answer, Answers
<1>9. CalmInv(r, a)
  BY <1>8 DEF CalmInv
<1> QED BY <1>1, <1>6, <1>7, <1>8, <1>9, PlainReply

\* The record of a session that began just now.
Begins(c, g) ==
  /\ c.deploy = deploy.key /\ c.bind = deploy.bind /\ c.grant = g /\ c.gen = 0
  /\ c.access_exp = now + AccessLife /\ c.last = now /\ c.refresh_exp = now + RefreshLife
  /\ c.born = now /\ (surface = "host" => c.own)

\* The code of a tab's sign-in is exchanged.
Exchanged(g) == realm' = Granted(g, 0)
LEMMA CodeMoves ==
    ASSUME SessionsInv, NEW t \in Tabs, NEW g \in Logins, realm[g].st = "code", g = Claim(tab[t]),
           Exchanged(g)
    PROVE  /\ RealmMoves(t) /\ Spent \in Int /\ Spent >= 0
           /\ realm'[g].st = "live" /\ realm'[g].gen = 0 /\ realm'[g].until = now + RefreshLife
<1>1. Spent \in Int /\ realm[g].gen \in Nat /\ realm[g].gen <= Spent
  BY LeftIsBounded DEF SessionsInv, TypedInv, RealmRecord
<1>2. Spent >= 0 /\ 0 <= Spent + 1
  BY <1>1
<1>3. RealmMoves(t) /\ realm'[g] = [st |-> "live", gen |-> 0, until |-> now + RefreshLife]
  BY <1>2, RealmGrants DEF Exchanged
<1> QED BY <1>1, <1>2, <1>3

LEMMA SessionBegins ==
    ASSUME SessionsInv, NEW t \in Tabs, Works(t), NEW r, r = tab[t], r.pc = "token", r.kind = "callback",
           Exchanged(r.login), NEW c \in Cookie, NEW d \in Cookie, Begins(c, r.login), Begins(d, r.login),
           NEW a, a = Answer("signed_in", c, d, Clear), Replying(t, a)
    PROVE  SessionsInv'
<1>1. PICK n : n = r.login
  OBVIOUS
<1>2. n \in Logins /\ realm[n].st = "code" /\ n = Claim(tab[t]) /\ Exchanged(n)
  BY <1>1, CodeWaits
<1>3. /\ RealmMoves(t) /\ Spent \in Int /\ Spent >= 0
      /\ realm'[n].st = "live" /\ realm'[n].gen = 0 /\ realm'[n].until = now + RefreshLife
  BY <1>2, CodeMoves
<1>5. a = [why |-> "signed_in", admit |-> c, session |-> d, signin |-> Clear]
  BY DEF Answer
<1>6. a.why = "signed_in" /\ a.admit = c /\ a.session = d /\ a.signin = Clear
  BY <1>5
<1>7. a \in Answers
  BY <1>5, OtherWhys DEF Answers
<1>8. TypedInv' /\ Advance /\ Spent' = Spent + 1
  BY <1>3, <1>7, ReplyAdvances
<1>9. /\ surface' = surface /\ now' = now /\ deploy' = deploy /\ rotates' = rotates
      /\ now \in Nat /\ AccessLife \in Nat
  BY SessionConstants DEF Works, SessionsInv, TypedInv
<1>10. ASSUME NEW e, Begins(e, n) PROVE CookieInv(e)' /\ Good(e)'
  <2>1. /\ e.deploy = deploy'.key /\ e.bind = deploy'.bind /\ e.grant = n /\ e.gen = 0
        /\ e.access_exp = now' + AccessLife /\ e.last = now' /\ e.refresh_exp = now' + RefreshLife
        /\ e.born = now' /\ (surface' = "host" => e.own)
    BY <1>9, <1>10 DEF Begins
  <2>2. e.gen <= Spent' /\ e.born <= now' /\ e.last <= now' /\ e.access_exp <= now' + AccessLife
    BY <1>3, <1>8, <1>9, <2>1
  <2>3. CookieInv(e)'
    BY <1>3, <2>1, <2>2 DEF CookieInv
  <2>4. now' + RefreshLife <= realm'[n].until
    BY <1>3, <1>9, SessionConstants
  <2>5. Good(e)'
    BY <1>3, <2>1, <2>4 DEF Good
  <2> QED BY <2>3, <2>5
<1>11. CookieInv(c)' /\ CookieInv(d)' /\ Good(d)'
  BY <1>1, <1>10
<1>12. d.last = d.born
  BY DEF Begins
<1>13. AnswerInv(r, a)'
  BY <1>6, <1>11, <1>12, Values DEF AnswerInv, CalmInv
<1>14. Good(Merge(jar.session, a.session))'
  BY <1>6, <1>11, Values DEF Merge
<1> QED BY <1>3, <1>6, <1>7, <1>13, <1>14, Replied

LEMMA CodeGrantedStep ==
    ASSUME SessionsInv, surface = "host", UNCHANGED callback_path, NEW t \in Tabs, NEW issue \in Issues,
           CodeGranted(t, issue)
    PROVE  SessionsInv'
<1>1. PICK r : r = tab[t]
  OBVIOUS
<1>2. PICK c : c = new_record(r.login, Forever)
  OBVIOUS
<1>3. TypedInv
  BY DEF SessionsInv
<1>4. /\ r.pc = "token" /\ r.kind = "callback" /\ Exchanged(r.login)
      /\ IF issue = "good" THEN UNCHANGED <<left, calm>> ELSE Fault
      /\ Reply(t, IF issue = "good" THEN Answer("signed_in", c, c, Clear) ELSE fail("tokens"))
      /\ UNCHANGED <<surface, rotates, deploy, now, jar, used, callback_path>>
  BY <1>1, <1>2 DEF CodeGranted, Exchanged
<1>5. Works(t) /\ (issue # "good" => ~calm')
  BY <1>1, <1>4 DEF Works, Fault
<1>6. r.login \in Logins /\ r.login = Claim(tab[t]) /\ realm[r.login].st = "code"
  BY <1>1, <1>4, CodeWaits
<1>7. CASE issue = "good"
  <2>1. PICK a : a = Answer("signed_in", c, c, Clear)
    OBVIOUS
  <2>2. Replying(t, a)
    BY <1>3, <1>4, <1>7, <2>1, ReplyIsReplying
  <2>3. c \in Cookie /\ Begins(c, r.login)
    <3>1. now \in Nat /\ deploy.key \in Nat /\ deploy.bind \in Nat /\ MaxTime + 1 \in Nat
          /\ now + AccessLife \in Nat /\ now + RefreshLife \in Nat
      BY <1>3, SessionConstants DEF TypedInv
    <3>2. PICK x \in Nat : x = now + AccessLife
      BY <3>1
    <3>3. PICK y \in Nat : y = now + RefreshLife
      BY <3>1
    <3>4. PICK z \in Nat : z = MaxTime + 1
      BY <3>1
    <3>5. c = [deploy |-> deploy.key, bind |-> deploy.bind, grant |-> r.login, gen |-> 0, own |-> TRUE,
               access_exp |-> x, last |-> now, refresh_exp |-> y, until |-> z, born |-> now]
      BY <1>2, <3>2, <3>3, <3>4 DEF new_record, Forever
    <3>6. c \in Cookie
      BY <1>6, <3>1, <3>2, <3>3, <3>4, <3>5 DEF Cookie
    <3>7. /\ c.deploy = deploy.key /\ c.bind = deploy.bind /\ c.grant = r.login /\ c.gen = 0
          /\ c.access_exp = x /\ c.last = now /\ c.refresh_exp = y /\ c.born = now
      BY <3>5
    <3>8. c.own
      BY <3>5
    <3> QED BY <3>2, <3>3, <3>6, <3>7, <3>8 DEF Begins
  <2> QED BY <1>1, <1>4, <1>5, <2>1, <2>2, <2>3, SessionBegins
<1>8. CASE issue # "good"
  <2>1. PICK a : a = fail("tokens")
    OBVIOUS
  <2>2. Replying(t, a)
    BY <1>3, <1>4, <1>8, <2>1, ReplyIsReplying
  <2>3. /\ a \in Answers /\ a.why = "tokens" /\ a.admit = None
        /\ a.session = Keep /\ a.signin = Clear
    BY <2>1, OtherWhys DEF fail, Answer, Answers
  <2>4. RealmMoves(t)
    BY <1>4, <1>6, CodeMoves
  <2> QED BY <1>1, <1>5, <1>8, <2>2, <2>3, <2>4, PlainReply
<1> QED BY <1>7, <1>8

-----------------------------------------------------------------------------
(* The browser layer.                                                      *)

\* What a refresh, or nothing, leaves of the realm's records.
Renews(R) ==
  /\ R \in [Logins -> RealmRecord]
  /\ \A g \in Logins : R[g] = realm[g] \/ (realm[g].st = "live" /\ R[g].st = "live")
  /\ \A g \in Logins : R[g].gen <= Spent + 1

LEMMA RealmRenews ==
    ASSUME NEW t \in Tabs, NEW R, Renews(R), realm' = R
    PROVE  RealmMoves(t)
BY DEF Renews, RealmMoves, Moves

LEMMA RenewedThenBegins ==
    ASSUME NEW t \in Tabs, NEW R, Renews(R), NEW n \in Logins, realm[n].st = "new",
           realm' = [R EXCEPT ![n].st = "begun"], Spent \in Int
    PROVE  RealmMoves(t) /\ realm'[n].st = "begun" /\ \A h \in Logins : h # n => realm'[h] = R[h]
<1>1. R \in [Logins -> RealmRecord] /\ R[n] = realm[n]
  BY DEF Renews
<1>2. PICK old : old = R[n]
  OBVIOUS
<1>3. PICK new : new = [old EXCEPT !.st = "begun"]
  OBVIOUS
<1>4. new \in RealmRecord /\ new.gen = old.gen /\ new.st = "begun"
  BY <1>1, <1>2, <1>3 DEF RealmRecord
<1>5. realm' = [R EXCEPT ![n] = new]
  BY <1>1, <1>2, <1>3 DEF RealmRecord
<1>6. realm'[n] = new /\ \A h \in Logins : h # n => realm'[h] = R[h]
  BY <1>1, <1>5
<1>7. realm' \in [Logins -> RealmRecord]
  BY <1>1, <1>4, <1>5
<1>8. \A h \in Logins : realm'[h].gen <= Spent + 1
  BY <1>2, <1>4, <1>6 DEF Renews
<1>9. Moves(t)
  BY <1>4, <1>6 DEF Moves, Renews
<1> QED BY <1>4, <1>6, <1>7, <1>8, <1>9 DEF RealmMoves

LEMMA NothingRenewed ==
    ASSUME SessionsInv
    PROVE  Renews(realm) /\ Spent \in Int
<1>1. TypedInv /\ Spent \in Int /\ \A g \in Logins : realm[g].gen <= Spent /\ realm[g].gen \in Nat
  BY LeftIsBounded DEF SessionsInv, TypedInv, RealmRecord
<1> QED BY <1>1 DEF Renews, TypedInv

LEMMA GrantRenews ==
    ASSUME SessionsInv, NEW c \in Cookie, CookieInv(c), RefreshGood(c)
    PROVE  Renews(Granted(c.grant, NextGen(c)))
<1>1. c.grant \in Logins /\ c.gen \in Nat /\ c.gen <= Spent /\ Spent \in Int
  BY CookieFields, LeftIsBounded DEF CookieInv, SessionsInv
<1>2. NextGen(c) \in Nat /\ NextGen(c) <= Spent + 1 /\ realm[c.grant].st = "live"
  BY <1>1 DEF NextGen, RefreshGood
<1>3. PICK gen : gen = NextGen(c)
  OBVIOUS
<1>4. PICK g : g = c.grant
  OBVIOUS
<1>5. PICK new : new = [st |-> "live", gen |-> gen, until |-> now + RefreshLife]
  OBVIOUS
<1>6. now + RefreshLife \in Nat
  BY SessionConstants DEF SessionsInv, TypedInv
<1>7. new \in RealmRecord /\ new.gen = gen /\ new.st = "live"
  BY <1>2, <1>3, <1>5, <1>6 DEF RealmRecord
<1>8. PICK R : R = [realm EXCEPT ![g] = new]
  OBVIOUS
<1>9. Granted(c.grant, NextGen(c)) = R
  BY <1>3, <1>4, <1>5, <1>8 DEF Granted
<1>10. Renews(realm)
  BY NothingRenewed
<1>11. R \in [Logins -> RealmRecord] /\ R[g] = new /\ \A h \in Logins : h # g => R[h] = realm[h]
  BY <1>1, <1>4, <1>7, <1>8, <1>10 DEF Renews
<1>12. \A h \in Logins : R[h] = realm[h] \/ (realm[h].st = "live" /\ R[h].st = "live")
  BY <1>2, <1>4, <1>7, <1>11
<1>13. \A h \in Logins : R[h].gen <= Spent + 1
  BY <1>2, <1>3, <1>7, <1>10, <1>11 DEF Renews
<1> QED BY <1>9, <1>11, <1>12, <1>13 DEF Renews

LEMMA ToLoginStep ==
    ASSUME SessionsInv, NEW t \in Tabs, Works(t), tab[t].kind \in Pages,
           NEW R, Renews(R), calm' => R = realm, ToLogin(t, R)
    PROVE  SessionsInv'
<1>1. PICK r : r = tab[t]
  OBVIOUS
<1>2. PICK n : n = Fresh
  OBVIOUS
<1>3. PICK a : a = redirect_to_login(t, n)
  OBVIOUS
<1>4. TypedInv /\ r.kind \in Pages /\ Spent \in Int
  BY <1>1, NothingRenewed DEF SessionsInv
<1>5. Replying(t, a) /\ realm' = IF r.kind = "page" /\ n # 0 THEN [R EXCEPT ![n].st = "begun"] ELSE R
  BY <1>1, <1>2, <1>3, <1>4, ReplyIsReplying DEF ToLogin
<1>6. n \in {0} \cup Logins /\ (n # 0 => realm[n].st = "new")
  BY <1>2, FreshIsNew
<1>7. CASE r.kind = "page" /\ n # 0
  <2>1. a = Answer("login", None, Keep, [deploy |-> deploy.key, login |-> n, at |-> now])
    BY <1>1, <1>3, <1>7 DEF redirect_to_login
  <2>2. n \in Logins /\ realm[n].st = "new" /\ realm' = [R EXCEPT ![n].st = "begun"]
    BY <1>5, <1>6, <1>7
  <2>3. RealmMoves(t) /\ realm'[n].st = "begun" /\ \A h \in Logins : h # n => realm'[h] = R[h]
    BY <1>4, <2>2, RenewedThenBegins
  <2>4. calm' => \A h \in Logins : h # n => realm'[h] = realm[h]
    BY <2>3
  <2> QED BY <1>5, <2>1, <2>2, <2>3, <2>4, LoginReply
<1>8. CASE r.kind = "fetch" \/ n = 0
  <2>1. realm' = R
    BY <1>5, <1>8
  <2>2. RealmMoves(t)
    BY <2>1, RealmRenews
  <2>3. PICK why \in {"unauthorized", "not_followed"} : a = Answer(why, None, Keep, Keep)
    BY <1>1, <1>3, <1>4, <1>8 DEF redirect_to_login
  <2>4. why \in Whys
    BY <2>3, OtherWhys
  <2>5. a \in Answers /\ a.why = why /\ a.admit = None /\ a.session = Keep /\ a.signin = Keep
    BY <2>3, <2>4, PlainFields
  <2>6. CalmInv(r, a)
    BY <2>3, <2>5 DEF CalmInv
  <2>7. a.why \notin {"Active", "login", "signed_in", "Idle"}
    BY <2>3, <2>5
  <2> QED BY <1>1, <1>5, <2>1, <2>2, <2>5, <2>6, <2>7, PlainReply
<1> QED BY <1>4, <1>7, <1>8 DEF Pages

LEMMA SessionExpiredStep ==
    ASSUME SessionsInv, NEW t \in Tabs, Works(t), tab[t].kind \in Pages,
           NEW R, Renews(R), calm' => R = realm, SessionExpired(t, R),
           NEW r, r = tab[t], calm' => r.session = None \/ now >= r.session.refresh_exp
    PROVE  SessionsInv'
<1>1. CASE r.kind # "fetch"
  BY <1>1, ToLoginStep DEF SessionExpired
<1>2. CASE r.kind = "fetch"
  <2>1. PICK a : a = Answer("session_expired", None, Keep, Keep)
    OBVIOUS
  <2>2. Reply(t, a) /\ realm' = R
    BY <1>2, <2>1 DEF SessionExpired
  <2>3. Replying(t, a) /\ RealmMoves(t)
    BY <2>2, RealmRenews, ReplyIsReplying DEF SessionsInv
  <2>4. a \in Answers /\ a.why = "session_expired" /\ a.admit = None /\ a.session = Keep /\ a.signin = Keep
    BY <2>1, OtherWhys, PlainFields
  <2>5. calm' => CalmInv(r, a)
    BY <2>4 DEF CalmInv
  <2> QED BY <2>2, <2>3, <2>4, <2>5, PlainReply
<1> QED BY <1>1, <1>2

\* The session's own cookie admits the request.
LEMMA KeepReply ==
    ASSUME SessionsInv, NEW t \in Tabs, Works(t), RealmMoves(t), surface = "browser",
           NEW r, r = tab[t], NEW c \in Cookie, c = r.session, c.own,
           r.at <= c.access_exp + ClockSkew, r.at <= c.refresh_exp + ClockSkew,
           NEW a, a = Answer("Active", c, Keep, Keep), Replying(t, a), calm' => realm' = realm
    PROVE  SessionsInv'
<1>1. TypedInv /\ r \in TabRecord /\ RequestInv(r) /\ c # None
  BY Values DEF SessionsInv, TypedInv, TabInv
<1>2. a = [why |-> "Active", admit |-> c, session |-> Keep, signin |-> Keep]
  BY DEF Answer
<1>3. a.why = "Active" /\ a.admit = c /\ a.session = Keep /\ a.signin = Keep
  BY <1>2
<1>4. a \in Answers
  BY <1>2, EndedWhys DEF Answers
<1>5. TypedInv' /\ Advance
  BY <1>4, ReplyAdvances
<1>6. CookieInv(c)'
  BY <1>1, <1>5, CookieKept DEF RequestInv
<1>7. surface' = "browser" /\ rotates' = rotates /\ jar' = jar
  BY DEF Works
<1>8. AdmitInv(r, a)'
  BY <1>1, <1>3, <1>7, Values DEF AdmitInv, Leeway
<1>9. CalmInv(r, a)'
  BY <1>3 DEF CalmInv
<1>10. AnswerInv(r, a)'
  BY <1>3, <1>6, <1>8, <1>9, Values DEF AnswerInv
<1>11. ASSUME calm' PROVE Good(Merge(jar.session, a.session))'
  <2>1. calm /\ tab[t].pc \in {"sent", "token"} /\ realm' = realm
    BY <1>11 DEF Works, Fault
  <2>2. Good(jar.session)
    BY <2>1, CalmRequest
  <2>3. Good(jar.session)'
    BY <1>7, <2>1, <2>2 DEF Good
  <2> QED BY <1>3, <2>3 DEF Merge
<1> QED BY <1>3, <1>4, <1>10, <1>11, Replied

LEMMA ProcessStep ==
    ASSUME SessionsInv, surface = "browser", NEW t \in Tabs, NEW keys, process_session(t, keys)
    PROVE  SessionsInv'
<1>1. PICK r : r = tab[t]
  OBVIOUS
<1>2. PICK c : c = r.session
  OBVIOUS
<1>3. TypedInv /\ r \in TabRecord /\ RequestInv(r) /\ c \in {None} \cup Cookie /\ r.at \in Nat /\ ClockSkew \in Nat
  BY <1>1, <1>2, SessionConstants DEF SessionsInv, TypedInv, TabInv, TabRecord
<1>4. PICK valid \in BOOLEAN : valid = validate_access_token(c, keys)
  BY DEF validate_access_token
<1>5. /\ r.pc = "sent" /\ r.kind \in Pages
      /\ UNCHANGED <<left, calm>> \/ Fault
      /\ \/ ToLogin(t, realm)
         \/ c # None /\ Expired(c, r.at) /\ SessionExpired(t, realm)
         \/ /\ c # None /\ ~Expired(c, r.at) /\ realm' = realm
            /\ \/ valid /\ Reply(t, Answer("Active", c, Keep, Keep))
               \/ tab' = [tab EXCEPT ![t].pc = "token", ![t].login = IF valid THEN 1 ELSE 0]
      /\ UNCHANGED <<surface, rotates, deploy, now, jar, used, callback_path>>
  BY <1>1, <1>2, <1>4 DEF process_session, decrypt_cookie
<1>6. Works(t)
  BY <1>1, <1>5 DEF Works
<1>7. Renews(realm)
  BY NothingRenewed
<1>8. CASE ToLogin(t, realm)
  <2>1. PICK R : R = realm
    OBVIOUS
  <2> QED BY <1>1, <1>5, <1>6, <1>7, <1>8, <2>1, ToLoginStep
<1>9. CASE c # None /\ Expired(c, r.at) /\ SessionExpired(t, realm)
  <2>1. PICK R : R = realm
    OBVIOUS
  <2>2. r.at > c.refresh_exp + ClockSkew /\ r.at <= now
    BY <1>3, <1>9 DEF Expired, RequestInv
  <2>3. c.refresh_exp \in Nat /\ now \in Nat
    BY <1>3, <1>9, CookieFields, SessionConstants DEF TypedInv
  <2>4. now >= c.refresh_exp
    BY <1>3, <2>2, <2>3
  <2> QED BY <1>1, <1>2, <1>5, <1>6, <1>7, <1>9, <2>1, <2>4, SessionExpiredStep
<1>10. CASE c # None /\ ~Expired(c, r.at) /\ realm' = realm
            /\ \/ valid /\ Reply(t, Answer("Active", c, Keep, Keep))
               \/ tab' = [tab EXCEPT ![t].pc = "token", ![t].login = IF valid THEN 1 ELSE 0]
  <2>1. c \in Cookie /\ c.refresh_exp \in Nat /\ c.access_exp \in Nat
    BY <1>3, <1>10, CookieFields
  <2>2. r.at <= c.refresh_exp + ClockSkew
    BY <1>3, <1>10, <2>1 DEF Expired
  <2>3. r.at = now
    BY <1>3, <1>5 DEF RequestInv
  <2>4. valid => c.own /\ r.at <= c.access_exp + ClockSkew
    BY <1>4, <2>3 DEF validate_access_token
  <2>5. CASE valid /\ Reply(t, Answer("Active", c, Keep, Keep))
    <3>1. PICK a : a = Answer("Active", c, Keep, Keep)
      OBVIOUS
    <3>2. Replying(t, a) /\ RealmMoves(t)
      BY <1>3, <1>10, <2>5, <3>1, ReplyIsReplying, RealmStill
    <3> QED BY <1>1, <1>2, <1>6, <1>10, <2>1, <2>2, <2>4, <2>5, <3>1, <3>2, KeepReply
  <2>6. CASE tab' = [tab EXCEPT ![t].pc = "token", ![t].login = IF valid THEN 1 ELSE 0]
    <3>1. PICK n : n = IF valid THEN 1 ELSE 0
      OBVIOUS
    <3>2. n \in 0 .. MaxLogins
      BY <3>1, SessionConstants
    <3>3. PICK k : k = GoingOn(r, n)
      OBVIOUS
    <3>4. tab' = [tab EXCEPT ![t] = k]
      BY <1>1, <1>3, <2>6, <3>1, <3>3 DEF GoingOn, TabRecord
    <3>5. /\ k.pc = "token" /\ k.login = n /\ k.kind = r.kind /\ k.at = r.at
          /\ k.session = r.session /\ k.signin = r.signin
      BY <1>3, <3>2, <3>3, GoingOnFields
    <3>6. k.login = 1 => c.own /\ r.at <= c.access_exp + ClockSkew
      BY <2>4, <3>1, <3>5
    <3>7. r.kind \notin {"callback", "resolve", "logout"}
      BY <1>5 DEF Pages
    <3>8. RequestInv(k)
      BY <1>2, <1>3, <1>5, <1>10, <2>2, <3>5, <3>6, <3>7 DEF RequestInv
    <3> QED BY <1>1, <1>5, <1>6, <1>10, <3>2, <3>3, <3>4, <3>7, <3>8, GoesOn
  <2> QED BY <1>10, <2>5, <2>6
<1> QED BY <1>5, <1>8, <1>9, <1>10

LEMMA DualCallStep ==
    ASSUME SessionsInv, surface = "browser", NEW t \in Tabs, NEW keys, dual_call(t, keys)
    PROVE  SessionsInv'
<1>1. PICK r : r = tab[t]
  OBVIOUS
<1>2. PICK c : c = r.session
  OBVIOUS
<1>3. TypedInv /\ r \in TabRecord /\ RequestInv(r) /\ c \in {None} \cup Cookie /\ r.at \in Nat /\ ClockSkew \in Nat
  BY <1>1, <1>2, SessionConstants DEF SessionsInv, TypedInv, TabInv, TabRecord
<1>4. /\ r.pc = "sent" /\ realm' = realm
      /\ UNCHANGED <<left, calm>> \/ Fault
      /\ \/ c # None /\ ~Expired(c, r.at) /\ validate_access_token(c, keys) /\ Reply(t, Answer("Active", c, Keep, Keep))
         \/ Reply(t, Answer("unauthorized", None, Keep, Keep))
      /\ UNCHANGED <<surface, rotates, deploy, now, jar, used, callback_path>>
  BY <1>1, <1>2 DEF dual_call
<1>5. Works(t) /\ RealmMoves(t)
  BY <1>1, <1>4, RealmStill DEF Works
<1>6. CASE c # None /\ ~Expired(c, r.at) /\ validate_access_token(c, keys) /\ Reply(t, Answer("Active", c, Keep, Keep))
  <2>1. c \in Cookie /\ c.refresh_exp \in Nat /\ c.access_exp \in Nat
    BY <1>3, <1>6, CookieFields
  <2>2. r.at <= c.refresh_exp + ClockSkew
    BY <1>3, <1>6, <2>1 DEF Expired
  <2>3. c.own /\ r.at <= c.access_exp + ClockSkew
    BY <1>3, <1>4, <1>6 DEF validate_access_token, RequestInv
  <2>4. PICK a : a = Answer("Active", c, Keep, Keep)
    OBVIOUS
  <2>5. Replying(t, a)
    BY <1>3, <1>6, <2>4, ReplyIsReplying
  <2> QED BY <1>1, <1>2, <1>4, <1>5, <2>1, <2>2, <2>3, <2>4, <2>5, KeepReply
<1>7. CASE Reply(t, Answer("unauthorized", None, Keep, Keep))
  <2>1. PICK a : a = Answer("unauthorized", None, Keep, Keep)
    OBVIOUS
  <2>2. Replying(t, a)
    BY <1>3, <1>7, <2>1, ReplyIsReplying
  <2>3. a \in Answers /\ a.why = "unauthorized" /\ a.admit = None /\ a.session = Keep /\ a.signin = Keep
    BY <2>1, OtherWhys, PlainFields
  <2>4. CalmInv(r, a)
    BY <2>3 DEF CalmInv
  <2> QED BY <1>1, <1>4, <1>5, <2>2, <2>3, <2>4, PlainReply
<1> QED BY <1>4, <1>6, <1>7

LEMMA HandleCallbackStep ==
    ASSUME SessionsInv, surface = "browser", NEW t \in Tabs, handle_callback(t)
    PROVE  SessionsInv'
<1>1. PICK r : r = tab[t]
  OBVIOUS
<1>2. PICK s : s = StateCookie(t)
  OBVIOUS
<1>3. TypedInv /\ r \in TabRecord /\ RequestInv(r)
  BY <1>1 DEF SessionsInv, TypedInv, TabInv
<1>4. /\ r.pc = "sent" /\ r.kind = "callback" /\ realm' = realm
      /\ \/ s = None /\ Reply(t, Answer("no_state", None, Keep, Keep))
         \/ s # None /\ (s.deploy # deploy.key \/ s.login # r.login) /\ Reply(t, Answer("sign_in", None, Keep, Clear))
         \/ s # None /\ s.login = r.login /\ tab' = [tab EXCEPT ![t].pc = "token"]
      /\ UNCHANGED <<surface, rotates, deploy, now, jar, left, calm, used, callback_path>>
  BY <1>1, <1>2 DEF handle_callback
<1>5. Works(t) /\ RealmMoves(t)
  BY <1>1, <1>4, RealmStill DEF Works
<1>6. s = IF callback_path = StateCookiePath THEN r.signin ELSE None
  BY <1>1, <1>2 DEF StateCookie
<1>7. CASE s = None /\ Reply(t, Answer("no_state", None, Keep, Keep))
  <2>1. PICK a : a = Answer("no_state", None, Keep, Keep)
    OBVIOUS
  <2>2. Replying(t, a)
    BY <1>3, <1>7, <2>1, ReplyIsReplying
  <2>3. a \in Answers /\ a.why = "no_state" /\ a.admit = None /\ a.session = Keep /\ a.signin = Keep
    BY <2>1, OtherWhys, PlainFields
  <2>4. CalmInv(r, a)
    BY <1>6, <1>7, <2>3 DEF CalmInv
  <2> QED BY <1>1, <1>4, <1>5, <2>2, <2>3, <2>4, PlainReply
<1>8. CASE s # None /\ (s.deploy # deploy.key \/ s.login # r.login) /\ Reply(t, Answer("sign_in", None, Keep, Clear))
  <2>1. PICK a : a = Answer("sign_in", None, Keep, Clear)
    OBVIOUS
  <2>2. Replying(t, a)
    BY <1>3, <1>8, <2>1, ReplyIsReplying
  <2>3. a \in Answers /\ a.why = "sign_in" /\ a.admit = None /\ a.session = Keep /\ a.signin = Clear
    BY <2>1, OtherWhys, PlainFields
  <2>4. s = r.signin /\ (calm => s.deploy = deploy.key)
    BY <1>3, <1>6, <1>8 DEF RequestInv, SignInInv
  <2>5. calm' => CalmInv(r, a)
    BY <1>4, <1>8, <2>3, <2>4 DEF CalmInv
  <2> QED BY <1>1, <1>4, <1>5, <2>2, <2>3, <2>5, PlainReply
<1>9. CASE s # None /\ s.login = r.login /\ tab' = [tab EXCEPT ![t].pc = "token"]
  <2>1. PICK k : k = GoingOn(r, r.login)
    OBVIOUS
  <2>2. r.login \in 0 .. MaxLogins
    BY <1>3 DEF TabRecord
  <2>3. /\ k.pc = "token" /\ k.login = r.login /\ k.kind = r.kind /\ k.at = r.at
        /\ k.session = r.session /\ k.signin = r.signin
    BY <1>3, <2>1, <2>2, GoingOnFields
  <2>4. k.signin # None /\ k.signin.login = k.login
    BY <1>6, <1>9, <2>3
  <2>5. RequestInv(k)
    BY <1>3, <1>4, <2>3, <2>4 DEF RequestInv, Pages
  <2> QED BY <1>1, <1>4, <1>5, <1>9, <2>1, <2>5, CallsRealm
<1> QED BY <1>4, <1>7, <1>8, <1>9

LEMMA RefreshFailedStep ==
    ASSUME SessionsInv, surface = "browser", NEW t \in Tabs, NEW how, RefreshFailed(t, how)
    PROVE  SessionsInv'
<1>1. PICK r : r = tab[t]
  OBVIOUS
<1>2. PICK c : c = r.session
  OBVIOUS
<1>3. TypedInv /\ r \in TabRecord /\ RequestInv(r) /\ c \in {None} \cup Cookie /\ r.at \in Nat
  BY <1>1, <1>2, SessionConstants DEF SessionsInv, TypedInv, TabInv, TabRecord
<1>4. PICK R : R = IF how = "lost" THEN Granted(c.grant, NextGen(c)) ELSE realm
  OBVIOUS
<1>5. /\ r.pc = "token" /\ r.kind \in Pages
      /\ how # "unreachable" => (how = "lost" <=> RefreshGood(c))
      /\ IF how = "refused" THEN UNCHANGED <<left, calm>> ELSE Fault
      /\ \/ r.login = 1 /\ Reply(t, Answer("Active", c, Keep, Keep)) /\ realm' = R
         \/ SessionExpired(t, R)
      /\ UNCHANGED <<surface, rotates, deploy, now, jar, used, callback_path>>
  BY <1>1, <1>2, <1>4 DEF RefreshFailed, Proactive
<1>6. /\ c \in Cookie /\ CookieInv(c) /\ r.at <= c.refresh_exp + ClockSkew
      /\ r.login = 1 => c.own /\ r.at <= c.access_exp + ClockSkew
  BY <1>2, <1>3, <1>5 DEF RequestInv
<1>7. Works(t) /\ (calm' => how = "refused" /\ calm)
  BY <1>1, <1>5 DEF Works, Fault
<1>8. Renews(R)
  <2>1. CASE how = "lost"
    BY <1>4, <1>5, <1>6, <2>1, GrantRenews
  <2>2. CASE how # "lost"
    BY <1>4, <2>2, NothingRenewed
  <2> QED BY <2>1, <2>2
<1>9. calm' => R = realm
  BY <1>4, <1>7
<1>10. CASE r.login = 1 /\ Reply(t, Answer("Active", c, Keep, Keep)) /\ realm' = R
  <2>1. PICK a : a = Answer("Active", c, Keep, Keep)
    OBVIOUS
  <2>2. Replying(t, a) /\ RealmMoves(t)
    BY <1>3, <1>8, <1>10, <2>1, ReplyIsReplying, RealmRenews
  <2> QED BY <1>1, <1>2, <1>6, <1>7, <1>9, <1>10, <2>1, <2>2, KeepReply
<1>11. CASE SessionExpired(t, R)
  <2>1. ASSUME calm' PROVE now >= c.refresh_exp
    <3>1. ~RefreshGood(c) /\ calm
      BY <1>5, <1>7, <2>1
    <3>2. Good(c)
      BY <1>1, <1>2, <1>5, <3>1, CalmRequest
    <3>3. c.refresh_exp \in Nat /\ c.grant \in Logins /\ c # None
      BY <1>6, CookieFields, Values
    <3>4. realm[c.grant].until \in Nat /\ now \in Nat
      BY <1>3, <3>3, SessionConstants DEF TypedInv, RealmRecord
    <3>5. now >= realm[c.grant].until
      BY <3>1, <3>2, <3>3, <3>4 DEF Good, RefreshGood
    <3> QED BY <3>2, <3>3, <3>4, <3>5 DEF Good
  <2> QED BY <1>1, <1>2, <1>5, <1>7, <1>8, <1>9, <1>11, <2>1, SessionExpiredStep
<1> QED BY <1>5, <1>10, <1>11

LEMMA RenewedFields ==
    ASSUME TypedInv, NEW c \in Cookie, NEW at \in Nat, NEW issue \in Issues, NextGen(c) \in Nat,
           NEW d, d = build_session_cookie_header(Renewed(c, at, issue), at)
    PROVE  /\ d \in Cookie /\ d.last = c.last /\ d.gen = NextGen(c) /\ d.access_exp = now + AccessLife
           /\ d.refresh_exp = at + RefreshLife
           /\ d.deploy = c.deploy /\ d.bind = c.bind /\ d.grant = c.grant /\ d.born = c.born
           /\ issue # "foreign" => d.own
<1>1. now + AccessLife \in Nat /\ at + RefreshLife \in Nat /\ SessionTtl \in Nat /\ RefreshLife \in Nat
  BY SessionConstants, BrowserConstants DEF TypedInv
<1>2. PICK o : o = (issue # "foreign")
  OBVIOUS
<1>3. o \in BOOLEAN /\ (issue # "foreign" => o = TRUE)
  BY <1>2
<1>4. PICK gen : gen = NextGen(c)
  OBVIOUS
<1>5. PICK x : x = now + AccessLife
  OBVIOUS
<1>6. PICK y : y = at + RefreshLife
  OBVIOUS
<1>7. PICK m : m = [c EXCEPT !.gen = gen, !.access_exp = x, !.own = o, !.refresh_exp = y]
  OBVIOUS
<1>8. m = Renewed(c, at, issue)
  BY <1>2, <1>4, <1>5, <1>6, <1>7 DEF Renewed
<1>9. /\ m \in Cookie /\ m.gen = gen /\ m.access_exp = x /\ m.own = o /\ m.refresh_exp = y
      /\ m.deploy = c.deploy /\ m.bind = c.bind /\ m.grant = c.grant /\ m.born = c.born /\ m.last = c.last
  BY <1>1, <1>3, <1>4, <1>5, <1>6, <1>7 DEF Cookie
<1>10. PICK u : u = at + Capped(m.refresh_exp - at, SessionTtl)
  OBVIOUS
<1>11. u \in Nat
  <2>1. m.refresh_exp - at = RefreshLife
    BY <1>1, <1>6, <1>9
  <2>2. Capped(m.refresh_exp - at, SessionTtl) \in Nat
    BY <1>1, <2>1 DEF Capped
  <2> QED BY <1>10, <2>2
<1>12. d = [m EXCEPT !.until = u]
  BY <1>8, <1>10 DEF build_session_cookie_header
<1>13. /\ d \in Cookie /\ d.gen = m.gen /\ d.access_exp = m.access_exp /\ d.own = m.own
       /\ d.refresh_exp = m.refresh_exp /\ d.deploy = m.deploy /\ d.bind = m.bind
       /\ d.grant = m.grant /\ d.born = m.born /\ d.last = m.last
  BY <1>9, <1>11, <1>12 DEF Cookie
<1>14. issue # "foreign" => d.own
  BY <1>3, <1>9, <1>13
<1> QED BY <1>4, <1>5, <1>6, <1>9, <1>13, <1>14

LEMMA TokensRefreshedStep ==
    ASSUME SessionsInv, surface = "browser", NEW t \in Tabs, NEW issue \in Issues, TokensRefreshed(t, issue)
    PROVE  SessionsInv'
<1>1. PICK r : r = tab[t]
  OBVIOUS
<1>2. PICK c : c = r.session
  OBVIOUS
<1>3. TypedInv /\ r \in TabRecord /\ RequestInv(r) /\ c \in {None} \cup Cookie /\ r.at \in Nat
  BY <1>1, <1>2, SessionConstants DEF SessionsInv, TypedInv, TabInv, TabRecord
<1>4. PICK d : d = build_session_cookie_header(Renewed(c, r.at, issue), r.at)
  OBVIOUS
<1>5. PICK e : e = IF issue \in {"foreign", "unverified"} THEN c ELSE d
  OBVIOUS
<1>6. PICK R : R = Granted(c.grant, NextGen(c))
  OBVIOUS
<1>7. /\ r.pc = "token" /\ r.kind \in Pages /\ RefreshGood(c) /\ issue # "oversize"
      /\ IF issue = "good" THEN UNCHANGED <<left, calm>> ELSE Fault
      /\ \/ /\ r.login = 1 \/ issue \notin {"foreign", "unverified"}
            /\ realm' = R /\ Reply(t, Answer("Active", e, d, Keep))
         \/ issue # "good" /\ ToLogin(t, R)
      /\ UNCHANGED <<surface, rotates, deploy, now, jar, used, callback_path>>
  BY <1>1, <1>2, <1>4, <1>5, <1>6 DEF TokensRefreshed, Proactive
<1>8. /\ c \in Cookie /\ CookieInv(c) /\ r.at <= c.refresh_exp + ClockSkew /\ c.last <= r.at
      /\ r.login = 1 => c.own /\ r.at <= c.access_exp + ClockSkew
  BY <1>2, <1>3, <1>7 DEF RequestInv
<1>9. Works(t) /\ (calm' => issue = "good" /\ calm)
  BY <1>1, <1>7 DEF Works, Fault
<1>10. CASE issue # "good" /\ ToLogin(t, R)
  <2>1. Renews(R)
    BY <1>6, <1>7, <1>8, GrantRenews
  <2> QED BY <1>1, <1>7, <1>9, <1>10, <2>1, ToLoginStep
<1>11. CASE /\ r.login = 1 \/ issue \notin {"foreign", "unverified"}
            /\ realm' = R /\ Reply(t, Answer("Active", e, d, Keep))
  <2>1. /\ RealmMoves(t) /\ c.grant \in Logins
        /\ NextGen(c) \in Nat /\ NextGen(c) <= Spent + 1 /\ (rotates => NextGen(c) = c.gen + 1)
        /\ realm'[c.grant].st = "live" /\ realm'[c.grant].gen = NextGen(c)
        /\ realm'[c.grant].until = now + RefreshLife
    BY <1>6, <1>7, <1>8, <1>11, RefreshMoves
  <2>2. /\ d \in Cookie /\ d.last = c.last /\ d.gen = NextGen(c) /\ d.access_exp = now + AccessLife
        /\ d.refresh_exp = r.at + RefreshLife
        /\ d.deploy = c.deploy /\ d.bind = c.bind /\ d.grant = c.grant /\ d.born = c.born
        /\ issue # "foreign" => d.own
    <3>1. PICK at \in Nat : at = r.at
      BY <1>3
    <3>2. d = build_session_cookie_header(Renewed(c, at, issue), at)
      BY <1>4, <3>1
    <3>3. TypedInv /\ c \in Cookie /\ NextGen(c) \in Nat
      BY <1>3, <1>8, <2>1
    <3>4. /\ d \in Cookie /\ d.last = c.last /\ d.gen = NextGen(c) /\ d.access_exp = now + AccessLife
          /\ d.refresh_exp = at + RefreshLife
          /\ d.deploy = c.deploy /\ d.bind = c.bind /\ d.grant = c.grant /\ d.born = c.born
          /\ issue # "foreign" => d.own
      BY <3>1, <3>2, <3>3, RenewedFields
    <3> QED BY <3>1, <3>4
  <2>3. e \in Cookie
    BY <1>5, <1>8, <2>2
  <2>4. PICK a : a = Answer("Active", e, d, Keep)
    OBVIOUS
  <2>5. Replying(t, a)
    BY <1>3, <1>11, <2>4, ReplyIsReplying
  <2>6. a = [why |-> "Active", admit |-> e, session |-> d, signin |-> Keep]
    BY <2>4 DEF Answer
  <2>7. a.why = "Active" /\ a.admit = e /\ a.session = d /\ a.signin = Keep
    BY <2>6
  <2>8. a \in Answers
    BY <2>2, <2>3, <2>6, EndedWhys DEF Answers
  <2>9. TypedInv' /\ Advance /\ Spent' = Spent + 1 /\ Spent \in Int
    BY <1>9, <2>1, <2>5, <2>8, ReplyAdvances
  <2>10. /\ r.at <= now /\ c.born <= now /\ surface' = "browser" /\ now' = now /\ now \in Nat /\ deploy' = deploy
         /\ calm => c.deploy = deploy.key /\ c.bind = deploy.bind
    BY <1>3, <1>7, <1>8, SessionConstants DEF RequestInv, CookieInv, TypedInv
  <2>11. CookieInv(d)'
    <3>1. d.gen <= Spent' /\ d.born <= now' /\ d.access_exp <= now' + AccessLife
      BY <2>1, <2>2, <2>9, <2>10, SessionConstants
    <3>2. d.last <= now'
      BY <1>3, <1>8, <2>2, <2>10, CookieFields
    <3>3. realm'[d.grant].st = "live"
      BY <2>1, <2>2
    <3>4. calm' => d.deploy = deploy'.key /\ d.bind = deploy'.bind
      BY <1>9, <2>2, <2>10
    <3>5. surface' # "host"
      BY <2>10
    <3> QED BY <3>1, <3>2, <3>3, <3>4, <3>5 DEF CookieInv
  <2>12. CookieInv(c)'
    BY <1>3, <1>8, <2>9, CookieKept
  <2>13. CookieInv(e)'
    BY <1>5, <2>11, <2>12
  <2>14. e.own /\ r.at <= e.access_exp + ClockSkew
    <3>1. CASE issue \in {"foreign", "unverified"}
      BY <1>5, <1>8, <1>11, <3>1
    <3>2. CASE issue \notin {"foreign", "unverified"}
      <4>1. r.at <= now + AccessLife + ClockSkew
        BY <1>3, <2>10, SessionConstants
      <4> QED BY <1>5, <2>2, <3>2, <4>1
    <3> QED BY <3>1, <3>2
  <2>15. AdmitInv(r, a)'
    <3>1. r.session # None /\ e # None /\ d # Clear /\ d.last <= r.at
      BY <1>2, <1>8, <2>2, <2>3, Values
    <3>2. Leeway' = ClockSkew
      BY <2>10 DEF Leeway
    <3> QED BY <1>2, <1>8, <2>7, <2>10, <2>14, <3>1, <3>2 DEF AdmitInv
  <2>16. AnswerInv(r, a)'
    <3>1. CalmInv(r, a)'
      BY <2>7 DEF CalmInv
    <3>2. Keep \notin SignIn
      BY Values
    <3> QED BY <2>3, <2>7, <2>11, <2>13, <2>15, <3>1, <3>2, Values DEF AnswerInv
  <2>17. ASSUME calm' PROVE Good(Merge(jar.session, a.session))'
    <3>1. r.at + RefreshLife <= now + RefreshLife
      BY <1>3, <2>10, SessionConstants
    <3>2. rotates' = rotates
      BY <1>7
    <3>3. Good(d)'
      BY <2>1, <2>2, <3>1, <3>2 DEF Good
    <3> QED BY <2>2, <2>7, <3>3, Values DEF Merge
  <2> QED BY <1>1, <1>9, <2>1, <2>5, <2>7, <2>8, <2>16, <2>17, Replied
<1> QED BY <1>7, <1>10, <1>11

LEMMA ExchangeStep ==
    ASSUME SessionsInv, surface = "browser", NEW t \in Tabs, NEW issue \in Issues, exchange_code(t, issue)
    PROVE  SessionsInv'
<1>1. PICK r : r = tab[t]
  OBVIOUS
<1>2. PICK c : c = [deploy |-> deploy.key, bind |-> deploy.bind, grant |-> r.login, gen |-> 0,
                    own |-> issue # "foreign", access_exp |-> now + AccessLife, last |-> now,
                    refresh_exp |-> now + RefreshLife, until |-> 0, born |-> now]
  OBVIOUS
<1>3. PICK d : d = build_session_cookie_header(c, now)
  OBVIOUS
<1>4. PICK a : a = Answer("signed_in", c, d, Clear)
  OBVIOUS
<1>5. /\ r.pc = "token" /\ r.kind = "callback" /\ Exchanged(r.login) /\ Reply(t, a)
      /\ UNCHANGED <<left, calm>> \/ Fault
      /\ UNCHANGED <<surface, rotates, deploy, now, jar, used, callback_path>>
  BY <1>1, <1>2, <1>3, <1>4 DEF exchange_code, Exchanged
<1>6. Works(t) /\ Replying(t, a) /\ TypedInv
  BY <1>1, <1>5, ReplyIsReplying DEF Works, SessionsInv
<1>7. r.login \in Logins
  BY <1>1, <1>5, CodeWaits
<1>8. /\ now \in Nat /\ deploy.key \in Nat /\ deploy.bind \in Nat /\ SessionTtl \in Nat /\ RefreshLife \in Nat
      /\ now + AccessLife \in Nat /\ now + RefreshLife \in Nat
  BY <1>6, SessionConstants, BrowserConstants DEF TypedInv
<1>9. PICK x \in Nat : x = now + AccessLife
  BY <1>8
<1>10. PICK y \in Nat : y = now + RefreshLife
  BY <1>8
<1>11. PICK o \in BOOLEAN : o = (issue # "foreign")
  OBVIOUS
<1>12. c = [deploy |-> deploy.key, bind |-> deploy.bind, grant |-> r.login, gen |-> 0,
            own |-> o, access_exp |-> x, last |-> now, refresh_exp |-> y, until |-> 0, born |-> now]
  BY <1>2, <1>9, <1>10, <1>11
<1>13. /\ c.deploy = deploy.key /\ c.bind = deploy.bind /\ c.grant = r.login /\ c.gen = 0
       /\ c.access_exp = x /\ c.last = now /\ c.refresh_exp = y /\ c.born = now
  BY <1>12
<1>14. c \in Cookie
  BY <1>7, <1>8, <1>9, <1>10, <1>11, <1>12 DEF Cookie
<1>15. PICK u : u = now + Capped(c.refresh_exp - now, SessionTtl)
  OBVIOUS
<1>16. u \in Nat
  <2>1. c.refresh_exp - now = RefreshLife
    BY <1>8, <1>10, <1>13
  <2>2. Capped(c.refresh_exp - now, SessionTtl) \in Nat
    BY <1>8, <2>1 DEF Capped
  <2> QED BY <1>8, <1>15, <2>2
<1>17. d = [c EXCEPT !.until = u]
  BY <1>3, <1>15 DEF build_session_cookie_header
<1>18. /\ d \in Cookie /\ d.gen = c.gen /\ d.access_exp = c.access_exp
       /\ d.refresh_exp = c.refresh_exp /\ d.deploy = c.deploy /\ d.bind = c.bind
       /\ d.grant = c.grant /\ d.born = c.born /\ d.last = c.last
  BY <1>14, <1>16, <1>17 DEF Cookie
<1>19. Begins(c, r.login) /\ Begins(d, r.login)
  BY <1>9, <1>10, <1>13, <1>18 DEF Begins
<1> QED BY <1>1, <1>4, <1>5, <1>6, <1>14, <1>18, <1>19, SessionBegins

LEMMA ExchangeFailedStep ==
    ASSUME SessionsInv, surface = "browser", NEW t \in Tabs, NEW reached, ExchangeFailed(t, reached)
    PROVE  SessionsInv'
<1>1. PICK r : r = tab[t]
  OBVIOUS
<1>2. PICK a : a = Answer("exchange_failed", None, Keep, Keep)
  OBVIOUS
<1>3. /\ r.pc = "token" /\ r.kind = "callback" /\ Reply(t, a) /\ realm' = realm
      /\ ~CodeGood(r.login, r.signin.login) \/ Fault
      /\ UNCHANGED <<surface, rotates, deploy, now, jar, used, callback_path>>
  BY <1>1, <1>2 DEF ExchangeFailed
<1>4. Fault
  BY <1>1, <1>3, CodeWaits
<1>5. Works(t) /\ RealmMoves(t) /\ Replying(t, a) /\ ~calm'
  BY <1>1, <1>3, <1>4, RealmStill, ReplyIsReplying DEF Works, SessionsInv, Fault
<1>6. a \in Answers /\ a.why = "exchange_failed" /\ a.admit = None /\ a.session = Keep /\ a.signin = Keep
  BY <1>2, OtherWhys, PlainFields
<1> QED BY <1>1, <1>5, <1>6, PlainReply

LEMMA HandleLogoutStep ==
    ASSUME SessionsInv, surface = "browser", NEW t \in Tabs, NEW confirmed, handle_logout(t, confirmed)
    PROVE  SessionsInv'
<1>1. PICK r : r = tab[t]
  OBVIOUS
<1>2. PICK c : c = r.session
  OBVIOUS
<1>3. PICK a : a = Answer("signed_out", None, Clear, Keep)
  OBVIOUS
<1>4. TypedInv /\ r \in TabRecord /\ c \in {None} \cup Cookie
  BY <1>1, <1>2 DEF SessionsInv, TypedInv, TabRecord
<1>5. /\ r.pc = "sent" /\ Reply(t, a)
      /\ \/ c # None /\ realm[c.grant].st = "live" /\ realm' = RealmEnded(c.grant)
         \/ realm' = realm
      /\ UNCHANGED <<surface, rotates, deploy, now, jar, left, calm, used, callback_path>>
  BY <1>1, <1>2, <1>3 DEF handle_logout
<1>6. Works(t) /\ Replying(t, a)
  BY <1>1, <1>4, <1>5, ReplyIsReplying DEF Works
<1>7. RealmMoves(t)
  <2>1. CASE c # None /\ realm[c.grant].st = "live" /\ realm' = RealmEnded(c.grant)
    <3>1. c.grant \in Logins
      BY <1>4, <2>1, CookieFields
    <3> QED BY <2>1, <3>1, RealmEnding
  <2>2. CASE realm' = realm
    BY <2>2, RealmStill
  <2> QED BY <1>5, <2>1, <2>2
<1>8. a \in Answers /\ a.why = "signed_out" /\ a.admit = None /\ a.session = Clear /\ a.signin = Keep
  BY <1>3, OtherWhys, PlainFields
<1>9. CalmInv(r, a)
  BY <1>8 DEF CalmInv
<1> QED BY <1>1, <1>6, <1>7, <1>8, <1>9, PlainReply

-----------------------------------------------------------------------------
(* The browser, the realm, time and the deployment.                        *)

\* A tab that has no request under way leaves the calm as it is.
LEMMA CalmBystander ==
    ASSUME SessionsInv, NEW t \in Tabs, NEW k \in TabRecord, tab' = [tab EXCEPT ![t] = k],
           tab[t].pc \notin {"sent", "token", "answer"}, k.pc \notin {"sent", "token", "answer"},
           jar' = jar, rotates' = rotates, calm' => calm,
           \A g \in Logins : realm[g].st = "live" => realm'[g] = realm[g]
    PROVE  Calm'
<1> SUFFICES ASSUME calm'
             PROVE  /\ \A u, w \in Tabs : Busy(u)' /\ Busy(w)' => u = w
                    /\ (\A u \in Tabs : tab'[u].pc # "answer") => Good(jar.session)'
                    /\ \A u \in Tabs :
                         /\ tab'[u].pc \in {"sent", "token"} => tab'[u].session \in {None, jar'.session}
                         /\ tab'[u].pc = "answer" => Good(Merge(jar.session, tab[u].answer.session))'
  BY DEF Calm
<1>1. tab'[t] = k /\ (\A u \in Tabs : u # t => tab'[u] = tab[u]) /\ TypedInv
  BY DEF SessionsInv, TypedInv
<1>2. /\ \A u, w \in Tabs : Busy(u) /\ Busy(w) => u = w
      /\ (\A u \in Tabs : tab[u].pc # "answer") => Good(jar.session)
      /\ \A u \in Tabs :
           /\ tab[u].pc \in {"sent", "token"} => tab[u].session \in {None, jar.session}
           /\ tab[u].pc = "answer" => Good(Merge(jar.session, tab[u].answer.session))
  BY DEF SessionsInv, Calm
<1>3. \A u \in Tabs : Busy(u)' => Busy(u)
  BY <1>1 DEF Busy
<1>4. ASSUME NEW c \in {None} \cup Cookie, Good(c) PROVE Good(c)'
  BY <1>4, CookieFields DEF Good
<1>5. (\A u \in Tabs : tab'[u].pc # "answer") => Good(jar.session)'
  <2>1. (\A u \in Tabs : tab'[u].pc # "answer") => \A u \in Tabs : tab[u].pc # "answer"
    BY <1>1
  <2>2. jar.session \in {None} \cup Cookie
    BY <1>1 DEF TypedInv
  <2>3. Good(jar.session) => Good(jar.session)'
    <3>1. PICK c : c = jar.session
      OBVIOUS
    <3>2. Good(c) => Good(c)'
      BY <1>4, <2>2, <3>1
    <3> QED BY <3>1, <3>2
  <2> QED BY <1>2, <2>1, <2>3
<1>6. ASSUME NEW u \in Tabs, tab'[u].pc \in {"sent", "token"} PROVE tab'[u].session \in {None, jar'.session}
  BY <1>1, <1>2, <1>6
<1>7. ASSUME NEW u \in Tabs, tab'[u].pc = "answer"
      PROVE  Good(Merge(jar.session, tab[u].answer.session))'
  <2>1. u # t /\ tab'[u] = tab[u]
    BY <1>1, <1>7
  <2>2. PICK c : c = Merge(jar.session, tab[u].answer.session)
    OBVIOUS
  <2>3. Good(c)
    BY <1>2, <1>7, <2>1, <2>2
  <2>4. c \in {None} \cup Cookie
    BY <1>1, <2>2 DEF Merge, TypedInv, TabRecord, Answers
  <2>5. Good(c)'
    BY <1>4, <2>3, <2>4
  <2>6. Merge(jar.session, tab[u].answer.session)' = c
    BY <2>1, <2>2 DEF Merge
  <2> QED BY <2>5, <2>6
<1> QED BY <1>2, <1>3, <1>5, <1>6, <1>7

\* Something that is not a tab's step.
LEMMA Outside ==
    ASSUME SessionsInv, TypedInv', Advance, tab' = tab, jar' = jar, used' = used,
           \A g \in Logins : realm'[g].gen <= Spent',
           \A g \in Logins : realm[g].st \in {"begun", "code"} => realm'[g] = realm[g],
           \A u \in Tabs : tab[u].pc = "sent" => now' = now,
           Calm'
    PROVE  SessionsInv'
<1>1. TypedInv /\ JarInv /\ ClaimsInv /\ SigningIn /\ \A u \in Tabs : tab[u] \in TabRecord /\ TabInv(tab[u])
  BY DEF SessionsInv, TypedInv
<1>2. JarInv'
  BY <1>1, JarKept
<1>3. ASSUME NEW u \in Tabs PROVE TabInv(tab[u])'
  <2>1. PICK r : r = tab[u]
    OBVIOUS
  <2>2. TabInv(r)'
    BY <1>1, <2>1, TabKept
  <2> QED BY <2>1, <2>2
<1>4. SigningIn'
  BY <1>1 DEF SigningIn
<1>5. ClaimsInv'
  <2>1. ASSUME NEW u \in Tabs, NEW n, n = Claim(tab[u]), n # 0
        PROVE  /\ realm'[n].st = IF tab[u].pc \in {"answer", "realm"} THEN "begun" ELSE "code"
               /\ \A w \in Tabs : Claim(tab[w]) = n => w = u
    <3>1. /\ realm[n].st = IF tab[u].pc \in {"answer", "realm"} THEN "begun" ELSE "code"
          /\ \A w \in Tabs : Claim(tab[w]) = n => w = u
      BY <1>1, <2>1 DEF ClaimsInv
    <3>2. n \in Logins
      <4>1. PICK r : r = tab[u]
        OBVIOUS
      <4>2. r \in TabRecord /\ (r.pc = "answer" => AnswerInv(r, r.answer))
        BY <1>1, <4>1 DEF TabInv
      <4>3. Claim(r) \in {0} \cup Logins
        BY <4>2, ClaimIsLogin DEF AnswerInv
      <4> QED BY <2>1, <4>1, <4>3
    <3> QED BY <3>1, <3>2
  <2>2. \A u \in Tabs : tab'[u] = tab[u]
    OBVIOUS
  <2> QED BY <2>1, <2>2 DEF ClaimsInv
<1> QED BY <1>2, <1>3, <1>4, <1>5 DEF SessionsInv

LEMMA FaultLeft ==
    ASSUME TypedInv, Fault
    PROVE  /\ left' \in [requests : 0 .. MaxRequests, faults : 0 .. Faults]
           /\ left'.requests = left.requests /\ calm' = FALSE
<1>1. left \in [requests : 0 .. MaxRequests, faults : 0 .. Faults] /\ Faults \in Nat
  BY SessionConstants DEF TypedInv
<1>2. left.faults - 1 \in 0 .. Faults
  BY <1>1 DEF Fault
<1> QED BY <1>1, <1>2 DEF Fault

LEMMA TickStep ==
    ASSUME SessionsInv, UNCHANGED callback_path, NEW d \in Jumps, Tick(d), AtOnce
    PROVE  SessionsInv'
<1>1. /\ now + d <= MaxTime /\ now' = now + d
      /\ UNCHANGED <<surface, rotates, deploy, realm, jar, tab, left, calm, used, callback_path>>
  BY DEF Tick
<1>2. TypedInv /\ now \in Nat /\ d \in Nat /\ MaxTime \in Nat /\ Spent \in Int
  BY SessionConstants, LeftIsBounded DEF SessionsInv, TypedInv
<1>3. now' \in 0 .. MaxTime /\ now' >= now
  BY <1>1, <1>2
<1>4. TypedInv'
  BY <1>1, <1>2, <1>3 DEF TypedInv
<1>5. Spent' = Spent
  BY <1>1, SpentUnchanged
<1>6. Advance
  BY <1>1, <1>2, <1>3, <1>5 DEF Advance
<1>7. \A u \in Tabs : tab[u].pc # "sent"
  BY <1>1 DEF AtOnce
<1>8. Calm'
  BY <1>1 DEF SessionsInv, Calm, Good, Busy, Merge
<1>9. \A g \in Logins : realm'[g].gen <= Spent'
  BY <1>1, <1>5 DEF SessionsInv
<1> QED BY <1>1, <1>4, <1>6, <1>7, <1>8, <1>9, Outside

LEMMA RedeployStep ==
    ASSUME SessionsInv, UNCHANGED callback_path, NEW part \in {"key", "bind"}, Redeploy(part)
    PROVE  SessionsInv'
<1>1. /\ Fault /\ deploy' = [deploy EXCEPT ![part] = @ + 1]
      /\ UNCHANGED <<surface, rotates, now, realm, jar, tab, used, callback_path>>
  BY DEF Redeploy
<1>2. TypedInv /\ now \in Nat /\ Spent \in Int /\ deploy \in [key : Nat, bind : Nat]
  BY SessionConstants, LeftIsBounded DEF SessionsInv, TypedInv
<1>3. /\ left' \in [requests : 0 .. MaxRequests, faults : 0 .. Faults]
      /\ left'.requests = left.requests /\ calm' = FALSE
  BY <1>1, <1>2, FaultLeft
<1>4. deploy' \in [key : Nat, bind : Nat]
  BY <1>1, <1>2
<1>5. TypedInv'
  BY <1>1, <1>2, <1>3, <1>4 DEF TypedInv
<1>6. Spent' = Spent
  BY <1>1, <1>3, SpentUnchanged
<1>7. Advance
  BY <1>1, <1>2, <1>3, <1>6 DEF Advance
<1>8. Calm'
  BY <1>3 DEF Calm
<1>9. \A g \in Logins : realm'[g].gen <= Spent'
  BY <1>1, <1>6 DEF SessionsInv
<1> QED BY <1>1, <1>5, <1>7, <1>8, <1>9, Outside

LEMMA RealmEndsStep ==
    ASSUME SessionsInv, UNCHANGED callback_path, NEW g \in Logins, RealmEnds(g)
    PROVE  SessionsInv'
<1>1. /\ realm[g].st = "live" /\ Fault /\ realm' = RealmEnded(g)
      /\ UNCHANGED <<surface, rotates, deploy, now, jar, tab, used, callback_path>>
  BY DEF RealmEnds
<1>2. TypedInv /\ now \in Nat /\ Spent \in Int /\ realm \in [Logins -> RealmRecord]
  BY SessionConstants, LeftIsBounded DEF SessionsInv, TypedInv
<1>3. /\ left' \in [requests : 0 .. MaxRequests, faults : 0 .. Faults]
      /\ left'.requests = left.requests /\ calm' = FALSE
  BY <1>1, <1>2, FaultLeft
<1>4. PICK old : old = realm[g]
  OBVIOUS
<1>5. PICK new : new = [old EXCEPT !.st = "ended", !.until = now]
  OBVIOUS
<1>6. new \in RealmRecord /\ new.gen = old.gen /\ new.st = "ended" /\ new.until = now
  BY <1>2, <1>4, <1>5 DEF RealmRecord
<1>7. realm' = [realm EXCEPT ![g] = new]
  BY <1>1, <1>2, <1>4, <1>5 DEF RealmEnded, RealmRecord
<1>8. realm'[g] = new /\ realm' \in [Logins -> RealmRecord] /\ \A h \in Logins : h # g => realm'[h] = realm[h]
  BY <1>2, <1>6, <1>7
<1>9. TypedInv'
  BY <1>1, <1>2, <1>3, <1>8 DEF TypedInv
<1>10. Spent' = Spent
  BY <1>1, <1>3, SpentUnchanged
<1>11. Advance
  <2>1. now' >= now /\ Spent' >= Spent
    BY <1>1, <1>2, <1>10
  <2>2. \A h \in Logins : realm[h].st \in {"live", "ended"} =>
          /\ realm'[h].st \in {"live", "ended"}
          /\ realm'[h].st = "ended" =>
               \/ realm'[h].until >= now
               \/ realm[h].st = "ended" /\ realm'[h].until = realm[h].until
    BY <1>2, <1>6, <1>8
  <2> QED BY <1>1, <1>2, <1>3, <1>10, <2>1, <2>2 DEF Advance
<1>12. Calm'
  BY <1>3 DEF Calm
<1>13. \A h \in Logins : realm'[h].gen <= Spent'
  BY <1>4, <1>6, <1>8, <1>10 DEF SessionsInv
<1>14. \A h \in Logins : realm[h].st \in {"begun", "code"} => realm'[h] = realm[h]
  BY <1>1, <1>8
<1> QED BY <1>1, <1>9, <1>11, <1>12, <1>13, <1>14, Outside

LEMMA TabAdvances ==
    ASSUME SessionsInv, NEW t \in Tabs, NEW k \in TabRecord, tab' = [tab EXCEPT ![t] = k],
           UNCHANGED <<surface, rotates, deploy, now, callback_path>>,
           realm' \in [Logins -> RealmRecord], Moves(t),
           left' \in [requests : 0 .. MaxRequests, faults : 0 .. Faults],
           calm' \in BOOLEAN, calm' => calm, Spent' = Spent,
           used' \in 0 .. MaxTime, jar' \in [session : {None} \cup Cookie, signin : {None} \cup SignIn]
    PROVE  TypedInv' /\ Advance /\ Spent' \in Int /\ Spent' >= Spent
<1>1. TypedInv /\ Spent \in Int /\ now \in Int
  BY LeftIsBounded DEF SessionsInv, TypedInv
<1>2. TypedInv'
  BY <1>1 DEF TypedInv
<1>3. now' >= now /\ Spent' >= Spent
  BY <1>1
<1>4. Advance
  BY <1>1, <1>3, MovesAdvance DEF Advance
<1> QED BY <1>1, <1>2, <1>3, <1>4

Sending(r, kind, session, signin) ==
  [r EXCEPT !.pc = "sent", !.kind = kind, !.at = now, !.session = session, !.signin = signin]

LEMMA SendStep ==
    ASSUME SessionsInv, UNCHANGED callback_path, NEW t \in Tabs, NEW kind \in HostKinds \cup BrowserKinds,
           Send(t, kind)
    PROVE  SessionsInv'
<1>1. PICK r : r = tab[t]
  OBVIOUS
<1>2. PICK c : c = Live(jar.session)
  OBVIOUS
<1>3. PICK k : k = Sending(r, kind, c, jar.signin)
  OBVIOUS
<1>4. TypedInv /\ r \in TabRecord /\ TabInv(r) /\ jar.session \in {None} \cup Cookie /\ jar.signin \in {None} \cup SignIn
      /\ now \in 0 .. MaxTime /\ now \in Nat /\ JarInv
  BY <1>1, SessionConstants DEF SessionsInv, TypedInv
<1>5. /\ r.pc \in {"idle", "landed"} /\ (kind = "callback" <=> r.pc = "landed")
      /\ left.requests > 0 /\ left' = [left EXCEPT !.requests = @ - 1]
      /\ tab' = [tab EXCEPT ![t] = k]
      /\ calm' = (calm /\ \A u \in Tabs : ~Busy(u))
      /\ UNCHANGED <<surface, rotates, deploy, now, realm, jar, used, callback_path>>
  <2>1. tab' = [tab EXCEPT ![t].pc = "sent", ![t].kind = kind, ![t].at = now,
                           ![t].session = Live(jar.session), ![t].signin = jar.signin]
    BY DEF Send
  <2>2. tab' = [tab EXCEPT ![t] = k]
    BY <1>1, <1>2, <1>3, <1>4, <2>1 DEF Sending, TabRecord
  <2> QED BY <1>1, <2>2 DEF Send
<1>6. c \in {None, jar.session} /\ c \in {None} \cup Cookie
  BY <1>2, <1>4 DEF Live
<1>7. /\ k \in TabRecord /\ k.pc = "sent" /\ k.kind = kind /\ k.at = now /\ k.session = c
      /\ k.signin = jar.signin /\ k.login = r.login /\ k.answer = r.answer
  <2>1. kind \in {"none"} \cup HostKinds \cup BrowserKinds
    OBVIOUS
  <2> QED BY <1>3, <1>4, <1>6, <2>1 DEF Sending, TabRecord
<1>8. left' \in [requests : 0 .. MaxRequests, faults : 0 .. Faults] /\ left'.requests = left.requests - 1
  <2>1. left \in [requests : 0 .. MaxRequests, faults : 0 .. Faults] /\ MaxRequests \in Nat
    BY <1>4, SessionConstants DEF TypedInv
  <2>2. left.requests - 1 \in 0 .. MaxRequests
    BY <1>5, <2>1
  <2> QED BY <1>5, <2>1, <2>2
<1>9. Spent' = Spent
  <2>1. ~Handled(tab[t])
    BY <1>1, <1>5 DEF Handled
  <2>2. Handled(k)
    BY <1>7 DEF Handled
  <2>3. TypedInv
    BY <1>4
  <2>4. tab' = [tab EXCEPT ![t] = k]
    BY <1>5
  <2>5. OneLess
    BY <1>8 DEF OneLess
  <2> QED BY <2>1, <2>2, <2>3, <2>4, <2>5, SpentSend
<1>10. calm' \in BOOLEAN /\ (calm' => calm /\ \A u \in Tabs : ~Busy(u))
  BY <1>5
<1>11. realm' \in [Logins -> RealmRecord] /\ Moves(t) /\ used' \in 0 .. MaxTime
       /\ jar' \in [session : {None} \cup Cookie, signin : {None} \cup SignIn]
       /\ deploy' \in [key : Nat, bind : Nat]
  BY <1>4, <1>5 DEF TypedInv, Moves
<1>12. TypedInv' /\ Advance /\ Spent' \in Int /\ Spent' >= Spent
  BY <1>5, <1>7, <1>8, <1>9, <1>10, <1>11, TabAdvances
<1>13. TabInv(k)'
  <2>1. c # None => CookieInv(c) /\ c.last <= now
    BY <1>4, <1>6 DEF JarInv, CookieInv
  <2>2. c # None => CookieInv(c)'
    BY <1>4, <1>6, <1>12, <2>1, CookieKept
  <2>3. jar.signin # None => SignInInv(jar.signin)'
    <3>1. PICK s : s = jar.signin
      OBVIOUS
    <3>2. s # None => SignInInv(s)'
      BY <1>4, <1>12, <3>1, SignInKept DEF JarInv
    <3> QED BY <1>5, <3>1, <3>2
  <2>4. RequestInv(k)'
    <3>1. k.signin # None => SignInInv(k.signin)'
      BY <1>5, <1>7, <2>3 DEF SignInInv
    <3> QED BY <1>4, <1>5, <1>7, <2>1, <2>2, <3>1 DEF RequestInv
  <2>5. k.answer = NoAnswer
    BY <1>4, <1>5, <1>7 DEF TabInv
  <2> QED BY <1>7, <2>4, <2>5 DEF TabInv
<1>14. InSignIn(k) => InSignIn(r) /\ r.pc = "landed"
  BY <1>5, <1>7 DEF InSignIn
<1>15. InSignIn(k) => k.login # 0
  BY <1>1, <1>7, <1>14 DEF SessionsInv, SigningIn
<1>16. Claim(k) # 0 => Claim(k) = Claim(r) /\ r.pc = "landed"
  BY <1>7, <1>14 DEF Claim
<1>17. Claim(k) # 0 =>
         /\ Claim(k) = Claim(tab[t]) \/ realm[Claim(k)].st = "new"
         /\ realm'[Claim(k)].st = IF k.pc \in {"answer", "realm"} THEN "begun" ELSE "code"
  BY <1>1, <1>5, <1>7, <1>16 DEF SessionsInv, ClaimsInv
<1>18. Calm'
  <2> SUFFICES ASSUME calm'
               PROVE  /\ \A u, w \in Tabs : Busy(u)' /\ Busy(w)' => u = w
                      /\ (\A u \in Tabs : tab'[u].pc # "answer") => Good(jar.session)'
                      /\ \A u \in Tabs :
                           /\ tab'[u].pc \in {"sent", "token"} => tab'[u].session \in {None, jar'.session}
                           /\ tab'[u].pc = "answer" => Good(Merge(jar.session, tab[u].answer.session))'
    BY DEF Calm
  <2>1. calm /\ \A u \in Tabs : tab[u].pc \notin {"sent", "token", "answer"}
    BY <1>10 DEF Busy
  <2>2. Good(jar.session)
    BY <2>1 DEF SessionsInv, Calm
  <2>3. Good(jar.session)'
    BY <1>5, <2>2 DEF Good
  <2>4. tab'[t] = k /\ \A u \in Tabs : u # t => tab'[u] = tab[u]
    BY <1>4, <1>5 DEF TypedInv
  <2>5. \A u \in Tabs : u # t => tab'[u].pc \notin {"sent", "token", "answer"}
    BY <2>1, <2>4
  <2>6. \A u, w \in Tabs : Busy(u)' /\ Busy(w)' => u = w
    BY <2>5 DEF Busy
  <2>7. \A u \in Tabs : tab'[u].pc \in {"sent", "token"} => tab'[u].session \in {None, jar'.session}
    BY <1>5, <1>6, <1>7, <2>4, <2>5
  <2>8. \A u \in Tabs : tab'[u].pc # "answer"
    BY <1>7, <2>4, <2>5
  <2> QED BY <2>3, <2>6, <2>7, <2>8
<1>19. \A g \in Logins : realm'[g].gen <= Spent'
  BY <1>5, <1>9 DEF SessionsInv
<1> QED BY <1>5, <1>7, <1>8, <1>10, <1>11, <1>12, <1>13, <1>15, <1>17, <1>18, <1>19, TabStep

LEMMA IdleTab ==
  /\ Idle \in TabRecord /\ Idle.pc = "idle" /\ Idle.kind = "none" /\ Idle.at = 0
  /\ Idle.session = None /\ Idle.signin = None /\ Idle.login = 0 /\ Idle.answer = NoAnswer
<1>1. NoAnswer \in Answers
  BY DEF NoAnswer, Answer, Answers, Whys
<1>2. 0 \in 0 .. MaxTime /\ 0 \in 0 .. MaxLogins
  BY SessionConstants
<1> QED BY <1>1, <1>2 DEF Idle, TabRecord

\* A page without a request, or at the realm.
AtRealm(n) == [Idle EXCEPT !.pc = "realm", !.login = n]
LEMMA RealmTab ==
    ASSUME NEW n \in Logins, NEW k, k = AtRealm(n)
    PROVE  /\ k \in TabRecord /\ k.pc = "realm" /\ k.kind = "none" /\ k.at = 0
           /\ k.session = None /\ k.signin = None /\ k.login = n /\ k.answer = NoAnswer
<1>1. n \in 0 .. MaxLogins
  BY LoginNumbers
<1>2. PICK i \in TabRecord : i = Idle
  BY IdleTab
<1>3. k = [i EXCEPT !.pc = "realm", !.login = n]
  BY <1>2 DEF AtRealm
<1>4. k \in TabRecord /\ k.pc = "realm" /\ k.login = n /\ k.kind = i.kind /\ k.at = i.at
      /\ k.session = i.session /\ k.signin = i.signin /\ k.answer = i.answer
  BY <1>1, <1>3 DEF TabRecord
<1> QED BY <1>2, <1>4, IdleTab

\* A page that carries nothing.
LEMMA EmptyTab ==
    ASSUME TypedInv', NEW k, k.pc \in {"idle", "realm"}, k.at = 0, k.session = None, k.signin = None,
           k.answer = NoAnswer
    PROVE  TabInv(k)'
<1>1. 0 <= now'
  BY SessionConstants DEF TypedInv
<1> QED BY <1>1 DEF TabInv, RequestInv

LEMMA LoseAnswerStep ==
    ASSUME SessionsInv, UNCHANGED callback_path, NEW t \in Tabs, LoseAnswer(t)
    PROVE  SessionsInv'
<1>1. PICK k : k = Idle
  OBVIOUS
<1>2. /\ tab[t].pc = "answer" /\ Fault /\ tab' = [tab EXCEPT ![t] = k]
      /\ UNCHANGED <<surface, rotates, deploy, now, realm, jar, used, callback_path>>
  BY <1>1 DEF LoseAnswer
<1>3. TypedInv
  BY DEF SessionsInv
<1>4. /\ k \in TabRecord /\ k.pc = "idle" /\ k.kind = "none" /\ k.at = 0 /\ k.session = None
      /\ k.signin = None /\ k.login = 0 /\ k.answer = NoAnswer
  BY <1>1, IdleTab
<1>5. /\ left' \in [requests : 0 .. MaxRequests, faults : 0 .. Faults]
      /\ left'.requests = left.requests /\ calm' = FALSE
  BY <1>2, <1>3, FaultLeft
<1>6. Spent' = Spent
  <2>1. k.pc \in {"sent", "token"} <=> tab[t].pc \in {"sent", "token"}
    BY <1>2, <1>4
  <2> QED BY <1>2, <1>3, <1>5, <2>1, SpentKept
<1>7. /\ realm' \in [Logins -> RealmRecord] /\ Moves(t) /\ used' \in 0 .. MaxTime
      /\ jar' \in [session : {None} \cup Cookie, signin : {None} \cup SignIn]
      /\ deploy' \in [key : Nat, bind : Nat] /\ calm' \in BOOLEAN /\ (calm' => calm)
  BY <1>2, <1>3, <1>5 DEF TypedInv, Moves
<1>8. TypedInv' /\ Advance /\ Spent' \in Int /\ Spent' >= Spent
  BY <1>2, <1>4, <1>5, <1>6, <1>7, TabAdvances
<1>9. TabInv(k)'
  BY <1>4, <1>8, EmptyTab
<1>10. Claim(k) = 0 /\ ~InSignIn(k)
  BY <1>4 DEF Claim, InSignIn
<1>11. Calm'
  BY <1>5 DEF Calm
<1>12. \A g \in Logins : realm'[g].gen <= Spent'
  BY <1>2, <1>6 DEF SessionsInv
<1> QED BY <1>2, <1>4, <1>5, <1>7, <1>8, <1>9, <1>10, <1>11, <1>12, TabStep

LEMMA LeaveRealmStep ==
    ASSUME SessionsInv, UNCHANGED callback_path, NEW t \in Tabs, LeaveRealm(t)
    PROVE  SessionsInv'
<1>1. PICK k : k = Idle
  OBVIOUS
<1>2. /\ tab[t].pc = "realm" /\ tab' = [tab EXCEPT ![t] = k]
      /\ UNCHANGED <<surface, rotates, deploy, now, realm, jar, used, left, calm, callback_path>>
  BY <1>1 DEF LeaveRealm
<1>3. TypedInv
  BY DEF SessionsInv
<1>4. /\ k \in TabRecord /\ k.pc = "idle" /\ k.kind = "none" /\ k.at = 0 /\ k.session = None
      /\ k.signin = None /\ k.login = 0 /\ k.answer = NoAnswer
  BY <1>1, IdleTab
<1>6. Spent' = Spent
  <2>1. k.pc \in {"sent", "token"} <=> tab[t].pc \in {"sent", "token"}
    BY <1>2, <1>4
  <2>2. left'.requests = left.requests
    BY <1>2
  <2> QED BY <1>2, <1>3, <2>1, <2>2, SpentKept
<1>7. /\ realm' \in [Logins -> RealmRecord] /\ Moves(t) /\ used' \in 0 .. MaxTime
      /\ jar' \in [session : {None} \cup Cookie, signin : {None} \cup SignIn]
      /\ deploy' \in [key : Nat, bind : Nat] /\ calm' \in BOOLEAN /\ (calm' => calm)
      /\ left' \in [requests : 0 .. MaxRequests, faults : 0 .. Faults]
  BY <1>2, <1>3 DEF TypedInv, Moves
<1>8. TypedInv' /\ Advance /\ Spent' \in Int /\ Spent' >= Spent
  BY <1>2, <1>4, <1>6, <1>7, TabAdvances
<1>9. TabInv(k)'
  BY <1>4, <1>8, EmptyTab
<1>10. Claim(k) = 0 /\ ~InSignIn(k)
  BY <1>4 DEF Claim, InSignIn
<1>11. Calm'
  BY <1>2, <1>4, CalmBystander
<1>12. \A g \in Logins : realm'[g].gen <= Spent'
  BY <1>2, <1>6 DEF SessionsInv
<1> QED BY <1>2, <1>4, <1>7, <1>8, <1>9, <1>10, <1>11, <1>12, TabStep

LEMMA RealmSignsInStep ==
    ASSUME SessionsInv, UNCHANGED callback_path, NEW t \in Tabs, RealmSignsIn(t)
    PROVE  SessionsInv'
<1>1. PICK r : r = tab[t]
  OBVIOUS
<1>2. PICK k : k = [r EXCEPT !.pc = "landed"]
  OBVIOUS
<1>3. TypedInv /\ r \in TabRecord /\ TabInv(r) /\ realm \in [Logins -> RealmRecord] /\ RequestInv(r)
  BY <1>1 DEF SessionsInv, TypedInv, TabInv
<1>4. PICK g : g = r.login
  OBVIOUS
<1>5. /\ r.pc = "realm" /\ realm[g].st = "begun"
      /\ tab' = [tab EXCEPT ![t] = k]
      /\ UNCHANGED <<surface, rotates, deploy, now, jar, used, left, calm, callback_path>>
  <2>1. tab' = [tab EXCEPT ![t].pc = "landed"]
    BY DEF RealmSignsIn
  <2>2. tab' = [tab EXCEPT ![t] = k]
    BY <1>1, <1>2, <1>3, <2>1 DEF TabRecord
  <2> QED BY <1>1, <1>4, <2>2 DEF RealmSignsIn
<1>6. /\ k \in TabRecord /\ k.pc = "landed" /\ k.kind = r.kind /\ k.at = r.at /\ k.session = r.session
      /\ k.signin = r.signin /\ k.login = g /\ k.answer = r.answer
  BY <1>2, <1>3, <1>4 DEF TabRecord
<1>7. InSignIn(r) /\ Claim(r) = g /\ g # 0 /\ g \in Logins
  <2>1. InSignIn(r)
    BY <1>5 DEF InSignIn
  <2>2. g # 0
    BY <1>1, <1>4, <2>1 DEF SessionsInv, SigningIn
  <2> QED BY <1>3, <1>4, <1>5, <2>1, <2>2 DEF Claim, TabRecord, Logins
<1>8. PICK old : old = realm[g]
  OBVIOUS
<1>9. PICK new : new = [old EXCEPT !.st = "code"]
  OBVIOUS
<1>10. new \in RealmRecord /\ new.gen = old.gen /\ new.st = "code"
  BY <1>3, <1>7, <1>8, <1>9 DEF RealmRecord
<1>11. realm' = [realm EXCEPT ![g] = new]
  <2>1. realm' = [realm EXCEPT ![g].st = "code"]
    BY <1>1, <1>4 DEF RealmSignsIn
  <2> QED BY <1>3, <1>7, <1>8, <1>9, <2>1 DEF RealmRecord
<1>12. realm'[g] = new /\ realm' \in [Logins -> RealmRecord] /\ \A h \in Logins : h # g => realm'[h] = realm[h]
  BY <1>3, <1>7, <1>10, <1>11
<1>13. Spent' = Spent
  <2>1. k.pc \in {"sent", "token"} <=> tab[t].pc \in {"sent", "token"}
    BY <1>1, <1>5, <1>6
  <2>2. left'.requests = left.requests
    BY <1>5
  <2> QED BY <1>3, <1>5, <2>1, <2>2, SpentKept
<1>14. Moves(t)
  BY <1>1, <1>5, <1>7, <1>10, <1>12 DEF Moves
<1>15. /\ used' \in 0 .. MaxTime
       /\ jar' \in [session : {None} \cup Cookie, signin : {None} \cup SignIn]
       /\ deploy' \in [key : Nat, bind : Nat] /\ calm' \in BOOLEAN /\ (calm' => calm)
       /\ left' \in [requests : 0 .. MaxRequests, faults : 0 .. Faults]
  BY <1>3, <1>5 DEF TypedInv
<1>16. TypedInv' /\ Advance /\ Spent' \in Int /\ Spent' >= Spent
  BY <1>5, <1>6, <1>12, <1>13, <1>14, <1>15, TabAdvances
<1>17. TabInv(k)'
  <2>1. RequestInv(r)'
    BY <1>3, <1>5, <1>16, RequestKept
  <2>2. RequestInv(k)'
    BY <1>6, <2>1 DEF RequestInv
  <2>3. k.answer = NoAnswer
    BY <1>3, <1>5, <1>6 DEF TabInv
  <2> QED BY <1>6, <2>2, <2>3 DEF TabInv
<1>18. InSignIn(k) /\ Claim(k) = g /\ k.login # 0
  BY <1>6, <1>7 DEF InSignIn, Claim
<1>19. Claim(k) # 0 =>
         /\ Claim(k) = Claim(tab[t]) \/ realm[Claim(k)].st = "new"
         /\ realm'[Claim(k)].st = IF k.pc \in {"answer", "realm"} THEN "begun" ELSE "code"
  BY <1>1, <1>6, <1>7, <1>10, <1>12, <1>18
<1>20. Calm'
  <2>1. \A h \in Logins : realm[h].st = "live" => realm'[h] = realm[h]
    BY <1>5, <1>12
  <2>2. tab[t].pc \notin {"sent", "token", "answer"} /\ k.pc \notin {"sent", "token", "answer"}
    BY <1>1, <1>5, <1>6
  <2> QED BY <1>5, <1>6, <2>1, <2>2, CalmBystander
<1>21. \A h \in Logins : realm'[h].gen <= Spent'
  BY <1>8, <1>10, <1>12, <1>13 DEF SessionsInv
<1> QED BY <1>5, <1>6, <1>12, <1>14, <1>15, <1>16, <1>17, <1>18, <1>19, <1>20, <1>21, TabStep

\* What an answer leaves in the jar.
LEMMA DeliveredJar ==
    ASSUME JarInv, jar.session \in {None} \cup Cookie, jar.signin \in {None} \cup SignIn,
           TypedInv, TypedInv', Advance, NEW r \in TabRecord, RequestInv(r), NEW a \in Answers, AnswerInv(r, a),
           jar' = [session |-> Merge(jar.session, a.session), signin |-> Merge(jar.signin, a.signin)],
           used' = IF a.admit = None THEN used
                   ELSE IF a.why = "signed_in" THEN a.session.born
                   ELSE IF a.session # Keep THEN r.at
                   ELSE IF r.session = jar.session THEN r.at ELSE used
    PROVE  JarInv'
<1>1. /\ a.session \in {Keep, Clear} \cup Cookie /\ a.signin \in {Keep, Clear} \cup SignIn
      /\ a.admit \in {None} \cup Cookie /\ r.at \in Int /\ used \in Int
      /\ IdleTimeout \div 10 \in Nat /\ (calm' => calm) /\ surface' = surface
  BY HostConstants DEF Answers, TabRecord, TypedInv, Advance
<1>2. jar'.session = Merge(jar.session, a.session) /\ jar'.signin = Merge(jar.signin, a.signin)
  OBVIOUS
<1>3. ASSUME jar'.signin # None PROVE SignInInv(jar.signin)'
  <2>1. PICK s : s = Merge(jar.signin, a.signin)
    OBVIOUS
  <2>2. CASE a.signin = Keep
    <3>1. s = jar.signin /\ SignInInv(s)
      BY <1>2, <1>3, <2>1, <2>2 DEF Merge, JarInv
    <3>2. SignInInv(s)'
      BY <3>1, SignInKept
    <3> QED BY <1>2, <2>1, <3>2
  <2>3. CASE a.signin \in SignIn
    <3>1. s = a.signin /\ SignInInv(s)
      BY <2>1, <2>3, Values DEF Merge, AnswerInv
    <3>2. SignInInv(s)'
      BY <3>1, SignInKept
    <3> QED BY <1>2, <2>1, <3>2
  <2> QED BY <1>1, <1>2, <1>3, <2>2, <2>3, Values DEF Merge
<1>4. PICK c : c = Merge(jar.session, a.session)
  OBVIOUS
<1>5. ASSUME c # None
      PROVE  /\ CookieInv(c)' /\ c.last <= used'
             /\ surface' = "host" /\ calm' => used' - c.last <= IdleTimeout \div 10
  <2>1. CASE a.session = Keep
    <3>1. c = jar.session /\ c \in Cookie
      BY <1>4, <1>5, <2>1 DEF Merge
    <3>2. /\ CookieInv(c) /\ c.last <= used
          /\ surface = "host" /\ calm => used - c.last <= IdleTimeout \div 10
      BY <1>5, <3>1 DEF JarInv
    <3>3. CookieInv(c)'
      BY <3>1, <3>2, CookieKept
    <3>4. CASE used' = used
      BY <1>1, <3>2, <3>3, <3>4
    <3>5. CASE used' # used
      <4>1. used' = r.at /\ r.session = c /\ a.admit # None /\ a.why # "signed_in"
        <5>1. a.session \notin Cookie
          BY <2>1, Values
        <5>2. a.why # "signed_in"
          BY <5>1 DEF AnswerInv
        <5> QED BY <2>1, <3>1, <3>5, <5>2
      <4>2. AdmitInv(r, a)
        BY <4>1 DEF AnswerInv
      <4>3. c.last <= r.at
        BY <3>1, <4>1, Values DEF RequestInv
      <4>4. surface = "host" /\ calm => r.at - c.last <= IdleTimeout \div 10
        BY <2>1, <4>1, <4>2 DEF AdmitInv
      <4> QED BY <1>1, <3>3, <4>1, <4>3, <4>4
    <3> QED BY <3>4, <3>5
  <2>2. CASE a.session \in Cookie
    <3>1. c = a.session /\ CookieInv(c) /\ a.admit # None /\ a.session # Keep
      BY <1>4, <2>2, Values DEF Merge, AnswerInv
    <3>2. CookieInv(c)'
      BY <2>2, <3>1, CookieKept
    <3>3. a.why \in {"Active", "signed_in"} /\ c.last \in Int
      BY <2>2, <3>1, CookieFields DEF AnswerInv
    <3>4. CASE a.why = "signed_in"
      <4>1. used' = c.born /\ c.last = c.born
        BY <3>1, <3>4 DEF AnswerInv
      <4> QED BY <1>1, <3>2, <3>3, <4>1
    <3>5. CASE a.why = "Active"
      <4>1. used' = r.at /\ AdmitInv(r, a)
        BY <3>1, <3>5 DEF AnswerInv
      <4>2. c.last <= r.at /\ (surface = "host" => c.last = r.at)
        BY <3>1, <4>1 DEF AdmitInv
      <4> QED BY <1>1, <3>2, <3>3, <4>1, <4>2
    <3> QED BY <3>3, <3>4, <3>5
  <2> QED BY <1>1, <1>4, <1>5, <2>1, <2>2, Values DEF Merge
<1>6. jar'.session = c
  BY <1>2, <1>4
<1>7. jar'.session # None => CookieInv(jar.session)'
  BY <1>5, <1>6
<1> QED BY <1>3, <1>5, <1>6, <1>7 DEF JarInv

LEMMA DeliverStep ==
    ASSUME SessionsInv, UNCHANGED callback_path, NEW t \in Tabs, Deliver(t)
    PROVE  SessionsInv'
<1>1. PICK r : r = tab[t]
  OBVIOUS
<1>2. PICK a : a = r.answer
  OBVIOUS
<1>3. PICK k : k = IF a.why = "login" THEN AtRealm(a.signin.login) ELSE Idle
  OBVIOUS
<1>4. /\ r.pc = "answer"
      /\ jar' = [session |-> Merge(jar.session, a.session), signin |-> Merge(jar.signin, a.signin)]
      /\ used' = IF a.admit = None THEN used
                 ELSE IF a.why = "signed_in" THEN a.session.born
                 ELSE IF a.session # Keep THEN r.at
                 ELSE IF r.session = jar.session THEN r.at ELSE used
      /\ UNCHANGED <<surface, rotates, deploy, now, realm, left, calm, callback_path>>
  BY <1>1, <1>2 DEF Deliver
<1>5. tab' = [tab EXCEPT ![t] = k]
  BY <1>1, <1>2, <1>3 DEF Deliver, AtRealm
<1>6. TypedInv /\ JarInv /\ r \in TabRecord /\ TabInv(r)
  BY <1>1 DEF SessionsInv, TypedInv
<1>7. a \in Answers /\ RequestInv(r) /\ AnswerInv(r, a)
  BY <1>2, <1>4, <1>6 DEF TabInv, TabRecord
<1>8. a.why = "login" => a.signin \in SignIn /\ a.signin.login \in Logins
  BY <1>7 DEF AnswerInv, SignIn
<1>9. /\ k \in TabRecord /\ k.pc \in {"idle", "realm"} /\ k.kind = "none" /\ k.at = 0 /\ k.session = None
      /\ k.signin = None /\ k.answer = NoAnswer
      /\ k.pc = "realm" <=> a.why = "login"
      /\ a.why = "login" => k.login = a.signin.login /\ k.login # 0
  <2>1. CASE a.why = "login"
    <3>1. PICK n \in Logins : n = a.signin.login
      BY <1>8, <2>1
    <3>2. k = AtRealm(n)
      BY <1>3, <2>1, <3>1
    <3>3. n # 0
      BY LoginNumbers
    <3>4. /\ k \in TabRecord /\ k.pc = "realm" /\ k.kind = "none" /\ k.at = 0
          /\ k.session = None /\ k.signin = None /\ k.login = n /\ k.answer = NoAnswer
      BY <3>2, RealmTab
    <3> QED BY <2>1, <3>1, <3>3, <3>4
  <2>2. CASE a.why # "login"
    <3>1. k = Idle
      BY <1>3, <2>2
    <3> QED BY <2>2, <3>1, IdleTab
  <2> QED BY <2>1, <2>2
<1>10. Spent' = Spent
  <2>1. k.pc \in {"sent", "token"} <=> tab[t].pc \in {"sent", "token"}
    BY <1>1, <1>4, <1>9
  <2>2. left'.requests = left.requests
    BY <1>4
  <2> QED BY <1>5, <1>6, <2>1, <2>2, SpentKept
<1>11. used' \in 0 .. MaxTime
  <2>1. used \in 0 .. MaxTime /\ r.at \in 0 .. MaxTime /\ now \in 0 .. MaxTime /\ MaxTime \in Nat
    BY <1>6, SessionConstants DEF TypedInv, TabRecord
  <2>2. a.why = "signed_in" => a.session.born \in 0 .. MaxTime
    <3>1. ASSUME a.why = "signed_in" PROVE a.session.born \in 0 .. MaxTime
      <4>1. a.session \in Cookie /\ CookieInv(a.session)
        BY <1>7, <3>1 DEF AnswerInv
      <4>2. a.session.born \in Nat /\ a.session.born <= now
        BY <4>1, CookieFields DEF CookieInv
      <4> QED BY <2>1, <4>2
    <3> QED BY <3>1
  <2> QED BY <1>4, <2>1, <2>2
<1>12. jar' \in [session : {None} \cup Cookie, signin : {None} \cup SignIn]
  <2>1. jar.session \in {None} \cup Cookie /\ jar.signin \in {None} \cup SignIn
    BY <1>6 DEF TypedInv
  <2>2. a.session \in {Keep, Clear} \cup Cookie /\ a.signin \in {Keep, Clear} \cup SignIn
    BY <1>7 DEF Answers
  <2>3. Merge(jar.session, a.session) \in {None} \cup Cookie
    BY <2>1, <2>2 DEF Merge
  <2>4. Merge(jar.signin, a.signin) \in {None} \cup SignIn
    BY <2>1, <2>2 DEF Merge
  <2> QED BY <1>4, <2>3, <2>4
<1>13. /\ realm' \in [Logins -> RealmRecord] /\ Moves(t)
       /\ deploy' \in [key : Nat, bind : Nat] /\ calm' \in BOOLEAN /\ (calm' => calm)
       /\ left' \in [requests : 0 .. MaxRequests, faults : 0 .. Faults]
  BY <1>4, <1>6 DEF TypedInv, Moves
<1>14. TypedInv' /\ Advance /\ Spent' \in Int /\ Spent' >= Spent
  BY <1>4, <1>5, <1>9, <1>10, <1>11, <1>12, <1>13, TabAdvances
<1>15. JarInv'
  <2>1. jar.session \in {None} \cup Cookie /\ jar.signin \in {None} \cup SignIn
    BY <1>6 DEF TypedInv
  <2> QED BY <1>4, <1>6, <1>7, <1>14, <2>1, DeliveredJar
<1>16. TabInv(k)'
  BY <1>9, <1>14, EmptyTab
<1>17. (InSignIn(k) <=> a.why = "login") /\ Claim(k) = Claim(r)
  BY <1>2, <1>4, <1>9 DEF InSignIn, Claim
<1>18. Claim(k) # 0 =>
         /\ Claim(k) = Claim(tab[t]) \/ realm[Claim(k)].st = "new"
         /\ realm'[Claim(k)].st = IF k.pc \in {"answer", "realm"} THEN "begun" ELSE "code"
  <2>1. Claim(r) # 0 => realm[Claim(r)].st = "begun"
    BY <1>1, <1>4 DEF SessionsInv, ClaimsInv
  <2>2. Claim(k) # 0 => k.pc = "realm"
    BY <1>9, <1>17 DEF Claim
  <2> QED BY <1>1, <1>4, <1>17, <2>1, <2>2
<1>19. Calm'
  <2> SUFFICES ASSUME calm'
               PROVE  /\ \A u, w \in Tabs : Busy(u)' /\ Busy(w)' => u = w
                      /\ (\A u \in Tabs : tab'[u].pc # "answer") => Good(jar.session)'
                      /\ \A u \in Tabs :
                           /\ tab'[u].pc \in {"sent", "token"} => tab'[u].session \in {None, jar'.session}
                           /\ tab'[u].pc = "answer" => Good(Merge(jar.session, tab[u].answer.session))'
    BY DEF Calm
  <2>1. /\ \A u, w \in Tabs : Busy(u) /\ Busy(w) => u = w
        /\ Good(Merge(jar.session, a.session))
    BY <1>1, <1>2, <1>4 DEF SessionsInv, Calm
  <2>2. tab'[t] = k /\ \A u \in Tabs : u # t => tab'[u] = tab[u]
    BY <1>5, <1>6 DEF TypedInv
  <2>3. Busy(t)
    BY <1>1, <1>4 DEF Busy
  <2>4. \A u \in Tabs : tab'[u].pc \notin {"sent", "token", "answer"}
    BY <1>9, <2>1, <2>2, <2>3 DEF Busy
  <2>5. PICK c : c = Merge(jar.session, a.session)
    OBVIOUS
  <2>6. Good(c)'
    BY <1>4, <2>1, <2>5 DEF Good
  <2>7. jar'.session = c
    BY <1>4, <2>5
  <2> QED BY <2>4, <2>6, <2>7 DEF Busy
<1>20. InSignIn(k) => k.login # 0
  BY <1>9, <1>17
<1>21. \A g \in Logins : realm'[g].gen <= Spent'
  BY <1>4, <1>10 DEF SessionsInv
<1> QED BY <1>4, <1>5, <1>9, <1>11, <1>12, <1>13, <1>14, <1>15, <1>16, <1>18, <1>19, <1>20, <1>21, TabStep

-----------------------------------------------------------------------------
(* The invariant.                                                          *)

LEMMA FirstCookie ==
    ASSUME NEW c, c = SignedIn(1)
    PROVE  /\ c \in Cookie /\ c.deploy = 1 /\ c.bind = 1 /\ c.grant = 1 /\ c.gen = 0 /\ c.own
           /\ c.access_exp = AccessLife /\ c.last = 0 /\ c.refresh_exp = RefreshLife /\ c.born = 0
<1>1. 1 \in Logins /\ AccessLife \in Nat /\ RefreshLife \in Nat /\ MaxTime + 1 \in Nat
  BY SessionConstants DEF Logins
<1> QED BY <1>1 DEF SignedIn, Cookie

LEMMA InitInv == Init => SessionsInv
<1> SUFFICES ASSUME Init
             PROVE  SessionsInv
  OBVIOUS
<1>1. PICK g \in {0, 1} :
         /\ realm = [l \in Logins |-> [st |-> IF l = g THEN "live" ELSE "new", gen |-> 0,
                                       until |-> IF l = g THEN RefreshLife ELSE 0]]
         /\ jar = [session |-> IF g = 0 THEN None ELSE SignedIn(g), signin |-> None]
         /\ left = [requests |-> MaxRequests - g, faults |-> Faults]
  BY DEF Init, BaseInit
<1>2. /\ surface \in {"host", "browser"} /\ rotates \in BOOLEAN /\ deploy = [key |-> 1, bind |-> 1]
      /\ now = 0 /\ tab = [t \in Tabs |-> Idle] /\ calm = TRUE /\ used = 0
  BY DEF Init, BaseInit
<1>3. PICK k : k = Idle
  OBVIOUS
<1>4. /\ k \in TabRecord /\ k.pc = "idle" /\ k.kind = "none" /\ k.at = 0
      /\ k.session = None /\ k.signin = None /\ k.login = 0 /\ k.answer = NoAnswer
  BY <1>3, IdleTab
<1>5. \A t \in Tabs : tab[t] = k
  BY <1>2, <1>3
<1>6. Spent = g
  <2>1. Pending = {}
    BY <1>4, <1>5 DEF Pending
  <2>2. Cardinality(Pending) = 0
    BY <2>1, FS_EmptySet
  <2>3. left.requests = MaxRequests - g /\ g \in Int /\ MaxRequests \in Int
    BY <1>1, SessionConstants
  <2> QED BY <2>2, <2>3 DEF Spent
<1>7. \A l \in Logins :
         /\ realm[l].gen = 0 /\ (l = g => realm[l].st = "live" /\ realm[l].until = RefreshLife)
         /\ realm[l] \in RealmRecord
  <2>1. RefreshLife \in Nat
    BY SessionConstants
  <2> QED BY <1>1, <2>1 DEF RealmRecord
<1>8. PICK c : c = jar.session
  OBVIOUS
<1>9. jar = [session |-> c, signin |-> None]
  BY <1>1, <1>8
<1>10. (c = None /\ g = 0) \/ (c = SignedIn(1) /\ g = 1)
  BY <1>1, <1>8
<1>11. c # None =>
         /\ c \in Cookie /\ c.deploy = 1 /\ c.bind = 1 /\ c.grant = 1 /\ c.gen = 0 /\ c.own
         /\ c.access_exp = AccessLife /\ c.last = 0 /\ c.refresh_exp = RefreshLife /\ c.born = 0
         /\ g = 1 /\ 1 \in Logins
  BY <1>10, FirstCookie, SessionConstants DEF Logins
<1>12. TypedInv
  <2>1. deploy \in [key : Nat, bind : Nat]
    BY <1>2
  <2>2. realm \in [Logins -> RealmRecord]
    BY <1>1, <1>7
  <2>3. jar \in [session : {None} \cup Cookie, signin : {None} \cup SignIn]
    BY <1>9, <1>11
  <2>4. tab \in [Tabs -> TabRecord]
    BY <1>2, <1>3, <1>4
  <2>5. now \in 0 .. MaxTime /\ used \in 0 .. MaxTime
    BY <1>2, SessionConstants
  <2>6. left \in [requests : 0 .. MaxRequests, faults : 0 .. Faults]
    <3>1. MaxRequests - g \in 0 .. MaxRequests /\ Faults \in 0 .. Faults
      BY SessionConstants
    <3> QED BY <1>1, <3>1
  <2> QED BY <1>2, <2>1, <2>2, <2>3, <2>4, <2>5, <2>6 DEF TypedInv
<1>13. \A l \in Logins : realm[l].gen <= Spent
  BY <1>6, <1>7
<1>14. JarInv
  <2>1. c # None => CookieInv(c)
    <3> SUFFICES ASSUME c # None
                 PROVE  CookieInv(c)
      OBVIOUS
    <3>1. c.gen <= Spent /\ c.born <= now /\ c.last <= now /\ c.access_exp <= now + AccessLife
      BY <1>2, <1>6, <1>11, SessionConstants
    <3>2. realm[c.grant].st = "live"
      BY <1>7, <1>11
    <3>3. c.deploy = deploy.key /\ c.bind = deploy.bind
      BY <1>2, <1>11
    <3> QED BY <1>11, <3>1, <3>2, <3>3 DEF CookieInv
  <2>2. c # None => c.last <= used /\ used - c.last <= IdleTimeout \div 10
    BY <1>2, <1>11, HostConstants
  <2>3. jar.signin = None
    BY <1>9
  <2> QED BY <1>8, <2>1, <2>2, <2>3 DEF JarInv
<1>15. TabInv(k)
  <2>1. k.at <= now
    BY <1>2, <1>4
  <2>2. RequestInv(k)
    BY <1>4, <2>1 DEF RequestInv
  <2> QED BY <1>4, <2>2 DEF TabInv
<1>16. ClaimsInv /\ SigningIn
  <2>1. Claim(k) = 0 /\ ~InSignIn(k)
    BY <1>4 DEF Claim, InSignIn
  <2> QED BY <1>5, <2>1 DEF ClaimsInv, SigningIn
<1>17. Calm
  <2>1. Good(c)
    BY <1>7, <1>11, SessionConstants DEF Good
  <2>2. \A t \in Tabs : tab[t].pc \notin {"sent", "token", "answer"}
    BY <1>4, <1>5
  <2> QED BY <1>8, <2>1, <2>2 DEF Calm, Busy
<1>18. \A t \in Tabs : TabInv(tab[t])
  BY <1>5, <1>15
<1> QED BY <1>12, <1>13, <1>14, <1>16, <1>17, <1>18 DEF SessionsInv

LEMMA AroundStep ==
    ASSUME SessionsInv, Around, AtOnce
    PROVE  SessionsInv'
<1>1. UNCHANGED callback_path
  BY DEF Around
<1>2. ASSUME NEW t \in Tabs, Deliver(t) PROVE SessionsInv'
  BY <1>1, <1>2, DeliverStep
<1>3. ASSUME NEW t \in Tabs, LoseAnswer(t) PROVE SessionsInv'
  BY <1>1, <1>3, LoseAnswerStep
<1>4. ASSUME NEW t \in Tabs, RealmSignsIn(t) PROVE SessionsInv'
  BY <1>1, <1>4, RealmSignsInStep
<1>5. ASSUME NEW t \in Tabs, LeaveRealm(t) PROVE SessionsInv'
  BY <1>1, <1>5, LeaveRealmStep
<1>6. ASSUME NEW g \in Logins, RealmEnds(g) PROVE SessionsInv'
  BY <1>1, <1>6, RealmEndsStep
<1>7. ASSUME NEW d \in Jumps, Tick(d) PROVE SessionsInv'
  BY <1>1, <1>7, TickStep
<1>8. ASSUME NEW part \in {"key", "bind"}, Redeploy(part) PROVE SessionsInv'
  BY <1>1, <1>8, RedeployStep
<1> QED BY <1>2, <1>3, <1>4, <1>5, <1>6, <1>7, <1>8 DEF Around

LEMMA HostStep ==
    ASSUME SessionsInv, surface = "host", HostNext, UNCHANGED callback_path
    PROVE  SessionsInv'
<1>1. PICK t \in Tabs :
        \/ \E k \in HostKinds : Send(t, k)
        \/ resolve(t) \/ RefreshRefused(t) \/ login(t) \/ callback(t)
        \/ \E i \in Issues : RefreshGranted(t, i) \/ CodeGranted(t, i)
        \/ \E b \in BOOLEAN : RefreshUnavailable(t, b) \/ logout(t, b) \/ RealmLogout(t, b)
        \/ CodeRefused(t) \/ CodeUnavailable(t)
  BY DEF HostNext
<1>2. ASSUME NEW k \in HostKinds, Send(t, k) PROVE SessionsInv'
  <2>1. k \in HostKinds \cup BrowserKinds
    OBVIOUS
  <2> QED BY <1>2, <2>1, SendStep
<1>3. ASSUME NEW i \in Issues, RefreshGranted(t, i) PROVE SessionsInv'
  BY <1>3, RefreshGrantedStep
<1>4. ASSUME NEW i \in Issues, CodeGranted(t, i) PROVE SessionsInv'
  BY <1>4, CodeGrantedStep
<1>5. ASSUME NEW b \in BOOLEAN, RefreshUnavailable(t, b) PROVE SessionsInv'
  BY <1>5, RefreshUnavailableStep
<1>6. ASSUME NEW b \in BOOLEAN, logout(t, b) PROVE SessionsInv'
  BY <1>6, LogoutStep
<1>7. ASSUME NEW b \in BOOLEAN, RealmLogout(t, b) PROVE SessionsInv'
  BY <1>7, RealmLogoutStep
<1>8. CASE resolve(t)
  BY <1>8, ResolveStep
<1>9. CASE RefreshRefused(t)
  BY <1>9, RefreshRefusedStep
<1>10. CASE login(t)
  BY <1>10, LoginStep
<1>11. CASE callback(t)
  BY <1>11, CallbackStep
<1>12. CASE CodeRefused(t)
  BY <1>12, CodeRefusedStep
<1>13. CASE CodeUnavailable(t)
  BY <1>13, CodeUnavailableStep
<1> QED BY <1>1, <1>2, <1>3, <1>4, <1>5, <1>6, <1>7, <1>8, <1>9, <1>10, <1>11, <1>12, <1>13

LEMMA BrowserStep ==
    ASSUME SessionsInv, surface = "browser", BrowserNext
    PROVE  SessionsInv'
<1>1. PICK t \in Tabs :
        \/ \E k \in BrowserKinds : Send(t, k) /\ UNCHANGED callback_path
        \/ \E keys \in BOOLEAN :
             process_session(t, keys) \/ dual_call(t, keys) \/ handle_logout(t, keys) \/ ExchangeFailed(t, keys)
        \/ \E i \in Issues : TokensRefreshed(t, i) \/ exchange_code(t, i)
        \/ \E how \in {"refused", "unreachable", "lost"} : RefreshFailed(t, how)
        \/ handle_callback(t)
  BY DEF BrowserNext
<1>2. ASSUME NEW k \in BrowserKinds, Send(t, k), UNCHANGED callback_path PROVE SessionsInv'
  <2>1. k \in HostKinds \cup BrowserKinds
    OBVIOUS
  <2> QED BY <1>2, <2>1, SendStep
<1>3. ASSUME NEW keys \in BOOLEAN, process_session(t, keys) PROVE SessionsInv'
  BY <1>3, ProcessStep
<1>4. ASSUME NEW keys \in BOOLEAN, dual_call(t, keys) PROVE SessionsInv'
  BY <1>4, DualCallStep
<1>5. ASSUME NEW keys \in BOOLEAN, handle_logout(t, keys) PROVE SessionsInv'
  BY <1>5, HandleLogoutStep
<1>6. ASSUME NEW keys \in BOOLEAN, ExchangeFailed(t, keys) PROVE SessionsInv'
  BY <1>6, ExchangeFailedStep
<1>7. ASSUME NEW i \in Issues, TokensRefreshed(t, i) PROVE SessionsInv'
  BY <1>7, TokensRefreshedStep
<1>8. ASSUME NEW i \in Issues, exchange_code(t, i) PROVE SessionsInv'
  BY <1>8, ExchangeStep
<1>9. ASSUME NEW how \in {"refused", "unreachable", "lost"}, RefreshFailed(t, how) PROVE SessionsInv'
  BY <1>9, RefreshFailedStep
<1>10. CASE handle_callback(t)
  BY <1>10, HandleCallbackStep
<1> QED BY <1>1, <1>2, <1>3, <1>4, <1>5, <1>6, <1>7, <1>8, <1>9, <1>10

\* A step that changes nothing.
LEMMA StutterStep ==
    ASSUME SessionsInv, UNCHANGED vars
    PROVE  SessionsInv'
<1>1. UNCHANGED <<surface, rotates, deploy, now, realm, jar, tab, left, calm, used, callback_path>>
  BY DEF vars, base
<1>2. TypedInv /\ now \in Int /\ Spent \in Int
  BY LeftIsBounded DEF SessionsInv, TypedInv
<1>3. TypedInv'
  BY <1>1, <1>2 DEF TypedInv
<1>4. Spent' = Spent
  BY <1>1, SpentUnchanged
<1>5. Advance
  BY <1>1, <1>2, <1>4 DEF Advance
<1>6. Calm'
  BY <1>1 DEF SessionsInv, Calm, Good, Busy, Merge
<1>7. \A g \in Logins : realm'[g].gen <= Spent'
  BY <1>1, <1>4 DEF SessionsInv
<1> QED BY <1>1, <1>3, <1>5, <1>6, <1>7, Outside

(* The inductive invariant behind the theorems below: what every cookie,   *)
(* request and answer may be worth, and, in calm, that the session in the  *)
(* jar, or the one on its way to it, is the one the realm will refresh.    *)
THEOREM SessionsInvariant == Spec => []SessionsInv
<1>1. SessionsInv /\ [Next]_vars => SessionsInv'
  <2> SUFFICES ASSUME SessionsInv, [Next]_vars
               PROVE  SessionsInv'
    OBVIOUS
  <2>1. CASE Next
    BY <2>1, AroundStep, HostStep, BrowserStep DEF Next
  <2>2. CASE UNCHANGED vars
    BY <2>2, StutterStep
  <2> QED BY <2>1, <2>2
<1> QED BY InitInv, <1>1, PTL DEF Spec

(* A browser that sends one request at a time, gets every answer and whose *)
(* realm works is never signed out by a refused refresh, whichever         *)
(* component serves it (HostSessions::resolve, process_session).           *)
THEOREM SessionLasts == Spec => []CalmSessionLasts
<1>1. SessionsInv => CalmSessionLasts
  <2> SUFFICES ASSUME SessionsInv, NEW t \in Tabs, NEW r, r = tab[t], calm, r.session # None, r.pc = "answer",
                      r.answer.why \in {"RefreshRefused", "Invalid", "BindingMismatch", "session_expired"}
               PROVE  now >= r.session.refresh_exp
    BY DEF CalmSessionLasts, Answered
  <2>1. AnswerInv(r, r.answer)
    BY DEF SessionsInv, TabInv
  <2> QED BY <2>1 DEF AnswerInv, CalmInv
<1> QED BY <1>1, SessionsInvariant, PTL

(* Whoever is admitted holds a token of this client that had not expired,  *)
(* in a session that has not idled, and that the realm ended no longer ago *)
(* than one access token lives (HostSessions::resolve, process_session,    *)
(* validate_access_token_str).                                             *)
THEOREM AdmissionsEntitled == Spec => []AdmittedIsEntitled
<1>1. SessionsInv => AdmittedIsEntitled
  <2> SUFFICES ASSUME SessionsInv
               PROVE  AdmittedIsEntitled
    OBVIOUS
  <2>0. TypedInv /\ JarInv /\ \A t \in Tabs : tab[t] \in TabRecord /\ TabInv(tab[t])
    BY DEF SessionsInv, TypedInv
  <2>1. TypeOK
    <3>1. \A g \in Logins : realm[g].st \in {"new", "begun", "code", "live", "ended"}
                            /\ realm[g].gen \in 0 .. MaxRequests
      <4> SUFFICES ASSUME NEW g \in Logins
                   PROVE  /\ realm[g].st \in {"new", "begun", "code", "live", "ended"}
                          /\ realm[g].gen \in 0 .. MaxRequests
        OBVIOUS
      <4>1. realm[g] \in RealmRecord /\ realm[g].gen <= Spent
        BY <2>0 DEF SessionsInv, TypedInv
      <4>2. MaxRequests \in Nat /\ Spent \in Int /\ Spent <= MaxRequests
        BY <2>0, LeftIsBounded
      <4> QED BY <4>1, <4>2 DEF RealmRecord
    <3>2. jar.session \in {None} \cup Cookie /\ jar.signin \in {None} \cup SignIn
      BY <2>0 DEF TypedInv
    <3>3. \A t \in Tabs : tab[t].pc \in {"idle", "sent", "token", "answer", "realm", "landed"}
      BY <2>0 DEF TabRecord
    <3>4. left.requests \in 0 .. MaxRequests /\ left.faults \in 0 .. Faults
      BY <2>0, LeftIsBounded
    <3> QED BY <2>0, <3>1, <3>2, <3>3, <3>4 DEF TypeOK, TypedInv
  <2>2. ASSUME NEW t \in Tabs, Answered(t, {"Active"}), NEW r, r = tab[t], NEW a, a = r.answer
        PROVE  /\ r \in TabRecord /\ RequestInv(r) /\ AdmitInv(r, a)
               /\ a.admit \in Cookie /\ CookieInv(a.admit)
    <3>1. r.pc = "answer" /\ a.why = "Active"
      BY <2>2 DEF Answered
    <3>2. r \in TabRecord /\ RequestInv(r) /\ AnswerInv(r, a)
      BY <2>0, <2>2, <3>1 DEF TabInv
    <3>3. a.admit \in {None} \cup Cookie
      BY <2>2, <3>2 DEF TabRecord, Answers
    <3> QED BY <3>1, <3>2, <3>3 DEF AnswerInv, AdmitInv
  <2>3. AdmittedIsGenuine
    <3> SUFFICES ASSUME NEW t \in Tabs, Answered(t, {"Active"}), NEW r, r = tab[t], NEW a, a = r.answer
                 PROVE  a.admit.own /\ r.at <= a.admit.access_exp + Leeway /\ r.at <= r.session.refresh_exp + Leeway
      BY DEF AdmittedIsGenuine
    <3> QED BY <2>2 DEF AdmitInv
  <2>4. EndedSessionRunsOut
    <3> SUFFICES ASSUME NEW t \in Tabs, Answered(t, {"Active"}), NEW r, r = tab[t], NEW a, a = r.answer,
                        NEW c, c = a.admit, realm[c.grant].st = "ended"
                 PROVE  r.at <= realm[c.grant].until + AccessLife + Leeway
      BY DEF EndedSessionRunsOut
    <3>1. r \in TabRecord /\ AdmitInv(r, a) /\ c \in Cookie /\ CookieInv(c)
      BY <2>2
    <3>2. r.at <= c.access_exp + Leeway /\ c.access_exp <= realm[c.grant].until + AccessLife
      BY <3>1 DEF AdmitInv, CookieInv
    <3>3. r.at \in Int /\ c.access_exp \in Int /\ c.grant \in Logins
      BY <3>1, CookieFields DEF TabRecord
    <3>4. realm[c.grant].until \in Int /\ AccessLife \in Int /\ Leeway \in Int
      BY <2>0, <3>3, SessionConstants DEF TypedInv, RealmRecord, Leeway
    <3> QED BY <3>2, <3>3, <3>4
  <2>5. IdleWindow
    <3> SUFFICES ASSUME NEW t \in Tabs, surface = "host", NEW r, r = tab[t], NEW c, c = r.session,
                        c # None, c = jar.session
                 PROVE  /\ Answered(t, {"Active"}) => r.at - used <= IdleTimeout
                        /\ calm /\ Answered(t, {"Idle"}) => r.at - used > IdleTimeout - IdleTimeout \div 10
      BY DEF IdleWindow
    <3>1. /\ c \in Cookie /\ r.at \in Int /\ c.last \in Int /\ used \in Int /\ IdleTimeout \in Int
          /\ IdleTimeout \div 10 \in Int
      BY <2>0, CookieFields, HostConstants DEF TabRecord, TypedInv
    <3>2. c.last <= used /\ (calm => used - c.last <= IdleTimeout \div 10)
      BY <2>0 DEF JarInv
    <3>3. ASSUME Answered(t, {"Active"}) PROVE r.at - used <= IdleTimeout
      <4>1. r.at - c.last <= IdleTimeout
        BY <2>2, <3>3 DEF AdmitInv
      <4> QED BY <3>1, <3>2, <4>1
    <3>4. ASSUME calm, Answered(t, {"Idle"}) PROVE r.at - used > IdleTimeout - IdleTimeout \div 10
      <4>1. AnswerInv(r, r.answer) /\ r.answer.why = "Idle"
        BY <2>0, <3>4 DEF TabInv, Answered
      <4>2. r.at - c.last > IdleTimeout
        BY <4>1 DEF AnswerInv
      <4> QED BY <3>1, <3>2, <3>4, <4>2
    <3> QED BY <3>3, <3>4
  <2> QED BY <2>1, <2>3, <2>4, <2>5 DEF AdmittedIsEntitled
<1> QED BY <1>1, SessionsInvariant, PTL

(* A code reaches the token endpoint only with the verifier of its own     *)
(* sign-in, however many tabs sign in at once, and a calm sign-in finds    *)
(* its cookie (HostSessions::callback, handle_callback).                   *)
THEOREM SignInsUndisturbed == Spec => []SignInsComplete
<1>1. SessionsInv => SignInsComplete
  <2> SUFFICES ASSUME SessionsInv
               PROVE  SignInsComplete
    OBVIOUS
  <2>1. CodesAreNotWasted
    BY DEF CodesAreNotWasted, SessionsInv, TabInv, RequestInv
  <2>2. CalmSignInCompletes
    <3> SUFFICES ASSUME NEW t \in Tabs, NEW r, r = tab[t], calm, callback_path = StateCookiePath, r.pc = "answer",
                        r.answer.why \in {"sign_in", "no_state", "code_refused", "exchange_failed"}
                 PROVE  \/ surface = "host" /\ r.signin # None /\ r.at - r.signin.at > SignInTtl
                        \/ r.signin = None \/ r.signin.login # r.login
      BY DEF CalmSignInCompletes, Answered
    <3>1. CalmInv(r, r.answer)
      BY DEF SessionsInv, TabInv, AnswerInv
    <3> QED BY <3>1 DEF CalmInv
  <2> QED BY <2>1, <2>2 DEF SignInsComplete
<1> QED BY <1>1, SessionsInvariant, PTL

-----------------------------------------------------------------------------
(* Runs of a step, for the recursive functions of the model.               *)

\* A set of numbers has a least one.
LEMMA Smallest ==
    ASSUME NEW S \in SUBSET Nat, S # {}
    PROVE  \E i \in S : \A j \in S : i <= j
<1>1. PICK i \in S : \A j \in S : ~(<<j, i>> \in OpToRel(<, Nat))
  BY NatLessThanWellFounded, WFMin
<1>2. \A j \in S : j \in Nat /\ i \in Nat /\ ~(j < i)
  BY <1>1 DEF OpToRel
<1> QED BY <1>2

\* A first state and a step for each place make a run.
IsRun(f, S, first, last, step) ==
  f \in [0 .. last -> S] /\ f[0] = first /\ \A n \in 1 .. last : f[n] = step[n][f[n - 1]]
LEMMA RunExists ==
    ASSUME NEW S, NEW first \in S, NEW last \in Nat, NEW step \in [1 .. last -> [S -> S]]
    PROVE  \E f : IsRun(f, S, first, last, step)
<1> DEFINE Run(m, f) == f[0] = first /\ \A n \in 1 .. m : f[n] = step[n][f[n - 1]]
           Short == {m \in 0 .. last : ~\E f \in [0 .. m -> S] : Run(m, f)}
<1>1. ASSUME Short # {} PROVE FALSE
  <2>1. PICK m \in Short : \A j \in Short : m <= j
    <3>1. Short \in SUBSET Nat
      OBVIOUS
    <3> QED BY <1>1, <3>1, Smallest
  <2>2. m # 0
    <3> DEFINE f == [n \in 0 .. 0 |-> first]
    <3>1. f \in [0 .. 0 -> S] /\ Run(0, f)
      OBVIOUS
    <3> QED BY <2>1, <3>1
  <2>3. m \in 1 .. last /\ m - 1 \in 0 .. last /\ m - 1 \notin Short
    <3>1. m \in 0 .. last
      OBVIOUS
    <3>2. m \in 1 .. last /\ m - 1 \in 0 .. last /\ ~(m <= m - 1)
      BY <2>2, <3>1
    <3> HIDE DEF Short
    <3> QED BY <2>1, <3>2
  <2>4. PICK g \in [0 .. m - 1 -> S] : Run(m - 1, g)
    BY <2>3
  <2> DEFINE next == step[m][g[m - 1]]
             f == [n \in 0 .. m |-> IF n = m THEN next ELSE g[n]]
  <2>5. next \in S
    BY <2>3, <2>4
  <2> HIDE DEF next
  <2>6. f \in [0 .. m -> S]
    BY <2>3, <2>4, <2>5
  <2>7. f[m] = next /\ \A n \in 0 .. m - 1 : f[n] = g[n]
    BY <2>3
  <2> HIDE DEF f
  <2>8. ASSUME NEW n \in 1 .. m PROVE f[n] = step[n][f[n - 1]]
    <3>1. n - 1 \in 0 .. m - 1 /\ (n # m => n \in 1 .. m - 1 /\ n \in 0 .. m - 1)
      BY <2>3
    <3> QED BY <2>4, <2>7, <3>1 DEF next
  <2>9. f[0] = first
    BY <2>3, <2>4, <2>7
  <2> QED BY <2>1, <2>6, <2>8, <2>9
<1>2. last \in 0 .. last /\ last \notin Short
  <2> HIDE DEF Short
  <2> QED BY <1>1
<1>3. \E f \in [0 .. last -> S] : Run(last, f)
  BY <1>2
<1> QED BY <1>3 DEF IsRun

-----------------------------------------------------------------------------
(* The rules about settings, documents and tokens.                         *)

\* What a validator says of a token whose algorithm and keys are in order.
LEMMA VerdictFacts ==
    ASSUME NEW f, NEW policy
    PROVE  /\ try_decode_jwt(f, policy) = try_validate_jwt(f, policy)
           /\ try_validate_jwt(f, policy) \in
                {"ok", "InvalidSignature", "Malformed", "InvalidIssuer", "InvalidAudience", "Expired"}
           /\ {"payload", "no_iss", "issuer"} \cap f # {} => try_validate_jwt(f, policy) # "ok"
<1> DEFINE e == jwt_err_to_rejection(f, policy)
<1>1. e \in {"ok", "InvalidSignature", "Malformed", "InvalidIssuer", "InvalidAudience", "Expired"}
  BY DEF jwt_err_to_rejection
<1>2. {"payload", "no_iss", "issuer"} \cap f # {} => e # "ok"
  BY DEF jwt_err_to_rejection
<1> HIDE DEF e
<1> QED BY <1>1, <1>2 DEF try_decode_jwt, try_validate_jwt, e

\* What selecting by issuer adds: the same verdict, or an earlier refusal.
LEMMA SelectedAlike ==
    ASSUME NEW f, NEW policy, NEW keys \in BOOLEAN
    PROVE  validate_inner(f, TRUE, policy, keys) = "ok" <=> validate_inner(f, FALSE, policy, keys) = "ok"
<1> DEFINE one == validate_inner(f, FALSE, policy, keys)
           many == validate_inner(f, TRUE, policy, keys)
<1>1. CASE "header" \in f
  BY <1>1 DEF validate_inner
<1>2. CASE "header" \notin f
  <2>1. one = IssuerState_validate(f, policy, keys)
    BY <1>2 DEF validate_inner
  <2>2. CASE {"payload", "no_iss", "issuer"} \cap f # {}
    <3>1. unverified_issuer(f) \in {"error", "unknown"}
      BY <2>2 DEF unverified_issuer
    <3>2. many \in {"Malformed", "UnknownIssuer"}
      BY <1>2, <3>1 DEF validate_inner
    <3>3. try_validate_jwt(f, policy) # "ok"
      BY <2>2, VerdictFacts
    <3>4. IssuerState_validate(f, policy, keys) # "ok"
      BY <3>3 DEF IssuerState_validate
    <3> QED BY <2>1, <3>2, <3>4
  <2>3. CASE {"payload", "no_iss", "issuer"} \cap f = {}
    <3>1. unverified_issuer(f) = "known"
      BY <2>3 DEF unverified_issuer
    <3>2. many = IssuerState_validate(f, policy, keys)
      BY <1>2, <3>1 DEF validate_inner
    <3> QED BY <2>1, <3>2
  <2> QED BY <2>2, <2>3
<1> QED BY <1>1, <1>2

\* What one issuer's validator, the browser layer and the dual-mode layer
\* say, by what is wrong with the token.
StatusOf(verdict) == IF verdict = "ok" THEN 200 ELSE IF verdict = "JwksUnavailable" THEN 503 ELSE 401
LEMMA JudgedAs ==
    ASSUME NEW f, NEW policy, NEW keys \in BOOLEAN
    PROVE  /\ validate_inner(f, FALSE, policy, keys) = validate_access_token_str(f, policy, keys)
           /\ validate_bearer_token(f, policy, keys)[1] =
                StatusOf(validate_access_token_str(f, policy, keys))
<1> DEFINE one == validate_inner(f, FALSE, policy, keys)
           layered == validate_access_token_str(f, policy, keys)
           dual == validate_bearer_token(f, policy, keys)
           v == try_validate_jwt(f, policy)
<1>0. /\ try_decode_jwt(f, policy) = v
      /\ v \in {"ok", "InvalidSignature", "Malformed", "InvalidIssuer", "InvalidAudience", "Expired"}
  BY VerdictFacts
<1> HIDE DEF v
<1>1. CASE "header" \in f
  <2>1. one = "Undecodable" /\ layered = "Undecodable" /\ dual = <<401, "invalid_token">>
    <3>1. one = "Undecodable"
      BY <1>1 DEF validate_inner
    <3>2. layered = "Undecodable"
      BY <1>1 DEF validate_access_token_str
    <3>3. dual = <<401, "invalid_token">>
      BY <1>1 DEF validate_bearer_token
    <3> QED BY <3>1, <3>2, <3>3
  <2> HIDE DEF one, layered, dual
  <2>2. one = layered /\ dual[1] = StatusOf(layered)
    BY <2>1 DEF StatusOf
  <2> QED BY <2>2 DEF one, layered, dual
<1>2. CASE "header" \notin f /\ "alg" \in f
  <2>1. one = "UnsupportedAlgorithm" /\ layered = "UnsupportedAlgorithm" /\ dual = <<401, "UnsupportedAlgorithm">>
    <3>1. one = "UnsupportedAlgorithm"
      BY <1>2 DEF validate_inner, IssuerState_validate
    <3>2. layered = "UnsupportedAlgorithm"
      BY <1>2 DEF validate_access_token_str
    <3>3. dual = <<401, "UnsupportedAlgorithm">>
      BY <1>2 DEF validate_bearer_token
    <3> QED BY <3>1, <3>2, <3>3
  <2> HIDE DEF one, layered, dual
  <2>2. one = layered /\ dual[1] = StatusOf(layered)
    BY <2>1 DEF StatusOf
  <2> QED BY <2>2 DEF one, layered, dual
<1>3. CASE "header" \notin f /\ "alg" \notin f /\ ~keys
  <2>1. one = "JwksUnavailable" /\ layered = "JwksUnavailable" /\ dual = <<503, "">>
    <3>1. one = "JwksUnavailable"
      BY <1>3 DEF validate_inner, IssuerState_validate
    <3>2. layered = "JwksUnavailable"
      BY <1>3 DEF validate_access_token_str
    <3>3. dual = <<503, "">>
      BY <1>3 DEF validate_bearer_token
    <3> QED BY <3>1, <3>2, <3>3
  <2> HIDE DEF one, layered, dual
  <2>2. one = layered /\ dual[1] = StatusOf(layered)
    BY <2>1 DEF StatusOf
  <2> QED BY <2>2 DEF one, layered, dual
<1>4. CASE "header" \notin f /\ "alg" \notin f /\ keys /\ "kid" \in f
  <2>1. one = "UnknownKey" /\ layered = "UnknownKey" /\ dual = <<401, "UnknownKey">>
    <3>1. one = "UnknownKey"
      BY <1>4 DEF validate_inner, IssuerState_validate
    <3>2. layered = "UnknownKey"
      BY <1>4 DEF validate_access_token_str
    <3>3. dual = <<401, "UnknownKey">>
      BY <1>4 DEF validate_bearer_token
    <3> QED BY <3>1, <3>2, <3>3
  <2> HIDE DEF one, layered, dual
  <2>2. one = layered /\ dual[1] = StatusOf(layered)
    BY <2>1 DEF StatusOf
  <2> QED BY <2>2 DEF one, layered, dual
<1>5. CASE "header" \notin f /\ "alg" \notin f /\ keys /\ "kid" \notin f
  <2>1. f \cap {"header", "alg"} = {}
    BY <1>5
  <2>2. one = v /\ layered = v
    BY <1>0, <1>5, <2>1 DEF validate_inner, IssuerState_validate, validate_access_token_str, v
  <2>3. dual = IF try_decode_jwt(f, policy) = "ok" THEN <<200, "ok">> ELSE <<401, try_decode_jwt(f, policy)>>
    BY <1>5, <2>1 DEF validate_bearer_token
  <2> HIDE DEF one, layered, dual
  <2>4. one = layered /\ dual[1] = StatusOf(layered)
    BY <1>0, <2>2, <2>3 DEF StatusOf
  <2> QED BY <2>4 DEF one, layered, dual
<1> QED BY <1>1, <1>2, <1>3, <1>4, <1>5

\* The answer of the resource server's layer, by its validator's verdict.
LEMMA AnsweredAs ==
    ASSUME NEW f, NEW multi, NEW policy, NEW keys
    PROVE  layer_call([kind |-> "bearer", flaws |-> f], multi, policy, keys)[1] =
             StatusOf(validate_inner(f, multi, policy, keys))
<1> DEFINE auth == [kind |-> "bearer", flaws |-> f]
           e == validate_inner(f, multi, policy, keys)
<1>1. authorize_inner(auth, multi, policy, keys) = e
  BY DEF authorize_inner
<1>2. layer_call(auth, multi, policy, keys) = IF e = "ok" THEN <<200, "ok">> ELSE error_to_response(e)
  BY <1>1 DEF layer_call
<1> HIDE DEF e
<1>3. error_to_response(e)[1] = IF e = "JwksUnavailable" THEN 503 ELSE 401
  BY DEF error_to_response
<1>4. layer_call(auth, multi, policy, keys)[1] =
        StatusOf(e)
  BY <1>2, <1>3 DEF StatusOf
<1> QED BY <1>4 DEF e, auth

\* Which tokens the browser layer admits: those with nothing wrong that it
\* looks at, when it has the keys.
LEMMA AdmittedTokens ==
    ASSUME NEW f \in SUBSET Flaws, NEW policy \in AudiencePolicy, NEW keys \in BOOLEAN
    PROVE  validate_access_token_str(f, policy, keys) = "ok" <=> keys /\ f \subseteq Overlooked(policy)
<1> DEFINE early == {"header", "alg", "kid"}
           late == {"signature", "payload", "no_exp", "no_iss", "expired", "issuer"}
           aud == {"no_aud", "audience"}
           e == jwt_err_to_rejection(f, policy)
           v == try_decode_jwt(f, policy)
           layered == validate_access_token_str(f, policy, keys)
<1>1. e = "ok" <=> f \cap late = {} /\ (policy # "Unchecked" => f \cap aud = {})
  BY DEF jwt_err_to_rejection, apply_audience_policy
<1> HIDE DEF e
<1>2. v = "ok" <=> e = "ok" /\ "no_sub" \notin f
  BY DEF try_decode_jwt, e
<1> HIDE DEF v
<1>3. layered = "ok" <=> f \cap early = {} /\ keys /\ v = "ok"
  <2>1. CASE "header" \in f
    BY <2>1 DEF validate_access_token_str
  <2>2. CASE "header" \notin f /\ "alg" \in f
    BY <2>2 DEF validate_access_token_str
  <2>3. CASE f \cap {"header", "alg"} = {} /\ ~keys
    BY <2>3 DEF validate_access_token_str
  <2>4. CASE f \cap {"header", "alg"} = {} /\ keys /\ "kid" \in f
    BY <2>4 DEF validate_access_token_str
  <2>5. CASE f \cap early = {} /\ keys
    BY <2>5 DEF validate_access_token_str, v
  <2> QED BY <2>1, <2>2, <2>3, <2>4, <2>5
<1> HIDE DEF layered
<1>4. f \subseteq Overlooked(policy)
        <=> /\ f \cap early = {} /\ f \cap late = {} /\ "no_sub" \notin f
            /\ policy # "Unchecked" => f \cap aud = {}
  <2> DEFINE seen == IF policy = "Unchecked" THEN {} ELSE aud
             bad == early \cup late \cup {"no_sub"} \cup seen
             over == Overlooked(policy)
  <2>1. bad \cap over = {}
    BY DEF Overlooked
  <2>2. f \subseteq bad \cup over
    <3>1. Flaws \subseteq bad \cup over
      BY DEF Flaws, Overlooked
    <3> QED BY <3>1
  <2> HIDE DEF early, late, aud, seen, over
  <2>3. f \cap bad = {} <=> f \subseteq over
    BY <2>1, <2>2
  <2>4. f \cap bad = {} <=> f \cap early = {} /\ f \cap late = {} /\ "no_sub" \notin f /\ f \cap seen = {}
    OBVIOUS
  <2>5. f \cap seen = {} <=> (policy # "Unchecked" => f \cap aud = {})
    BY DEF seen
  <2> QED BY <2>3, <2>4, <2>5 DEF over
<1> QED BY <1>1, <1>2, <1>3, <1>4 DEF layered

\* What the three say of one token.
JudgedAlike(f, policy, keys) ==
  LET auth == [kind |-> "bearer", flaws |-> f]
      one == layer_call(auth, FALSE, policy, keys)
      layered == validate_access_token_str(f, policy, keys)
      dual == validate_bearer_token(f, policy, keys)
  IN /\ one[1] = 200 <=> keys /\ f \subseteq Overlooked(policy)
     /\ one[1] = 200 <=> layered = "ok"
     /\ one[1] = dual[1]
     /\ one[1] = 503 <=> layered = "JwksUnavailable"
     /\ one[1] = 200 <=> layer_call(auth, TRUE, policy, keys)[1] = 200

\* The three validators judge a token alike, whatever is wrong with it: they
\* admit exactly the ones with no flaw but a future nbf or an audience nobody
\* checks, and blame missing keys on the same ones (layer_call,
\* validate_access_token_str, validate_bearer_token).
THEOREM OneJudgement ==
    ASSUME NEW f \in SUBSET Flaws, NEW policy \in AudiencePolicy, NEW keys \in BOOLEAN
    PROVE  JudgedAlike(f, policy, keys)
<1> DEFINE auth == [kind |-> "bearer", flaws |-> f]
           one == layer_call(auth, FALSE, policy, keys)[1]
           many == layer_call(auth, TRUE, policy, keys)[1]
           layered == validate_access_token_str(f, policy, keys)
           dual == validate_bearer_token(f, policy, keys)[1]
           sole == validate_inner(f, FALSE, policy, keys)
           chosen == validate_inner(f, TRUE, policy, keys)
<1>1. one = StatusOf(sole)
  BY AnsweredAs DEF one, auth, sole
<1>2. many = StatusOf(chosen)
  BY AnsweredAs DEF many, auth, chosen
<1>3. sole = layered /\ dual = StatusOf(layered)
  BY JudgedAs
<1>4. chosen = "ok" <=> sole = "ok"
  BY SelectedAlike
<1>5. layered = "ok" <=> keys /\ f \subseteq Overlooked(policy)
  BY AdmittedTokens
<1> HIDE DEF one, many, layered, dual, sole, chosen
<1>6. /\ one = 200 <=> layered = "ok"
      /\ one = dual
      /\ one = 503 <=> layered = "JwksUnavailable"
      /\ one = 200 <=> many = 200
  BY <1>1, <1>2, <1>3, <1>4 DEF StatusOf
<1> QED BY <1>5, <1>6 DEF one, many, layered, dual, auth, JudgedAlike

\* The same of the tokens that are checked.
LEMMA TokensAlike == TokensJudgedAlike
<1> SUFFICES ASSUME NEW f \in SUBSET Flaws, NEW policy \in AudiencePolicy, NEW keys \in BOOLEAN
             PROVE  JudgedAlike(f, policy, keys)
  BY DEF TokensJudgedAlike, JudgedAlike
<1> QED BY OneJudgement

\* A host's two tests for its own pages.
LEMMA PagesAreOwn == OwnPages
BY DEF OwnPages, is_same_origin, cross_site

\* The size of a sealed cookie grows with what it holds.
LEMMA SealedGrows ==
    ASSUME NEW m \in Nat, NEW n \in Nat, m <= n
    PROVE  sealed_len(m) <= sealed_len(n) /\ sealed_len(m) \in Nat
BY DEF sealed_len

\* A host that accepted its settings can store the session it was sized for,
\* whatever the sizes (HostSessions::new against SessionRecord::encode).
THEOREM SessionFits ==
    ASSUME NEW c, NEW a \in Nat, NEW r \in Nat, c.tokens = <<a, r>>, c.binding \in Nat, c.cookie_name \in Nat,
           c.max_cookie \in Nat, HostSessions_new(c)
    PROVE  c.cookie_name + 1
           + sealed_len(record_len(c.binding, [jws |-> TRUE, len |-> a], [jws |-> TRUE, len |-> r])) <= c.max_cookie
<1> DEFINE A == (a * 3) \div 4
           R == (r * 3) \div 4
           held == record_len(c.binding, [jws |-> TRUE, len |-> a], [jws |-> TRUE, len |-> r])
           meant == 43 + c.binding + A + R + 16
<1>1. A \in Nat /\ R \in Nat
  OBVIOUS
<1>2. held = 43 + c.binding + (1 + 3 * 2 + A) + (1 + 3 * 2 + R)
  BY DEF record_len, put_token
<1>3. c.cookie_name + 1 + sealed_len(meant) <= c.max_cookie
  BY DEF HostSessions_new, expected_cookie
<1> HIDE DEF A, R
<1>4. held \in Nat /\ meant \in Nat /\ held <= meant
  BY <1>1, <1>2
<1> HIDE DEF held, meant
<1>5. sealed_len(held) <= sealed_len(meant) /\ sealed_len(held) \in Nat /\ sealed_len(meant) \in Nat
  BY <1>4, SealedGrows
<1> QED BY <1>3, <1>5 DEF held

\* An issuer that is taken is encrypted or on this machine, and its own name.
LEMMA NormalIssuer ==
    ASSUME NEW u, normalize_issuer(u) # Error, u.scheme \in {"https", "http"}
    PROVE  /\ IsUrl(u) /\ SecureScheme(u) /\ SecureScheme(normalize_issuer(u))
           /\ normalize_issuer(normalize_issuer(u)) = normalize_issuer(u)
<1> DEFINE port == IF u.port = "default" THEN "none" ELSE u.port
           n == Url(u.scheme, u.host, port, u.path, 0)
<1>1. IsUrl(u) /\ SecureScheme(u) /\ normalize_issuer(u) = n
  BY DEF normalize_issuer
<1>2. n.scheme = u.scheme /\ n.host = u.host /\ n.port = port /\ n.path = u.path
  BY DEF Url
<1>3. port # "default"
  OBVIOUS
<1> HIDE DEF n, port
<1>4. SecureScheme(n) /\ IsUrl(n)
  BY <1>1, <1>2 DEF SecureScheme, is_loopback, IsUrl
<1>5. normalize_issuer(n) = Url(n.scheme, n.host, n.port, n.path, 0)
  BY <1>2, <1>3, <1>4 DEF normalize_issuer
<1>6. normalize_issuer(n) = n
  BY <1>2, <1>5 DEF n
<1> QED BY <1>1, <1>4, <1>6

\* What is built from settings: secure, or refused.
LEMMA BuiltIs ==
    ASSUME NEW c, OidcClientBuilder_build(c) # Error, c.issuer.scheme \in {"https", "http"}
    PROVE  /\ OidcClientBuilder_build(c) = normalize_issuer(c.issuer) /\ secure_issuer(c.issuer)
           /\ SecureScheme(OidcClientBuilder_build(c))
           /\ c.token # No => secure_transport_endpoint(c.token)
<1>1. OidcClientBuilder_build(c) = normalize_issuer(c.issuer) /\ secure_issuer(c.issuer)
  BY DEF OidcClientBuilder_build
<1>2. c.token # No => secure_transport_endpoint(c.token)
  BY DEF OidcClientBuilder_build
<1> QED BY <1>1, <1>2, NormalIssuer

\* Addresses of whatever hosts, ports, paths and parameters.
AnyUrl(hosts, ports, paths, queries) ==
  [scheme : {"https", "http"}, host : hosts, port : ports, path : paths, slashes : Nat,
   creds : BOOLEAN, fragment : BOOLEAN, query : queries]

\* Where a client built with the issuer u and the override o is led.
AddressSafe(u, v, w, o) ==
  LET c == [issuer |-> u, client |-> TRUE, flow |-> "DeviceCode", discovery |-> No, token |-> o,
            cache_dir |-> TRUE, home |-> TRUE]
      issuer == OidcClientBuilder_build(c)
      found == fetch_discovery(issuer, o, [issuer |-> u, token |-> v, device |-> w,
                                           authorization |-> w])
      over == end_session_url(issuer, [issuer |-> u, end |-> v], No, "none")
  IN issuer # Error =>
       /\ SecureScheme(issuer)
       /\ found.ok => /\ SecureScheme(found.device) /\ SecureScheme(found.authorization)
                      /\ SecureScheme(found.token) \/ (found.token = o /\ o.host = "cluster")
       /\ over # Error => SecureScheme(over)

\* Discovery, the override of the token endpoint and the end of a session
\* lead a built client to no address that is neither encrypted nor on this
\* machine, but one the deployment itself set for inside its cluster
\* (OidcClientBuilder::build, fetch_discovery, end_session_url).
THEOREM AnyAddressIsSafe ==
    ASSUME NEW hosts, NEW ports, NEW paths, NEW queries,
           NEW u \in AnyUrl(hosts, ports, paths, queries), NEW v \in AnyUrl(hosts, ports, paths, queries),
           NEW w \in AnyUrl(hosts, ports, paths, queries), NEW o \in {No} \cup AnyUrl(hosts, ports, paths, queries)
    PROVE  AddressSafe(u, v, w, o)
<1> DEFINE c == [issuer |-> u, client |-> TRUE, flow |-> "DeviceCode", discovery |-> No, token |-> o,
                 cache_dir |-> TRUE, home |-> TRUE]
           issuer == OidcClientBuilder_build(c)
           doc == [issuer |-> u, token |-> v, device |-> w, authorization |-> w]
           found == fetch_discovery(issuer, o, doc)
           over == end_session_url(issuer, [issuer |-> u, end |-> v], No, "none")
<1>0. /\ v # No /\ w # No /\ v # Error /\ w # Error
      /\ u.scheme \in {"https", "http"} /\ c.issuer = u /\ c.token = o
  <2>1. \A x \in AnyUrl(hosts, ports, paths, queries) : x.scheme \in {"https", "http"}
    BY DEF AnyUrl
  <2>2. No.scheme = "no" /\ Error.scheme = "error"
    BY DEF No, Error, Url
  <2>3. c.issuer = u /\ c.token = o
    OBVIOUS
  <2> HIDE DEF c
  <2>4. \A x \in AnyUrl(hosts, ports, paths, queries) : x # No /\ x # Error
    BY <2>1, <2>2
  <2> QED BY <2>1, <2>3, <2>4
<1>1. ASSUME issuer # Error
      PROVE  SecureScheme(issuer) /\ (o # No => secure_transport_endpoint(o))
  BY <1>0, <1>1, BuiltIs
<1> HIDE DEF issuer
<1>2. ASSUME issuer # Error, found.ok
      PROVE  /\ SecureScheme(found.device) /\ SecureScheme(found.authorization)
             /\ SecureScheme(found.token) \/ (found.token = o /\ o.host = "cluster")
  <2> DEFINE t == required_discovered_endpoint(v)
             d == optional_discovered_endpoint(w)
  <2>1. t # Error /\ d # Error
    BY <1>2 DEF fetch_discovery
  <2>2. /\ found.token = IF o = No THEN t ELSE o
        /\ found.device = d /\ found.authorization = d
    BY DEF fetch_discovery
  <2>3. t = v /\ d = w /\ SecureScheme(v) /\ SecureScheme(w)
    BY <1>0, <2>1 DEF required_discovered_endpoint, optional_discovered_endpoint, secure_endpoint
  <2> HIDE DEF found, t, d
  <2>4. CASE o = No
    BY <2>2, <2>3, <2>4
  <2>5. CASE o # No
    <3>1. SecureScheme(o) \/ o.host = "cluster"
      BY <1>1, <1>2, <2>5 DEF secure_transport_endpoint
    <3> QED BY <2>2, <2>3, <2>5, <3>1
  <2> QED BY <2>4, <2>5
<1>3. ASSUME over # Error
      PROVE  SecureScheme(over)
  <2>1. over = compose_url(v, No, "none")
    BY <1>0, <1>3 DEF end_session_url
  <2>2. secure_endpoint(v)
    BY <1>3, <2>1 DEF compose_url
  <2>3. over = [v EXCEPT !.query = v.query \cup {"client_id"} \cup {} \cup {}]
    BY <1>3, <2>1 DEF compose_url
  <2>4. over.scheme = v.scheme /\ over.host = v.host
    BY <2>3 DEF AnyUrl
  <2> HIDE DEF over
  <2> QED BY <2>2, <2>4 DEF secure_endpoint, SecureScheme, is_loopback
<1> QED BY <1>1, <1>2, <1>3 DEF c, issuer, found, over, doc, AddressSafe

\* How the parties know two issuers.
IssuerShared(u, v) ==
  LET server(i) == [issuer |-> i, algorithms |-> {"RS256"}, jwks_uri |-> No, static |-> "none", roles_path |-> TRUE]
      client(i, flow) == [issuer |-> i, client |-> TRUE, flow |-> flow, discovery |-> No, token |-> No,
                          cache_dir |-> TRUE, home |-> TRUE, scopes |-> "none"]
      built(i) == OidcClientBuilder_build(client(i, "DeviceCode"))
  IN /\ built(u) # Error =>
          /\ IssuerState_build(server(u)) /\ oidc_dual_mode_layer(server(u))
          /\ normalize_issuer(built(u)) = built(u)
     /\ IssuerState_build(server(u)) <=> oidc_dual_mode_layer(server(u))
     /\ built(u) # Error /\ built(v) # Error =>
          /\ new_multi(<<server(u), server(v)>>) <=> built(u) # built(v)
          /\ built(u) = built(v) <=> cache_key(client(u, "DeviceCode")) = cache_key(client(v, "DeviceCode"))
          /\ cache_key(client(u, "DeviceCode")) # cache_key(client(v, "ClientCredentials"))

\* One issuer for client, resource server, dual-mode layer and host: whoever
\* accepts it accepts it under the same name, two spellings of it share the
\* client's cache entry and cannot be configured as two issuers, and a token
\* of one flow is never served to another (normalize_issuer,
\* OidcClientBuilder::build, OidcValidator::new_multi, cache_key).
THEOREM IssuersAreOne ==
    ASSUME NEW hosts, NEW ports, NEW paths, NEW queries,
           NEW u \in AnyUrl(hosts, ports, paths, queries), NEW v \in AnyUrl(hosts, ports, paths, queries)
    PROVE  IssuerShared(u, v)
<1> DEFINE server(i) == [issuer |-> i, algorithms |-> {"RS256"}, jwks_uri |-> No, static |-> "none", roles_path |-> TRUE]
           client(i, flow) == [issuer |-> i, client |-> TRUE, flow |-> flow, discovery |-> No, token |-> No,
                               cache_dir |-> TRUE, home |-> TRUE, scopes |-> "none"]
           built(i) == OidcClientBuilder_build(client(i, "DeviceCode"))
           name(i) == normalize_issuer(i)
<1>1. \A i : /\ IssuerState_build(server(i)) <=> name(i) # Error
             /\ oidc_dual_mode_layer(server(i)) <=> name(i) # Error
  <2> SUFFICES ASSUME NEW i
               PROVE  /\ IssuerState_build(server(i)) <=> name(i) # Error
                      /\ oidc_dual_mode_layer(server(i)) <=> name(i) # Error
    OBVIOUS
  <2>1. /\ server(i).issuer = i /\ server(i).algorithms # {} /\ server(i).jwks_uri = No
        /\ server(i).static = "none" /\ server(i).roles_path
    OBVIOUS
  <2> HIDE DEF server
  <2> QED BY <2>1 DEF IssuerState_build, oidc_dual_mode_layer
<1>2. \A i \in {u, v} : built(i) # Error => /\ built(i) = name(i)
                                            /\ name(name(i)) = name(i)
  <2> SUFFICES ASSUME NEW i \in {u, v}, built(i) # Error
               PROVE  built(i) = name(i) /\ name(name(i)) = name(i)
    OBVIOUS
  <2>1. i.scheme \in {"https", "http"} /\ client(i, "DeviceCode").issuer = i
    BY DEF AnyUrl
  <2>2. built(i) = name(i)
    BY <2>1, BuiltIs
  <2>3. name(i) # Error
    BY <2>2
  <2> QED BY <2>1, <2>2, <2>3, NormalIssuer
<1>3. \A i, flow : flow \in {"DeviceCode", "ClientCredentials"} =>
        cache_key(client(i, flow)) = <<name(i), TRUE, flow, IF flow = "ClientCredentials" THEN {} ELSE {"openid"}>>
  BY DEF cache_key, effective_scopes
<1>4. new_multi(<<server(u), server(v)>>) <=>
        IssuerState_build(server(u)) /\ IssuerState_build(server(v)) /\ name(u) # name(v)
  <2> DEFINE cs == <<server(u), server(v)>>
  <2>1. Len(cs) = 2 /\ cs[1] = server(u) /\ cs[2] = server(v)
    OBVIOUS
  <2>2. cs[1].issuer = u /\ cs[2].issuer = v
    BY <2>1
  <2> HIDE DEF cs, server
  <2>3. new_multi(cs) <=> /\ IssuerState_build(cs[1]) /\ IssuerState_build(cs[2])
                          /\ normalize_issuer(cs[1].issuer) # normalize_issuer(cs[2].issuer)
    BY <2>1 DEF new_multi
  <2> QED BY <2>1, <2>2, <2>3 DEF cs
<1>5. built(u) # Error =>
            /\ IssuerState_build(server(u)) /\ oidc_dual_mode_layer(server(u))
            /\ name(built(u)) = built(u)
  BY <1>1, <1>2
<1>6. built(u) # Error /\ built(v) # Error =>
            /\ new_multi(<<server(u), server(v)>>) <=> built(u) # built(v)
            /\ built(u) = built(v) <=> cache_key(client(u, "DeviceCode")) = cache_key(client(v, "DeviceCode"))
            /\ cache_key(client(u, "DeviceCode")) # cache_key(client(v, "ClientCredentials"))
  <2> SUFFICES ASSUME built(u) # Error, built(v) # Error
               PROVE
            /\ new_multi(<<server(u), server(v)>>) <=> built(u) # built(v)
            /\ built(u) = built(v) <=> cache_key(client(u, "DeviceCode")) = cache_key(client(v, "DeviceCode"))
            /\ cache_key(client(u, "DeviceCode")) # cache_key(client(v, "ClientCredentials"))
    OBVIOUS
  <2>1. built(u) = name(u) /\ built(v) = name(v)
    BY <1>2
  <2>2. new_multi(<<server(u), server(v)>>) <=> built(u) # built(v)
    BY <1>1, <1>4, <2>1
  <2>3. /\ cache_key(client(u, "DeviceCode")) = <<name(u), TRUE, "DeviceCode", {"openid"}>>
        /\ cache_key(client(v, "DeviceCode")) = <<name(v), TRUE, "DeviceCode", {"openid"}>>
        /\ cache_key(client(v, "ClientCredentials")) = <<name(v), TRUE, "ClientCredentials", {}>>
    BY <1>3
  <2> DEFINE mine == cache_key(client(u, "DeviceCode"))
             theirs == cache_key(client(v, "DeviceCode"))
             secret == cache_key(client(v, "ClientCredentials"))
  <2> HIDE DEF mine, theirs, secret, built, name
  <2>4. mine = <<name(u), TRUE, "DeviceCode", {"openid"}>> /\ theirs = <<name(v), TRUE, "DeviceCode", {"openid"}>>
    BY <2>3 DEF mine, theirs
  <2>5. secret = <<name(v), TRUE, "ClientCredentials", {}>>
    BY <2>3 DEF secret
  <2>6. built(u) = built(v) <=> mine = theirs
    BY <2>1, <2>4
  <2>7. mine # secret
    BY <2>4, <2>5
  <2> QED BY <2>2, <2>6, <2>7 DEF mine, theirs, secret
<1> QED BY <1>1, <1>5, <1>6 DEF built, server, client, IssuerShared

\* Fewer slashes and no fragments: addresses all the same.
LEMMA SomeUrls ==
    ASSUME NEW hosts, NEW ports, NEW paths, NEW queries, NEW most \in SUBSET Nat, NEW cut \in SUBSET BOOLEAN
    PROVE  [scheme : {"https", "http"}, host : hosts, port : ports, path : paths, slashes : most,
            creds : BOOLEAN, fragment : cut, query : queries] \subseteq AnyUrl(hosts, ports, paths, queries)
<1> SUFFICES ASSUME NEW u \in [scheme : {"https", "http"}, host : hosts, port : ports, path : paths, slashes : most,
                               creds : BOOLEAN, fragment : cut, query : queries]
             PROVE  u \in AnyUrl(hosts, ports, paths, queries)
  OBVIOUS
<1>1. /\ u.scheme \in {"https", "http"} /\ u.host \in hosts /\ u.port \in ports /\ u.path \in paths
      /\ u.slashes \in Nat /\ u.creds \in BOOLEAN /\ u.fragment \in BOOLEAN /\ u.query \in queries
  OBVIOUS
<1>2. u = [scheme |-> u.scheme, host |-> u.host, port |-> u.port, path |-> u.path, slashes |-> u.slashes,
           creds |-> u.creds, fragment |-> u.fragment, query |-> u.query]
  OBVIOUS
<1> QED BY <1>1, <1>2 DEF AnyUrl

\* The same of the addresses that are checked.
LEMMA AddressesAreSafe == SafeAddresses
<1> DEFINE any == AnyUrl({"remote", "loopback", "cluster"}, {"none"}, {"/"}, {{}})
<1>1. Urls \subseteq any
  <2>1. {0} \in SUBSET Nat /\ {FALSE} \in SUBSET BOOLEAN
    OBVIOUS
  <2> QED BY <2>1, SomeUrls DEF Urls
<1> HIDE DEF any
<1>2. SUFFICES ASSUME NEW u \in any, NEW v \in any, NEW w \in any, NEW o \in {No} \cup any
               PROVE  AddressSafe(u, v, w, o)
  BY <1>1 DEF SafeAddresses, AddressSafe
<1> QED BY AnyAddressIsSafe DEF any

LEMMA IssuersAgreed == IssuersAgree
<1> DEFINE any == AnyUrl({"remote", "loopback"}, {"none", "default", "8443"}, {"/", "/realm"}, {{}, {"x"}})
<1>1. Issuers \subseteq any
  <2>1. 0 .. 1 \in SUBSET Nat /\ {FALSE} \in SUBSET BOOLEAN
    OBVIOUS
  <2> QED BY <2>1, SomeUrls DEF Issuers
<1> HIDE DEF any
<1>2. SUFFICES ASSUME NEW u \in any, NEW v \in any
               PROVE  IssuerShared(u, v)
  BY <1>1 DEF IssuersAgree, IssuerShared
<1> QED BY IssuersAreOne DEF any

\* A sign-in on this machine is its own.
LEMMA SignInsAreOwn == SignInIsOwn
<1>1. ASSUME NEW n \in 0 .. 1,
             NEW connections \in [1 .. n -> [wellformed : BOOLEAN, path : {"/callback", "/"}, error : BOOLEAN,
                                             states : {<<>>, <<"own">>, <<"other">>, <<"own", "other">>},
                                             codes : {<<>>, <<"x">>, <<"x", "y">>}]],
             wait_for_callback(connections, "own") # "error"
      PROVE  \E c \in {connections[1]} : c.states = <<"own">> /\ c.codes = <<"x">> /\ ~c.error /\ c.path = "/callback"
  <2>1. connections # <<>>
    BY <1>1 DEF wait_for_callback
  <2>2. n = 1
    BY <2>1
  <2> DEFINE line == connections[1]
  <2>3. /\ line.wellformed \in BOOLEAN /\ line.error \in BOOLEAN
        /\ line.codes \in {<<>>, <<"x">>, <<"x", "y">>}
    BY <2>2
  <2>4. parse_request(line, "own") # "error"
    BY <1>1, <2>1 DEF wait_for_callback
  <2> HIDE DEF line
  <2>5. line.states = <<"own">> /\ line.path = "/callback"
    BY <2>3, <2>4 DEF parse_request
  <2>6. ~line.error /\ Len(line.codes) = 1
    BY <2>3, <2>4, <2>5 DEF parse_request
  <2>7. Len(<<>>) = 0 /\ Len(<<"x", "y">>) = 2
    OBVIOUS
  <2>8. line.codes = <<"x">>
    BY <2>3, <2>6, <2>7
  <2> QED BY <2>5, <2>6, <2>8 DEF line
<1>2. ASSUME NEW q \in SUBSET (Reserved \cup {"x"})
      PROVE  LET u == authorization_url([Url("https", "remote", "none", "/", 0) EXCEPT !.query = q])
             IN u = Error \/ (u.query = q \cup Reserved /\ q \cap Reserved = {})
  <2> DEFINE a == [Url("https", "remote", "none", "/", 0) EXCEPT !.query = q]
             u == authorization_url(a)
  <2>1. a.query = q /\ [a EXCEPT !.query = @ \cup Reserved].query = q \cup Reserved
    BY DEF Url
  <2> HIDE DEF a
  <2>2. u = Error \/ (u.query = q \cup Reserved /\ q \cap Reserved = {})
    BY <2>1 DEF authorization_url
  <2> QED BY <2>2 DEF a
<1>3. ASSUME NEW e \in [issuer : BOOLEAN, client : BOOLEAN, secret : BOOLEAN, remote : BOOLEAN, gui : BOOLEAN,
                        flow : {"device", "pkce", "client-credentials", "cc", "auto", "none", "x"}]
      PROVE  /\ from_env(e) = "AuthCodePkce" => e.flow = "pkce" \/ (e.gui /\ ~e.remote)
             /\ e.secret /\ from_env(e) \in {"AuthCodePkce", "DeviceCode"} => e.flow \in {"pkce", "device"}
             /\ from_env(e) = "ClientCredentials" => e.secret
  <2>1. /\ e.issuer \in BOOLEAN /\ e.client \in BOOLEAN /\ e.secret \in BOOLEAN /\ e.remote \in BOOLEAN
        /\ e.gui \in BOOLEAN
        /\ e.flow \in {"device", "pkce", "client-credentials", "cc", "auto", "none", "x"}
    OBVIOUS
  <2>2. pick_interactive_flow(e.remote, e.gui) \in {"AuthCodePkce", "DeviceCode"}
    BY DEF pick_interactive_flow
  <2>3. pick_interactive_flow(e.remote, e.gui) = "AuthCodePkce" => e.gui /\ ~e.remote
    BY DEF pick_interactive_flow
  <2>4. CASE ~e.issuer \/ ~e.client
    <3>1. from_env(e) = "error"
      BY <2>4 DEF from_env
    <3> QED BY <3>1
  <2>5. CASE e.issuer /\ e.client /\ e.flow = "device"
    <3>1. from_env(e) = "DeviceCode"
      BY <2>5 DEF from_env
    <3> QED BY <2>5, <3>1
  <2>6. CASE e.issuer /\ e.client /\ e.flow = "pkce"
    <3>1. from_env(e) = "AuthCodePkce"
      BY <2>6 DEF from_env
    <3> QED BY <2>6, <3>1
  <2>7. CASE e.issuer /\ e.client /\ e.flow \in {"client-credentials", "cc"}
    <3>1. from_env(e) = IF e.secret THEN "ClientCredentials" ELSE "error"
      BY <2>7 DEF from_env
    <3> QED BY <2>1, <3>1
  <2>8. CASE e.issuer /\ e.client /\ e.flow \in {"auto", "none"}
    <3>1. from_env(e) = IF e.secret THEN "ClientCredentials" ELSE pick_interactive_flow(e.remote, e.gui)
      BY <2>8 DEF from_env
    <3> QED BY <2>1, <2>2, <2>3, <3>1
  <2>9. CASE e.issuer /\ e.client /\ e.flow = "x"
    <3>1. from_env(e) = "error"
      BY <2>9 DEF from_env
    <3> QED BY <3>1
  <2> QED BY <2>1, <2>4, <2>5, <2>6, <2>7, <2>8, <2>9
<1>4. ASSUME NEW connections \in
               UNION {[1 .. n -> [wellformed : BOOLEAN, path : {"/callback", "/"}, error : BOOLEAN,
                                  states : {<<>>, <<"own">>, <<"other">>, <<"own", "other">>},
                                  codes : {<<>>, <<"x">>, <<"x", "y">>}]] : n \in 0 .. 1},
             wait_for_callback(connections, "own") # "error"
      PROVE  \E c \in {connections[1]} : c.states = <<"own">> /\ c.codes = <<"x">> /\ ~c.error /\ c.path = "/callback"
  <2>1. PICK n \in 0 .. 1 : connections \in [1 .. n -> [wellformed : BOOLEAN, path : {"/callback", "/"}, error : BOOLEAN,
                                  states : {<<>>, <<"own">>, <<"other">>, <<"own", "other">>},
                                  codes : {<<>>, <<"x">>, <<"x", "y">>}]]
    OBVIOUS
  <2> QED BY <1>1, <1>4, <2>1
<1> QED BY <1>2, <1>3, <1>4 DEF SignInIsOwn

\* The host's sealed session fits its cookie.
LEMMA SizedFits ==
    ASSUME NEW binding \in Nat, NEW a \in Nat, NEW r \in Nat, NEW most \in Nat
    PROVE  SizedSessionFits(binding, a, r, most)
<1> DEFINE c == [issuer |-> Url("https", "remote", "none", "/", 0), jwks_uri |-> No,
                 redirect |-> Url("https", "remote", "none", <<"/auth", "callback">>, 0),
                 prefix |-> "/auth", client |-> TRUE, binding |-> binding, algorithms |-> {"RS256"},
                 idle |-> 60, cookie_name |-> 9, tokens |-> <<a, r>>, max_cookie |-> most]
<1>1. /\ c.tokens = <<a, r>> /\ c.binding = binding /\ c.cookie_name = 9 /\ c.max_cookie = most
  OBVIOUS
<1> HIDE DEF c
<1>2. HostSessions_new(c) =>
        c.cookie_name + 1
        + sealed_len(record_len(binding, [jws |-> TRUE, len |-> a], [jws |-> TRUE, len |-> r])) <= most
  BY <1>1, SessionFits
<1> QED BY <1>2 DEF c, SizedSessionFits

LEMMA ExpectedFits == ExpectedSessionFits
<1> SUFFICES ASSUME NEW binding \in {1, 33}, NEW a \in {0, 3, 1000, 1501, 2400}, NEW r \in {0, 3, 1000, 1501, 2400},
                    NEW most \in {1000, 3800, 4000}
             PROVE  SizedSessionFits(binding, a, r, most)
  BY SMT DEF ExpectedSessionFits
<1>1. binding \in Nat /\ a \in Nat /\ r \in Nat /\ most \in Nat
  OBVIOUS
<1> QED BY <1>1, SizedFits

-----------------------------------------------------------------------------
(* The waits of a device login.                                            *)

Replies == {"authorization_pending", "slow_down", "ok"}

\* The polls of the first m answers.
PolledUpTo(interval, expires, answers, m, polled) ==
  polled = [n \in 0 .. m |->
        IF n = 0 THEN [clock |-> 0, gap |-> interval, asked |-> <<>>, result |-> "waiting"]
        ELSE LET s == polled[n - 1]
                 at == s.clock + s.gap
             IN IF s.result # "waiting" THEN s
                ELSE IF s.clock > expires THEN [s EXCEPT !.result = "expired"]
                ELSE [clock |-> at, asked |-> Append(s.asked, at),
                      gap |-> IF answers[n] = "slow_down" THEN s.gap + 5 ELSE s.gap,
                      result |-> IF answers[n] \in {"authorization_pending", "slow_down"}
                                 THEN "waiting" ELSE answers[n]]]

\* One poll more.
Polled(s, reply, expires) ==
  IF s.result # "waiting" THEN s
  ELSE IF s.clock > expires THEN [s EXCEPT !.result = "expired"]
  ELSE [clock |-> s.clock + s.gap, asked |-> Append(s.asked, s.clock + s.gap),
        gap |-> IF reply = "slow_down" THEN s.gap + 5 ELSE s.gap,
        result |-> IF reply \in {"authorization_pending", "slow_down"} THEN "waiting" ELSE reply]
Unasked(interval) == [clock |-> 0, gap |-> interval, asked |-> <<>>, result |-> "waiting"]

\* The polling is a function on the number of answers.
LEMMA PolledExists ==
    ASSUME NEW interval \in Nat, NEW expires \in Nat, NEW answers, NEW last \in Nat
    PROVE  \E f : PolledUpTo(interval, expires, answers, last, f)
<1> DEFINE States == [clock : Int, gap : Int, asked : Seq(Int),
                      result : {"waiting", "expired"} \cup {answers[i] : i \in 1 .. last}]
           step == [n \in 1 .. last |-> [s \in States |-> Polled(s, answers[n], expires)]]
<1>1. Unasked(interval) \in States
  BY DEF Unasked
<1>2. step \in [1 .. last -> [States -> States]]
  <2> SUFFICES ASSUME NEW n \in 1 .. last, NEW s \in States
               PROVE  Polled(s, answers[n], expires) \in States
    OBVIOUS
  <2>1. /\ s.clock + s.gap \in Int /\ s.gap + 5 \in Int /\ s.gap \in Int
        /\ Append(s.asked, s.clock + s.gap) \in Seq(Int)
    <3>1. s.clock \in Int /\ s.gap \in Int /\ s.asked \in Seq(Int)
      OBVIOUS
    <3>2. s.clock + s.gap \in Int /\ s.gap + 5 \in Int
      BY <3>1
    <3> QED BY <3>1, <3>2, AppendProperties
  <2> QED BY <2>1 DEF Polled
<1> HIDE DEF States
<1> DEFINE first == Unasked(interval)
<1> HIDE DEF step, first
<1>3. PICK f : IsRun(f, States, first, last, step)
  <2>1. first \in States
    BY <1>1 DEF first
  <2> QED BY <1>2, <2>1, RunExists
<1>4. \A n \in 0 .. last : f[n] = IF n = 0 THEN Unasked(interval) ELSE Polled(f[n - 1], answers[n], expires)
  <2> TAKE n \in 0 .. last
  <2>1. CASE n = 0
    BY <1>3, <2>1 DEF IsRun, first
  <2>2. CASE n # 0
    <3>1. n \in 1 .. last /\ n - 1 \in 0 .. last
      BY <2>2
    <3>2. f[n - 1] \in States
      BY <1>3, <3>1 DEF IsRun
    <3> QED BY <1>3, <2>2, <3>1, <3>2 DEF IsRun, step
  <2> QED BY <2>1, <2>2
<1>5. f = [n \in 0 .. last |-> IF n = 0 THEN Unasked(interval) ELSE Polled(f[n - 1], answers[n], expires)]
  BY <1>3, <1>4 DEF IsRun
<1> QED BY <1>5 DEF PolledUpTo, Polled, Unasked

\* How often the first i answers said slow_down.
Slowed(answers, i) == {j \in 1 .. i : answers[j] = "slow_down"}

\* One answer more.
LEMMA SlowedStep ==
    ASSUME NEW answers, NEW n \in Nat, n > 0
    PROVE  /\ Cardinality(Slowed(answers, n - 1)) \in Nat /\ Cardinality(Slowed(answers, n)) \in Nat
           /\ Cardinality(Slowed(answers, n))
              = IF answers[n] = "slow_down" THEN Cardinality(Slowed(answers, n - 1)) + 1
                ELSE Cardinality(Slowed(answers, n - 1))
<1> DEFINE before == Slowed(answers, n - 1)
<1>1. IsFiniteSet(before) /\ Cardinality(before) \in Nat /\ n \notin before
  <2>1. before \in SUBSET (1 .. n - 1)
    BY DEF Slowed
  <2>2. IsFiniteSet(1 .. n - 1)
    BY FS_Interval
  <2>3. IsFiniteSet(before)
    BY <2>1, <2>2, FS_Subset
  <2> QED BY <2>1, <2>3, FS_CardinalityType
<1>2. Slowed(answers, n) = IF answers[n] = "slow_down" THEN before \cup {n} ELSE before
  <2>1. 1 .. n = (1 .. n - 1) \cup {n}
    OBVIOUS
  <2> QED BY <2>1 DEF Slowed
<1> HIDE DEF before
<1>3. Cardinality(before \cup {n}) = Cardinality(before) + 1
  BY <1>1, FS_AddElement
<1> QED BY <1>1, <1>2, <1>3 DEF before

\* What is true of a login after n answers.
Spaced(s, interval, expires, answers, n) ==
  LET slowed(i) == Cardinality(Slowed(answers, i))
  IN /\ s.asked \in Seq(Int) /\ Len(s.asked) <= n
     /\ s.asked # <<>> => s.asked[1] >= interval
     /\ \A i \in 1 .. Len(s.asked) - 1 : s.asked[i + 1] - s.asked[i] >= interval + 5 * slowed(i)
     /\ \A i \in 1 .. Len(s.asked) - 1 : s.asked[i] <= expires
     /\ s.result = "waiting" =>
          /\ s = [clock |-> s.clock, gap |-> s.gap, asked |-> s.asked, result |-> "waiting"]
          /\ Len(s.asked) = n /\ s.clock \in Int /\ s.gap = interval + 5 * slowed(n)
          /\ s.clock = IF n = 0 THEN 0 ELSE s.asked[n]

\* A login that has not asked.
LEMMA UnaskedSpaced ==
    ASSUME NEW interval \in Nat, NEW expires \in Nat, NEW answers
    PROVE  Spaced(Unasked(interval), interval, expires, answers, 0)
<1>1. Slowed(answers, 0) = {}
  BY DEF Slowed
<1>2. Cardinality(Slowed(answers, 0)) = 0
  BY <1>1, FS_EmptySet
<1>3. <<>> \in Seq(Int) /\ Len(<<>>) = 0
  OBVIOUS
<1> QED BY <1>2, <1>3 DEF Spaced, Unasked

\* A poll keeps the distance.
LEMMA PolledSpaced ==
    ASSUME NEW interval \in Nat, NEW expires \in Nat, NEW answers, NEW n \in Nat, n > 0, NEW s,
           Spaced(s, interval, expires, answers, n - 1)
    PROVE  Spaced(Polled(s, answers[n], expires), interval, expires, answers, n)
<1> DEFINE slowed(i) == Cardinality(Slowed(answers, i))
           t == Polled(s, answers[n], expires)
<1>1. /\ s.asked \in Seq(Int) /\ Len(s.asked) <= n - 1 /\ Len(s.asked) \in Nat
      /\ s.asked # <<>> => s.asked[1] >= interval
      /\ \A i \in 1 .. Len(s.asked) - 1 : s.asked[i + 1] - s.asked[i] >= interval + 5 * slowed(i)
      /\ \A i \in 1 .. Len(s.asked) - 1 : s.asked[i] <= expires
      /\ s.result = "waiting" =>
          /\ s = [clock |-> s.clock, gap |-> s.gap, asked |-> s.asked, result |-> "waiting"]
          /\ Len(s.asked) = n - 1 /\ s.clock \in Int /\ s.gap = interval + 5 * slowed(n - 1)
          /\ s.clock = IF n - 1 = 0 THEN 0 ELSE s.asked[n - 1]
  BY LenProperties DEF Spaced
<1>2. slowed(n - 1) \in Nat /\ slowed(n) \in Nat
      /\ slowed(n) = IF answers[n] = "slow_down" THEN slowed(n - 1) + 1 ELSE slowed(n - 1)
  BY SlowedStep
<1>3. CASE s.result # "waiting"
  <2>1. t = s
    BY <1>3 DEF Polled
  <2> HIDE DEF t, slowed
  <2>2. Spaced(s, interval, expires, answers, n)
    BY <1>1, <1>3 DEF Spaced, slowed
  <2> QED BY <2>1, <2>2 DEF t
<1>4. CASE s.result = "waiting" /\ s.clock > expires
  <2>1. t = [s EXCEPT !.result = "expired"]
    BY <1>4 DEF Polled
  <2>2. t.asked = s.asked /\ t.result = "expired"
    BY <1>1, <1>4, <2>1
  <2> HIDE DEF t, slowed
  <2>3. Spaced(t, interval, expires, answers, n)
    BY <1>1, <2>2 DEF Spaced, slowed
  <2> QED BY <2>3 DEF t
<1>5. CASE s.result = "waiting" /\ ~(s.clock > expires)
  <2> DEFINE at == s.clock + s.gap
             a == Append(s.asked, at)
             g == IF answers[n] = "slow_down" THEN s.gap + 5 ELSE s.gap
             r == IF answers[n] \in {"authorization_pending", "slow_down"} THEN "waiting" ELSE answers[n]
  <2>1. t = [clock |-> at, asked |-> a, gap |-> g, result |-> r]
    BY <1>5 DEF Polled
  <2>2. at \in Int /\ s.clock \in Int /\ s.clock <= expires /\ Len(s.asked) = n - 1
    BY <1>1, <1>2, <1>5
  <2>3. /\ a \in Seq(Int) /\ Len(a) = n /\ a[n] = at /\ \A i \in 1 .. n - 1 : a[i] = s.asked[i]
    <3> DEFINE q == s.asked
    <3>1. q \in Seq(Int) /\ at \in Int /\ Len(q) = n - 1
      BY <1>1, <2>2
    <3> HIDE DEF q, at
    <3>2. /\ Append(q, at) \in Seq(Int) /\ Len(Append(q, at)) = Len(q) + 1 /\ Append(q, at)[Len(q) + 1] = at
          /\ \A i \in 1 .. Len(q) : Append(q, at)[i] = q[i]
      BY <3>1, AppendProperties
    <3>3. /\ Append(q, at) \in Seq(Int) /\ Len(Append(q, at)) = n /\ Append(q, at)[n] = at
          /\ \A i \in 1 .. n - 1 : Append(q, at)[i] = q[i]
      BY <3>1, <3>2
    <3> QED BY <3>3 DEF q, a
  <2>4. g = interval + 5 * slowed(n)
    BY <1>1, <1>2, <1>5
  <2>5. t.clock = at /\ t.asked = a /\ t.gap = g /\ t.result = r
    BY <2>1
  <2>6. at - s.clock >= interval + 5 * slowed(n - 1)
    BY <1>1, <1>2, <1>5, <2>2
  <2> HIDE DEF at, a, g, r, slowed
  <2>7. a # <<>> => a[1] >= interval
    <3>1. CASE n = 1
      BY <1>1, <1>2, <1>5, <2>2, <2>3, <2>6, <3>1
    <3>2. CASE n # 1
      <4>1. s.asked # <<>> /\ 1 \in 1 .. n - 1
        BY <2>2, <3>2
      <4> QED BY <1>1, <2>3, <4>1
    <3> QED BY <3>1, <3>2
  <2>8. ASSUME NEW i \in 1 .. Len(a) - 1
        PROVE  a[i + 1] - a[i] >= interval + 5 * slowed(i) /\ a[i] <= expires
    <3>1. CASE i = n - 1
      <4>1. a[i + 1] = at /\ a[i] = s.clock
        BY <1>1, <1>5, <2>2, <2>3, <3>1
      <4> QED BY <2>2, <2>6, <3>1, <4>1
    <3>2. CASE i # n - 1
      <4>1. i \in 1 .. Len(s.asked) - 1 /\ i \in 1 .. n - 1 /\ i + 1 \in 1 .. n - 1
        BY <2>2, <2>3, <3>2
      <4>2. a[i] = s.asked[i] /\ a[i + 1] = s.asked[i + 1]
        BY <2>3, <4>1
      <4> QED BY <1>1, <4>1, <4>2
    <3> QED BY <3>1, <3>2
  <2>9. t = [clock |-> t.clock, gap |-> t.gap, asked |-> t.asked, result |-> t.result]
    BY <2>1
  <2> HIDE DEF t
  <2>10. t.asked \in Seq(Int) /\ Len(t.asked) <= n /\ (t.asked # <<>> => t.asked[1] >= interval)
    BY <2>3, <2>5, <2>7
  <2>11. \A i \in 1 .. Len(t.asked) - 1 :
           t.asked[i + 1] - t.asked[i] >= interval + 5 * slowed(i) /\ t.asked[i] <= expires
    BY <2>5, <2>8
  <2>12. t.result = "waiting" =>
          /\ t = [clock |-> t.clock, gap |-> t.gap, asked |-> t.asked, result |-> "waiting"]
          /\ Len(t.asked) = n /\ t.clock \in Int /\ t.gap = interval + 5 * slowed(n)
          /\ t.clock = IF n = 0 THEN 0 ELSE t.asked[n]
    BY <2>2, <2>3, <2>4, <2>5, <2>9
  <2>13. Spaced(t, interval, expires, answers, n)
    BY <2>10, <2>11, <2>12 DEF Spaced, slowed
  <2> QED BY <2>13 DEF t
<1> QED BY <1>3, <1>4, <1>5

\* However a login goes, its polls keep the distance.
LEMMA LoginSpaced ==
    ASSUME NEW interval \in Nat, NEW expires \in Nat, NEW answers, NEW last \in Nat, last = Len(answers)
    PROVE  \E s : /\ Spaced(s, interval, expires, answers, last)
                  /\ do_device_code_login(interval, expires, answers).asked = s.asked
<1> DEFINE f == CHOOSE g : PolledUpTo(interval, expires, answers, Len(answers), g)
<1>1. PolledUpTo(interval, expires, answers, Len(answers), f)
  BY PolledExists
<1>2. do_device_code_login(interval, expires, answers).asked = f[Len(answers)].asked
  BY DEF do_device_code_login, PolledUpTo
<1> HIDE DEF f
<1>3. \A n \in 0 .. last : f[n] = IF n = 0 THEN Unasked(interval) ELSE Polled(f[n - 1], answers[n], expires)
  BY <1>1 DEF PolledUpTo, Polled, Unasked
<1> DEFINE S == {m \in 0 .. last : ~Spaced(f[m], interval, expires, answers, m)}
<1>4. S = {}
  <2> SUFFICES ASSUME S # {}
               PROVE  FALSE
    OBVIOUS
  <2>1. PICK m \in S : \A j \in S : m <= j
    <3>1. S \in SUBSET Nat
      OBVIOUS
    <3> QED BY <3>1, Smallest
  <2>2. m \in 0 .. last /\ ~Spaced(f[m], interval, expires, answers, m)
    BY <2>1
  <2>3. f[m] = IF m = 0 THEN Unasked(interval) ELSE Polled(f[m - 1], answers[m], expires)
    BY <1>3, <2>2
  <2>4. m # 0
    BY <2>2, <2>3, UnaskedSpaced
  <2>5. m - 1 \in 0 .. last /\ m - 1 \notin S
    BY <2>1, <2>2, <2>4
  <2>6. Spaced(f[m - 1], interval, expires, answers, m - 1)
    BY <2>5
  <2>7. m \in Nat /\ m > 0
    BY <2>2, <2>4
  <2> HIDE DEF S
  <2> QED BY <2>2, <2>3, <2>4, <2>6, <2>7, PolledSpaced
<1>5. Spaced(f[last], interval, expires, answers, last)
  BY <1>4
<1> QED BY <1>2, <1>5

\* The device login respects the interval and every slow_down, and asks once
\* at most after the code expired, whatever the server answers
\* (do_device_code_login).
THEOREM LoginIsPolite ==
    ASSUME NEW interval \in Nat, NEW expires \in Nat, NEW answers, Len(answers) \in Nat
    PROVE
    LET asked == do_device_code_login(interval, expires, answers).asked
        slowed(i) == Cardinality({j \in 1 .. i : answers[j] = "slow_down"})
    IN /\ asked # <<>> => asked[1] >= interval
       /\ \A i \in 1 .. Len(asked) - 1 : asked[i + 1] - asked[i] >= interval + 5 * slowed(i)
       /\ Cardinality({i \in 1 .. Len(asked) : asked[i] > expires}) <= 1
<1> DEFINE asked == do_device_code_login(interval, expires, answers).asked
           late == {i \in 1 .. Len(asked) : asked[i] > expires}
<1>3. PICK s : Spaced(s, interval, expires, answers, Len(answers)) /\ asked = s.asked
  <2> DEFINE m == Len(answers)
  <2>1. m \in Nat /\ m = Len(answers)
    OBVIOUS
  <2> HIDE DEF m, asked
  <2>2. PICK s : Spaced(s, interval, expires, answers, m)
                 /\ do_device_code_login(interval, expires, answers).asked = s.asked
    BY <2>1, LoginSpaced
  <2> QED BY <2>1, <2>2 DEF asked
<1> HIDE DEF asked
<1>4. /\ asked \in Seq(Int) /\ Len(asked) \in Nat
      /\ asked # <<>> => asked[1] >= interval
      /\ \A i \in 1 .. Len(asked) - 1 : asked[i + 1] - asked[i] >= interval + 5 * Cardinality(Slowed(answers, i))
      /\ \A i \in 1 .. Len(asked) - 1 : asked[i] <= expires
  BY <1>3, LenProperties DEF Spaced
<1>5. \A i \in 1 .. Len(asked) : asked[i] \in Int
  BY <1>4, ElementOfSeq
<1>6. late \subseteq {Len(asked)}
  <2> SUFFICES ASSUME NEW i \in 1 .. Len(asked), asked[i] > expires
               PROVE  i = Len(asked)
    OBVIOUS
  <2>1. i # Len(asked) => i \in 1 .. Len(asked) - 1
    BY <1>4
  <2> QED BY <1>4, <1>5, <2>1
<1> HIDE DEF late
<1>7. Cardinality(late) <= 1
  <2>1. IsFiniteSet({Len(asked)}) /\ Cardinality({Len(asked)}) = 1
    BY FS_Singleton
  <2> QED BY <1>6, <2>1, FS_Subset
<1> QED BY <1>4, <1>7 DEF asked, late, Slowed

LEMMA PollsSpaced == PollsAreSpaced
<1> SUFFICES ASSUME NEW interval \in 1 .. 2, NEW expires \in {1, 3, 8},
                    NEW answers \in UNION {[1 .. n -> {"authorization_pending", "slow_down", "ok"}] : n \in 0 .. 4}
             PROVE
    LET asked == do_device_code_login(interval, expires, answers).asked
        slowed(i) == Cardinality({j \in 1 .. i : answers[j] = "slow_down"})
    IN /\ asked # <<>> => asked[1] >= interval
       /\ \A i \in 1 .. Len(asked) - 1 : asked[i + 1] - asked[i] >= interval + 5 * slowed(i)
       /\ Cardinality({i \in 1 .. Len(asked) : asked[i] > expires}) <= 1
  BY DEF PollsAreSpaced
<1>1. PICK n \in 0 .. 4 : answers \in [1 .. n -> {"authorization_pending", "slow_down", "ok"}]
  OBVIOUS
<1>2. answers \in Seq({"authorization_pending", "slow_down", "ok"})
  BY <1>1
<1>3. Len(answers) \in Nat
  BY <1>2, LenProperties
<1>4. interval \in Nat /\ expires \in Nat
  OBVIOUS
<1> QED BY <1>3, <1>4, LoginIsPolite

-----------------------------------------------------------------------------
(* The paths of claims.                                                    *)

Chars == {"a", ".", "\\"}

\* The reading of the first m characters.
ReadUpTo(raw, m, read) ==
  read = [i \in 0 .. m |->
        IF i = 0 THEN [keys |-> <<>>, cur |-> <<>>, escaped |-> FALSE, ok |-> TRUE]
        ELSE LET s == read[i - 1]
                 c == raw[i]
             IN IF ~s.ok THEN s
                ELSE IF s.escaped
                THEN [s EXCEPT !.cur = Append(@, c), !.escaped = FALSE, !.ok = c \in {".", "\\"}]
                ELSE CASE c = "\\" -> [s EXCEPT !.escaped = TRUE]
                       [] c = "." -> [s EXCEPT !.keys = Append(@, s.cur), !.cur = <<>>, !.ok = s.cur # <<>>]
                       [] OTHER -> [s EXCEPT !.cur = Append(@, c)]]

\* One character more, and a reading that has been in order.
Read(s, c) ==
  IF ~s.ok THEN s
  ELSE IF s.escaped
  THEN [s EXCEPT !.cur = Append(@, c), !.escaped = FALSE, !.ok = c \in {".", "\\"}]
  ELSE CASE c = "\\" -> [s EXCEPT !.escaped = TRUE]
         [] c = "." -> [s EXCEPT !.keys = Append(@, s.cur), !.cur = <<>>, !.ok = s.cur # <<>>]
         [] OTHER -> [s EXCEPT !.cur = Append(@, c)]
At(keys, cur) == [keys |-> keys, cur |-> cur, escaped |-> FALSE, ok |-> TRUE]

\* The reading is a function on the number of characters.
LEMMA ReadExists ==
    ASSUME NEW raw, NEW last \in Nat, \A n \in 1 .. last : raw[n] \in Chars
    PROVE  \E f : ReadUpTo(raw, last, f)
<1> DEFINE States == [keys : Seq(Seq(Chars)), cur : Seq(Chars), escaped : BOOLEAN, ok : BOOLEAN]
           step == [n \in 1 .. last |-> [s \in States |-> Read(s, raw[n])]]
<1>1. At(<<>>, <<>>) \in States
  BY DEF At
<1>2. step \in [1 .. last -> [States -> States]]
  <2> SUFFICES ASSUME NEW n \in 1 .. last, NEW s \in States
               PROVE  Read(s, raw[n]) \in States
    OBVIOUS
  <2> DEFINE c == raw[n]
  <2>1. c \in Chars
    OBVIOUS
  <2>2. s.keys \in Seq(Seq(Chars)) /\ s.cur \in Seq(Chars)
    OBVIOUS
  <2>3. Append(s.keys, s.cur) \in Seq(Seq(Chars)) /\ Append(s.cur, c) \in Seq(Chars)
    <3> DEFINE k == s.keys
               u == s.cur
    <3> HIDE DEF k, u, c
    <3>1. Append(k, u) \in Seq(Seq(Chars)) /\ Append(u, c) \in Seq(Chars)
      BY <2>1, <2>2, AppendProperties DEF k, u
    <3> QED BY <3>1 DEF k, u
  <2>4. <<>> \in Seq(Chars)
    OBVIOUS
  <2> HIDE DEF c
  <2>5. Read(s, c) \in States
    <3>1. s.keys \in Seq(Seq(Chars)) /\ s.cur \in Seq(Chars) /\ s.ok \in BOOLEAN /\ s.escaped \in BOOLEAN
      OBVIOUS
    <3>2. CASE ~s.ok
      BY <3>2 DEF Read
    <3>3. CASE s.ok /\ s.escaped
      <4> DEFINE good == c \in {".", "\\"}
      <4>1. Read(s, c) = [s EXCEPT !.cur = Append(s.cur, c), !.escaped = FALSE, !.ok = good]
        BY <3>3 DEF Read
      <4>2. good \in BOOLEAN
        OBVIOUS
      <4> HIDE DEF good
      <4> QED BY <2>3, <4>1, <4>2
    <3>4. CASE s.ok /\ ~s.escaped /\ c = "\\"
      <4>1. Read(s, c) = [s EXCEPT !.escaped = TRUE]
        BY <3>4 DEF Read
      <4> QED BY <4>1
    <3>5. CASE s.ok /\ ~s.escaped /\ c = "."
      <4>1. Read(s, c) = [s EXCEPT !.keys = Append(s.keys, s.cur), !.cur = <<>>, !.ok = s.cur # <<>>]
        BY <3>5 DEF Read
      <4> QED BY <2>3, <2>4, <4>1
    <3>6. CASE s.ok /\ ~s.escaped /\ c # "." /\ c # "\\"
      <4>1. Read(s, c) = [s EXCEPT !.cur = Append(s.cur, c)]
        BY <3>6 DEF Read
      <4> QED BY <2>3, <4>1
    <3> QED BY <3>1, <3>2, <3>3, <3>4, <3>5, <3>6
  <2> QED BY <2>5 DEF c
<1> HIDE DEF States
<1> DEFINE first == At(<<>>, <<>>)
<1> HIDE DEF step, first
<1>3. PICK f : IsRun(f, States, first, last, step)
  <2>1. first \in States
    BY <1>1 DEF first
  <2> QED BY <1>2, <2>1, RunExists
<1>4. \A n \in 0 .. last : f[n] = IF n = 0 THEN At(<<>>, <<>>) ELSE Read(f[n - 1], raw[n])
  <2> TAKE n \in 0 .. last
  <2>1. CASE n = 0
    BY <1>3, <2>1 DEF IsRun, first
  <2>2. CASE n # 0
    <3>1. n \in 1 .. last /\ n - 1 \in 0 .. last
      BY <2>2
    <3>2. f[n - 1] \in States
      BY <1>3, <3>1 DEF IsRun
    <3> QED BY <1>3, <2>2, <3>1, <3>2 DEF IsRun, step
  <2> QED BY <2>1, <2>2
<1>5. f = [n \in 0 .. last |-> IF n = 0 THEN At(<<>>, <<>>) ELSE Read(f[n - 1], raw[n])]
  BY <1>3, <1>4 DEF IsRun
<1> QED BY <1>5 DEF ReadUpTo, Read, At

\* Character by character.
Reading(raw, f) ==
  f[0] = At(<<>>, <<>>) /\ \A n \in 1 .. Len(raw) : f[n] = Read(f[n - 1], raw[n])

\* What a path is parsed to, by its reading.
LEMMA ParsedBy ==
    ASSUME NEW raw \in Seq(Chars)
    PROVE  \E f : /\ Reading(raw, f)
                  /\ \A keys, cur : f[Len(raw)] = At(keys, cur) /\ cur # <<>> =>
                       ClaimPath_parse(raw) = Append(keys, cur)
<1> DEFINE f == CHOOSE g : ReadUpTo(raw, Len(raw), g)
<1>0. Len(raw) \in Nat
  BY LenProperties
<1>1. ReadUpTo(raw, Len(raw), f)
  <2>1. \A n \in 1 .. Len(raw) : raw[n] \in Chars
    BY ElementOfSeq
  <2> QED BY <1>0, <2>1, ReadExists
<1>2. ClaimPath_parse(raw) =
        IF ~f[Len(raw)].ok \/ f[Len(raw)].escaped \/ f[Len(raw)].cur = <<>> THEN "error"
        ELSE Append(f[Len(raw)].keys, f[Len(raw)].cur)
  BY DEF ClaimPath_parse, ReadUpTo
<1> HIDE DEF f
<1>3. \A n \in 0 .. Len(raw) : f[n] = IF n = 0 THEN At(<<>>, <<>>) ELSE Read(f[n - 1], raw[n])
  BY <1>1 DEF ReadUpTo, Read, At
<1>4. Reading(raw, f)
  BY <1>0, <1>3 DEF Reading
<1>5. ASSUME NEW keys, NEW cur, f[Len(raw)] = At(keys, cur), cur # <<>>
      PROVE  ClaimPath_parse(raw) = Append(keys, cur)
  BY <1>2, <1>5 DEF At
<1> QED BY <1>4, <1>5

\* A character more of the key that is read.
Grown(cur, c) == Append(cur, c)

\* A piece of a path that stands after its first p characters.
Occurs(piece, raw, p) == p + Len(piece) <= Len(raw) /\ \A i \in 1 .. Len(piece) : raw[p + i] = piece[i]

\* A character of a key, written with the escape it needs.
Piece(c) == IF c = "a" THEN <<c>> ELSE <<"\\", c>>
LEMMA PieceIsRead ==
    ASSUME NEW raw \in Seq(Chars), NEW f, Reading(raw, f), NEW p \in Nat, NEW keys, NEW cur,
           NEW c \in Chars, f[p] = At(keys, cur), Occurs(Piece(c), raw, p)
    PROVE  f[p + Len(Piece(c))] = At(keys, Grown(cur, c))
<1>0. Len(raw) \in Nat
  BY LenProperties
<1>1. CASE c = "a"
  <2>1. Piece(c) = <<c>> /\ Len(<<c>>) = 1 /\ <<c>>[1] = c
    BY <1>1 DEF Piece
  <2>2. p + 1 <= Len(raw) /\ raw[p + 1] = c
    BY <2>1 DEF Occurs
  <2>3. f[p + 1] = Read(f[p], c)
    <3>1. p + 1 \in 1 .. Len(raw) /\ (p + 1) - 1 = p
      BY <1>0, <2>2
    <3> QED BY <2>2, <3>1 DEF Reading
  <2>4. Read(At(keys, cur), c) = At(keys, Grown(cur, c))
    BY <1>1 DEF Read, At, Grown
  <2> QED BY <2>1, <2>3, <2>4
<1>2. CASE c # "a"
  <2>1. Piece(c) = <<"\\", c>> /\ Len(<<"\\", c>>) = 2 /\ <<"\\", c>>[1] = "\\" /\ <<"\\", c>>[2] = c
    BY <1>2 DEF Piece
  <2>2. p + 2 <= Len(raw) /\ raw[p + 1] = "\\" /\ raw[p + 2] = c
    BY <2>1 DEF Occurs
  <2>3. f[p + 1] = Read(f[p], "\\") /\ f[p + 2] = Read(f[p + 1], c)
    <3>1. p + 1 \in 1 .. Len(raw) /\ (p + 1) - 1 = p /\ p + 2 \in 1 .. Len(raw) /\ (p + 2) - 1 = p + 1
      BY <1>0, <2>2
    <3> QED BY <2>2, <3>1 DEF Reading
  <2> DEFINE s == [keys |-> keys, cur |-> cur, escaped |-> TRUE, ok |-> TRUE]
  <2>4. Read(At(keys, cur), "\\") = s
    BY DEF Read, At
  <2>5. Read(s, c) = At(keys, Grown(cur, c))
    BY <1>2 DEF Read, At, Chars, Grown
  <2> QED BY <2>1, <2>3, <2>4, <2>5
<1> QED BY <1>1, <1>2

\* Two items in a row.
LEMMA TwoInARow ==
    ASSUME NEW a, NEW b
    PROVE  Append(<<a>>, b) = <<a, b>> /\ <<a>> \o <<b>> = <<a, b>>
<1> DEFINE S == {a, b}
           one == <<a>>
           two == <<b>>
           pair == <<a, b>>
<1>1. one \in Seq(S) /\ two \in Seq(S) /\ pair \in Seq(S) /\ b \in S
  OBVIOUS
<1>2. Len(one) = 1 /\ one[1] = a /\ Len(two) = 1 /\ two[1] = b /\ Len(pair) = 2 /\ pair[1] = a /\ pair[2] = b
  OBVIOUS
<1> HIDE DEF S, one, two, pair
<1>3. Append(one, b) = pair
  <2>1. /\ Append(one, b) \in Seq(S) /\ Len(Append(one, b)) = 2
        /\ Append(one, b)[1] = a /\ Append(one, b)[2] = b
    <3>1. /\ Append(one, b) \in Seq(S) /\ Len(Append(one, b)) = Len(one) + 1
          /\ \A i \in 1 .. Len(one) : Append(one, b)[i] = one[i]
          /\ Append(one, b)[Len(one) + 1] = b
      BY <1>1, AppendProperties
    <3>2. 1 \in 1 .. Len(one) /\ Len(one) + 1 = 2
      BY <1>2
    <3> QED BY <1>2, <3>1, <3>2
  <2>2. \A i \in 1 .. 2 : Append(one, b)[i] = pair[i]
    BY <1>2, <2>1
  <2> QED BY <1>1, <1>2, <2>1, <2>2, SeqEqual
<1>4. one \o two = pair
  <2>1. /\ one \o two \in Seq(S) /\ Len(one \o two) = 2
        /\ \A i \in 1 .. 2 : (one \o two)[i] = IF i <= 1 THEN one[i] ELSE two[i - 1]
    BY <1>1, <1>2, ConcatProperties
  <2>2. \A i \in 1 .. 2 : (one \o two)[i] = pair[i]
    BY <1>2, <2>1
  <2> QED BY <1>1, <1>2, <2>1, <2>2, SeqEqual
<1> QED BY <1>3, <1>4 DEF one, two, pair

\* A key, written with its escapes.
LEMMA KeyIsPieces ==
    ASSUME NEW k \in Keys
    PROVE  \/ \E c \in Chars : k = <<c>> /\ Escaped(k) = Piece(c)
           \/ \E c, d \in Chars : k = <<c, d>> /\ Escaped(k) = Piece(c) \o Piece(d)
<1>1. PICK n \in 1 .. 2 : k \in [1 .. n -> {"a", ".", "\\"}]
  BY DEF Keys
<1>2. CASE n = 1
  <2>1. Len(k) = 1 /\ k[1] \in Chars /\ k = <<k[1]>>
    BY <1>1, <1>2 DEF Chars
  <2>2. Escaped(k) = IF k[1] = "a" THEN k ELSE <<"\\">> \o k
    BY <2>1 DEF Escaped
  <2>3. <<"\\">> \o <<k[1]>> = <<"\\", k[1]>>
    BY TwoInARow
  <2>4. Escaped(k) = Piece(k[1])
    BY <2>1, <2>2, <2>3 DEF Piece
  <2> QED BY <2>1, <2>4
<1>3. CASE n = 2
  <2>1. Len(k) = 2 /\ k[1] \in Chars /\ k[2] \in Chars /\ k = <<k[1], k[2]>>
    BY <1>1, <1>3 DEF Chars
  <2>2. Escaped(k) = (IF k[1] = "a" THEN <<"a">> ELSE <<"\\", k[1]>>)
                     \o (IF k[2] = "a" THEN <<"a">> ELSE <<"\\", k[2]>>)
    BY <2>1 DEF Escaped
  <2>3. /\ Piece(k[1]) = IF k[1] = "a" THEN <<"a">> ELSE <<"\\", k[1]>>
        /\ Piece(k[2]) = IF k[2] = "a" THEN <<"a">> ELSE <<"\\", k[2]>>
    BY DEF Piece
  <2>4. Escaped(k) = Piece(k[1]) \o Piece(k[2])
    BY <2>2, <2>3
  <2> QED BY <2>1, <2>4
<1> QED BY <1>2, <1>3

\* The piece of a character is one or two.
LEMMA PieceFacts ==
    ASSUME NEW c \in Chars
    PROVE  Piece(c) \in Seq(Chars) /\ Len(Piece(c)) \in Nat
<1>1. "\\" \in Chars
  BY DEF Chars
<1>2. <<c>> \in Seq(Chars) /\ Len(<<c>>) = 1
  OBVIOUS
<1>3. <<"\\", c>> \in Seq(Chars) /\ Len(<<"\\", c>>) = 2
  BY <1>1
<1>4. Piece(c) \in {<<c>>, <<"\\", c>>}
  BY DEF Piece
<1> QED BY <1>2, <1>3, <1>4

\* A written key is a path of characters.
LEMMA EscapedFacts ==
    ASSUME NEW k \in Keys
    PROVE  Escaped(k) \in Seq(Chars) /\ Len(Escaped(k)) \in Nat /\ k # <<>>
<1>1. CASE \E c \in Chars : k = <<c>> /\ Escaped(k) = Piece(c)
  BY <1>1, PieceFacts
<1>2. CASE \E c, d \in Chars : k = <<c, d>> /\ Escaped(k) = Piece(c) \o Piece(d)
  <2>1. PICK c \in Chars, d \in Chars : k = <<c, d>> /\ Escaped(k) = Piece(c) \o Piece(d)
    BY <1>2
  <2>2. Piece(c) \in Seq(Chars) /\ Piece(d) \in Seq(Chars)
    BY PieceFacts
  <2>3. Escaped(k) \in Seq(Chars)
    BY <2>1, <2>2, ConcatProperties
  <2> QED BY <2>1, <2>3, LenProperties
<1> QED BY <1>1, <1>2, KeyIsPieces

\* The parts of a whole stand one after the other.
LEMMA OccursApart ==
    ASSUME NEW s \in Seq(Chars), NEW t \in Seq(Chars), NEW raw, NEW p \in Nat, Len(raw) \in Nat, Occurs(s \o t, raw, p)
    PROVE  Occurs(s, raw, p) /\ Occurs(t, raw, p + Len(s))
<1>1. /\ Len(s) \in Nat /\ Len(t) \in Nat /\ Len(s \o t) = Len(s) + Len(t)
      /\ \A i \in 1 .. Len(s) + Len(t) : (s \o t)[i] = IF i <= Len(s) THEN s[i] ELSE t[i - Len(s)]
  BY ConcatProperties, LenProperties
<1>2. p + (Len(s) + Len(t)) <= Len(raw) /\ \A i \in 1 .. Len(s) + Len(t) : raw[p + i] = (s \o t)[i]
  BY <1>1 DEF Occurs
<1>3. ASSUME NEW i \in 1 .. Len(s) PROVE raw[p + i] = s[i]
  <2>1. i \in 1 .. Len(s) + Len(t) /\ i <= Len(s)
    BY <1>1
  <2> QED BY <1>1, <1>2, <2>1
<1>4. ASSUME NEW i \in 1 .. Len(t) PROVE raw[(p + Len(s)) + i] = t[i]
  <2> DEFINE j == Len(s) + i
  <2>1. j \in 1 .. Len(s) + Len(t) /\ ~(j <= Len(s)) /\ j - Len(s) = i /\ (p + Len(s)) + i = p + j
    BY <1>1
  <2> HIDE DEF j
  <2> QED BY <1>1, <1>2, <2>1
<1>5. p + Len(s) <= Len(raw) /\ (p + Len(s)) + Len(t) <= Len(raw)
  BY <1>1, <1>2
<1> QED BY <1>3, <1>4, <1>5 DEF Occurs

\* A written key is read as itself.
LEMMA KeyIsRead ==
    ASSUME NEW raw \in Seq(Chars), NEW f, Reading(raw, f), NEW p \in Nat, NEW keys, NEW none,
           NEW k \in Keys, none = <<>>, f[p] = At(keys, none), Occurs(Escaped(k), raw, p)
    PROVE  f[p + Len(Escaped(k))] = At(keys, k)
<1>0. Len(raw) \in Nat
  BY LenProperties
<1>1. CASE \E c \in Chars : k = <<c>> /\ Escaped(k) = Piece(c)
  <2>1. PICK c \in Chars : k = <<c>> /\ Escaped(k) = Piece(c)
    BY <1>1
  <2>2. f[p + Len(Piece(c))] = At(keys, Grown(none, c))
    <3> DEFINE start == none
    <3> HIDE DEF start
    <3>1. f[p] = At(keys, start) /\ Occurs(Piece(c), raw, p)
      BY <2>1 DEF start
    <3>2. f[p + Len(Piece(c))] = At(keys, Grown(start, c))
      BY <3>1, PieceIsRead
    <3> QED BY <3>2 DEF start
  <2>3. Grown(none, c) = <<c>>
    BY DEF Grown
  <2> QED BY <2>1, <2>2, <2>3
<1>2. CASE \E c, d \in Chars : k = <<c, d>> /\ Escaped(k) = Piece(c) \o Piece(d)
  <2>1. PICK c \in Chars, d \in Chars : k = <<c, d>> /\ Escaped(k) = Piece(c) \o Piece(d)
    BY <1>2
  <2> DEFINE q == p + Len(Piece(c))
  <2>2. /\ Piece(c) \in Seq(Chars) /\ Piece(d) \in Seq(Chars) /\ Len(Piece(c)) \in Nat /\ Len(Piece(d)) \in Nat
        /\ q \in Nat
    BY PieceFacts
  <2>3. Occurs(Piece(c), raw, p) /\ Occurs(Piece(d), raw, q)
    BY <1>0, <2>1, <2>2, OccursApart
  <2>4. f[q] = At(keys, Grown(none, c))
    <3> DEFINE start == none
    <3> HIDE DEF start
    <3>1. f[p] = At(keys, start)
      BY DEF start
    <3>2. f[p + Len(Piece(c))] = At(keys, Grown(start, c))
      BY <2>3, <3>1, PieceIsRead
    <3> QED BY <3>2 DEF start
  <2>5. f[q + Len(Piece(d))] = At(keys, Grown(Grown(none, c), d))
    <3> DEFINE cur == Grown(none, c)
    <3> HIDE DEF q, cur
    <3>1. f[q] = At(keys, cur)
      BY <2>4 DEF cur
    <3>2. f[q + Len(Piece(d))] = At(keys, Grown(cur, d))
      BY <2>2, <2>3, <3>1, PieceIsRead
    <3> QED BY <3>2 DEF cur
  <2>6. Grown(Grown(none, c), d) = <<c, d>>
    <3>1. Grown(none, c) = <<c>>
      BY DEF Grown
    <3>2. Grown(<<c>>, d) = <<c, d>>
      BY TwoInARow DEF Grown
    <3> QED BY <3>1, <3>2
  <2>7. p + Len(Escaped(k)) = q + Len(Piece(d))
    <3> DEFINE u == Piece(c)
               v == Piece(d)
    <3>1. u \in Seq(Chars) /\ v \in Seq(Chars) /\ Len(u) \in Nat /\ Len(v) \in Nat
      BY <2>2
    <3> HIDE DEF u, v
    <3>2. Len(u \o v) = Len(u) + Len(v)
      BY <3>1, ConcatProperties
    <3>3. p + Len(u \o v) = (p + Len(u)) + Len(v)
      BY <3>1, <3>2
    <3> QED BY <2>1, <3>3 DEF u, v
  <2> QED BY <2>1, <2>5, <2>6, <2>7
<1> QED BY <1>1, <1>2, KeyIsPieces

\* Both rules of paths: one key, and one key below another.
LEMMA OneKeyParsed ==
    ASSUME NEW k \in Keys
    PROVE  ClaimPath_parse(Escaped(k)) = <<k>>
<1> DEFINE raw == Escaped(k)
<1>1. raw \in Seq(Chars) /\ Len(raw) \in Nat /\ k # <<>>
  BY EscapedFacts
<1>2. Occurs(raw, raw, 0)
  BY <1>1 DEF Occurs
<1>3. PICK f : /\ Reading(raw, f)
               /\ \A keys, cur : f[Len(raw)] = At(keys, cur) /\ cur # <<>> =>
                    ClaimPath_parse(raw) = Append(keys, cur)
  BY <1>1, ParsedBy
<1> DEFINE none == <<>>
<1>4. none = <<>> /\ f[0] = At(none, none)
  BY <1>3 DEF Reading
<1> HIDE DEF none
<1>5. f[0 + Len(Escaped(k))] = At(none, k)
  BY <1>1, <1>2, <1>3, <1>4, KeyIsRead
<1>6. f[Len(raw)] = At(none, k)
  BY <1>1, <1>5
<1>7. ClaimPath_parse(raw) = Append(none, k)
  BY <1>1, <1>3, <1>6
<1>8. Append(none, k) = <<k>>
  BY <1>4
<1> QED BY <1>7, <1>8

LEMMA TwoKeysParsed ==
    ASSUME NEW k \in Keys, NEW l \in Keys
    PROVE  ClaimPath_parse(Escaped(k) \o <<".">> \o Escaped(l)) = <<k, l>>
<1> DEFINE dot == <<".">>
           head == Escaped(k) \o dot
           raw == head \o Escaped(l)
           p == Len(Escaped(k))
<1>1. /\ Escaped(k) \in Seq(Chars) /\ p \in Nat /\ k # <<>>
      /\ Escaped(l) \in Seq(Chars) /\ Len(Escaped(l)) \in Nat /\ l # <<>>
      /\ dot \in Seq(Chars) /\ Len(dot) = 1 /\ dot[1] = "."
  BY EscapedFacts DEF Chars
<1> HIDE DEF dot
<1>2. head \in Seq(Chars) /\ Len(head) = p + 1
  <2> DEFINE e == Escaped(k)
  <2>1. e \in Seq(Chars)
    BY <1>1
  <2> HIDE DEF e
  <2>2. e \o dot \in Seq(Chars) /\ Len(e \o dot) = Len(e) + Len(dot)
    BY <1>1, <2>1, ConcatProperties
  <2> QED BY <1>1, <2>2 DEF e
<1> HIDE DEF head
<1>3. raw \in Seq(Chars) /\ Len(raw) = (p + 1) + Len(Escaped(l)) /\ Len(raw) \in Nat
  <2> DEFINE e == Escaped(l)
  <2>1. e \in Seq(Chars) /\ Len(e) \in Nat
    BY <1>1
  <2> HIDE DEF e
  <2>2. head \o e \in Seq(Chars) /\ Len(head \o e) = Len(head) + Len(e)
    BY <1>2, <2>1, ConcatProperties
  <2>3. Len(head \o e) = (p + 1) + Len(e) /\ Len(head \o e) \in Nat
    BY <1>1, <1>2, <2>1, <2>2
  <2> QED BY <2>2, <2>3 DEF e
<1>4. Occurs(raw, raw, 0)
  BY <1>3 DEF Occurs
<1>5. Occurs(head, raw, 0) /\ Occurs(Escaped(l), raw, p + 1)
  <2>1. 0 \in Nat /\ 0 + Len(head) = p + 1
    BY <1>1, <1>2
  <2> QED BY <1>1, <1>2, <1>3, <1>4, <2>1, OccursApart
<1>6. Occurs(Escaped(k), raw, 0) /\ Occurs(dot, raw, p)
  <2> HIDE DEF raw
  <2>1. 0 \in Nat /\ 0 + Len(Escaped(k)) = p
    BY <1>1
  <2> QED BY <1>1, <1>3, <1>5, <2>1, OccursApart DEF head
<1> HIDE DEF raw
<1>7. PICK f : /\ Reading(raw, f)
               /\ \A keys, cur : f[Len(raw)] = At(keys, cur) /\ cur # <<>> =>
                    ClaimPath_parse(raw) = Append(keys, cur)
  BY <1>3, ParsedBy
<1> DEFINE none == <<>>
<1>8. none = <<>> /\ f[0] = At(none, none)
  BY <1>7 DEF Reading
<1> HIDE DEF none
<1>9. f[0 + Len(Escaped(k))] = At(none, k)
  BY <1>3, <1>6, <1>7, <1>8, KeyIsRead
<1>10. f[p] = At(none, k)
  BY <1>1, <1>9
<1>11. f[p + 1] = At(<<k>>, none)
  <2>1. raw[p + 1] = "."
    BY <1>1, <1>6 DEF Occurs
  <2>2. p + 1 \in 1 .. Len(raw) /\ (p + 1) - 1 = p
    BY <1>1, <1>3
  <2>3. f[p + 1] = Read(f[p], ".")
    BY <1>7, <2>1, <2>2 DEF Reading
  <2>4. Read(At(none, k), ".") = At(Append(none, k), none)
    BY <1>1, <1>8 DEF Read, At
  <2>5. Append(none, k) = <<k>>
    BY <1>8
  <2> QED BY <1>10, <2>3, <2>4, <2>5
<1>12. f[(p + 1) + Len(Escaped(l))] = At(<<k>>, l)
  <2> DEFINE q == p + 1
  <2>1. q \in Nat /\ Occurs(Escaped(l), raw, q) /\ f[q] = At(<<k>>, none)
    BY <1>1, <1>5, <1>11
  <2> HIDE DEF q
  <2>2. f[q + Len(Escaped(l))] = At(<<k>>, l)
    BY <1>3, <1>7, <1>8, <2>1, KeyIsRead
  <2> QED BY <2>2 DEF q
<1>13. ClaimPath_parse(raw) = Append(<<k>>, l)
  BY <1>1, <1>3, <1>7, <1>12
<1>14. Append(<<k>>, l) = <<k, l>>
  BY TwoInARow
<1> QED BY <1>13, <1>14 DEF raw, head, dot

\* What the flattening of an array keeps.
StringsUpTo(items, last, kept) ==
  kept = [i \in 0 .. last |->
            IF i = 0 THEN <<>> ELSE IF items[i] = "number" THEN kept[i - 1] ELSE Append(kept[i - 1], items[i])]
KeptAfter(kept, item) == IF item = "number" THEN kept ELSE Append(kept, item)
LEMMA RolesKept == OnlyStrings(<<"r", "number", "s">>) = <<"r", "s">>
<1> DEFINE items == <<"r", "number", "s">>
           f == CHOOSE kept : StringsUpTo(items, Len(items), kept)
           none == <<>>
           one == <<"r">>
           two == <<"r", "s">>
           g == [i \in 0 .. 3 |-> IF i = 0 THEN none ELSE IF i = 3 THEN two ELSE one]
<1>1. Len(items) = 3 /\ items[1] = "r" /\ items[2] = "number" /\ items[3] = "s"
  OBVIOUS
<1>2. KeptAfter(none, "r") = one /\ KeptAfter(one, "number") = one /\ KeptAfter(one, "s") = two
  <2>1. Append(<<"r">>, "s") = <<"r", "s">>
    BY TwoInARow
  <2>2. Append(<<>>, "r") = <<"r">>
    OBVIOUS
  <2>3. KeptAfter(none, "r") = Append(<<>>, "r") /\ KeptAfter(one, "number") = one
        /\ KeptAfter(one, "s") = Append(<<"r">>, "s")
    BY DEF KeptAfter
  <2> QED BY <2>1, <2>2, <2>3
<1>3. OnlyStrings(items) = f[3]
  BY <1>1 DEF OnlyStrings, StringsUpTo
<1>4. \A h : StringsUpTo(items, 3, h) <=>
               h = [i \in 0 .. 3 |-> IF i = 0 THEN none ELSE KeptAfter(h[i - 1], items[i])]
  BY DEF StringsUpTo, KeptAfter
<1> HIDE DEF items, none, one, two
<1>5. StringsUpTo(items, 3, g)
  <2>1. 0 .. 3 = {0, 1, 2, 3}
    OBVIOUS
  <2>2. g[0] = none /\ g[1] = one /\ g[2] = one /\ g[3] = two
    OBVIOUS
  <2>3. g = [i \in 0 .. 3 |-> g[i]]
    OBVIOUS
  <2> HIDE DEF g
  <2>4. \A i \in {0, 1, 2, 3} : g[i] = IF i = 0 THEN none ELSE KeptAfter(g[i - 1], items[i])
    BY <1>1, <1>2, <2>2
  <2>5. g = [i \in 0 .. 3 |-> IF i = 0 THEN none ELSE KeptAfter(g[i - 1], items[i])]
    BY <2>1, <2>3, <2>4
  <2> QED BY <1>4, <2>5
<1>6. StringsUpTo(items, 3, f)
  BY <1>1, <1>5
<1> HIDE DEF f
<1>7. \A i \in 0 .. 3 : f[i] = IF i = 0 THEN none ELSE KeptAfter(f[i - 1], items[i])
  <2>1. f = [i \in 0 .. 3 |-> IF i = 0 THEN none ELSE KeptAfter(f[i - 1], items[i])]
    BY <1>4, <1>6
  <2> QED BY <2>1
<1>8. f[0] = none /\ f[1] = KeptAfter(f[0], "r") /\ f[2] = KeptAfter(f[1], "number") /\ f[3] = KeptAfter(f[2], "s")
  <2>1. 0 \in 0 .. 3 /\ 1 \in 0 .. 3 /\ 2 \in 0 .. 3 /\ 3 \in 0 .. 3
    OBVIOUS
  <2> QED BY <1>1, <1>7, <2>1
<1> QED BY <1>2, <1>3, <1>8 DEF items, two

\* The way down a path.
NodeUpTo(keys, claims, last, node) ==
  node = [i \in 0 .. last |->
        IF i = 0 THEN claims
        ELSE LET above == node[i - 1]
             IN IF above.kind = "object" /\ keys[i] \in DOMAIN above.fields
                THEN above.fields[keys[i]] ELSE [kind |-> "missing"]]

\* The node below a node.
Below(above, key) ==
  IF above.kind = "object" /\ key \in DOMAIN above.fields THEN above.fields[key] ELSE [kind |-> "missing"]

\* Two keys lead two nodes down.
LEMMA TwoDown ==
    ASSUME NEW k, NEW l, NEW claims
    PROVE  LET end == Below(Below(claims, k), l)
           IN ClaimPath_strings(<<k, l>>, claims) =
                CASE end.kind = "array" -> OnlyStrings(end.items)
                  [] end.kind = "string" -> <<end.value>>
                  [] OTHER -> <<>>
<1> DEFINE keys == <<k, l>>
           f == CHOOSE node : NodeUpTo(keys, claims, Len(keys), node)
           upper == Below(claims, k)
           end == Below(upper, l)
           g == [i \in 0 .. 2 |-> IF i = 0 THEN claims ELSE IF i = 1 THEN upper ELSE end]
<1>1. Len(keys) = 2 /\ keys[1] = k /\ keys[2] = l
  OBVIOUS
<1>2. ClaimPath_strings(keys, claims) =
        CASE f[2].kind = "array" -> OnlyStrings(f[2].items)
          [] f[2].kind = "string" -> <<f[2].value>>
          [] OTHER -> <<>>
  BY <1>1 DEF ClaimPath_strings, NodeUpTo
<1> HIDE DEF keys
<1>3. NodeUpTo(keys, claims, 2, g)
  <2>1. 0 .. 2 = {0, 1, 2}
    OBVIOUS
  <2> HIDE DEF upper, end
  <2>2. g[0] = claims /\ g[1] = upper /\ g[2] = end
    OBVIOUS
  <2>3. g = [i \in 0 .. 2 |-> g[i]]
    OBVIOUS
  <2> HIDE DEF g
  <2>4. \A i \in {0, 1, 2} : g[i] = IF i = 0 THEN claims ELSE Below(g[i - 1], keys[i])
    BY <1>1, <2>2 DEF upper, end
  <2>5. g = [i \in 0 .. 2 |-> IF i = 0 THEN claims ELSE Below(g[i - 1], keys[i])]
    BY <2>1, <2>3, <2>4
  <2> QED BY <2>5 DEF NodeUpTo, Below
<1>4. NodeUpTo(keys, claims, 2, f)
  BY <1>1, <1>3
<1> HIDE DEF f
<1>5. \A i \in 0 .. 2 : f[i] = IF i = 0 THEN claims ELSE Below(f[i - 1], keys[i])
  BY <1>4 DEF NodeUpTo, Below
<1>6. f[0] = claims /\ f[1] = Below(f[0], keys[1]) /\ f[2] = Below(f[1], keys[2])
  BY <1>5
<1>7. f[2] = end
  BY <1>1, <1>6
<1> QED BY <1>2, <1>7 DEF keys

\* A path written with escapes names the keys it was written for.
LEMMA PathsFaithful == PathsParseBack
<1>1. ASSUME NEW k \in Keys, NEW l \in Keys, NEW m \in Keys
      PROVE  ClaimPath_strings(<<k, l>>, Nested(k, Nested(m, Roles))) = IF m = l THEN <<"r", "s">> ELSE <<>>
  <2> DEFINE inner == Nested(m, Roles)
             claims == Nested(k, inner)
             end == Below(Below(claims, k), l)
  <2>1. claims.kind = "object" /\ DOMAIN claims.fields = {k} /\ claims.fields[k] = inner
    BY DEF Nested
  <2>2. inner.kind = "object" /\ DOMAIN inner.fields = {m} /\ inner.fields[m] = Roles
    BY DEF Nested
  <2> HIDE DEF inner, claims
  <2>3. Below(claims, k) = inner
    BY <2>1 DEF Below
  <2>4. end = IF m = l THEN Roles ELSE [kind |-> "missing"]
    BY <2>2, <2>3 DEF Below
  <2>5. ClaimPath_strings(<<k, l>>, claims) =
          CASE end.kind = "array" -> OnlyStrings(end.items)
            [] end.kind = "string" -> <<end.value>>
            [] OTHER -> <<>>
    BY TwoDown
  <2> HIDE DEF end
  <2>6. CASE m = l
    <3>1. end.kind = "array" /\ end.items = <<"r", "number", "s">>
      BY <2>4, <2>6 DEF Roles
    <3>2. ClaimPath_strings(<<k, l>>, claims) = OnlyStrings(end.items)
      BY <2>5, <3>1
    <3> QED BY <2>6, <3>1, <3>2, RolesKept DEF claims, inner
  <2>7. CASE m # l
    <3>1. end.kind = "missing"
      BY <2>4, <2>7
    <3>2. ClaimPath_strings(<<k, l>>, claims) = <<>>
      BY <2>5, <3>1
    <3> QED BY <2>7, <3>2 DEF claims, inner
  <2> QED BY <2>6, <2>7
<1>2. ASSUME NEW k \in Keys, NEW l \in Keys, NEW m \in Keys
      PROVE  LET keys == ClaimPath_parse(Escaped(k) \o <<".">> \o Escaped(l))
             IN /\ keys = <<k, l>>
                /\ ClaimPath_strings(keys, Nested(k, Nested(m, Roles))) = IF m = l THEN <<"r", "s">> ELSE <<>>
  BY <1>1, TwoKeysParsed
<1>3. \A k \in Keys : ClaimPath_parse(Escaped(k)) = <<k>>
  BY OneKeyParsed
<1> QED BY <1>2, <1>3 DEF PathsParseBack

-----------------------------------------------------------------------------
(* What is decided by settings, documents and tokens alone holds of all of *)
(* them: three validators judge a token alike, a claim path with escapes   *)
(* names its keys, no address is led astray, the device login keeps its    *)
(* distance, a sealed session fits its cookie, and the parties mean the    *)
(* same issuer.                                                            *)
THEOREM SettingsSound == Spec => []SettingsAreSound
<1>1. SettingsAreSound
  BY TokensAlike, PathsFaithful, AddressesAreSafe, PollsSpaced, ExpectedFits, IssuersAgreed, SignInsAreOwn, PagesAreOwn
     DEF SettingsAreSound, ValidatorsAgree, ClaimPathsAreFaithful, ClientAddressesAreSafe, DeviceLoginIsPolite,
         HostSessionFits, PartiesAgree
<1> QED BY <1>1, PTL
=============================================================================
