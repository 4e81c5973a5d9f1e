-------------------------- MODULE TokenCacheProofs --------------------------
(***************************************************************************)
(* Proofs about the token cache: a write spares the other grants, rotation *)
(* strands nobody, and the retry after a 401 does not send the rejected    *)
(* token again, for any number of processes and grants, with crashes and   *)
(* failures of the store.                                                  *)
(***************************************************************************)
EXTENDS TokenCache, TLAPS

----------------------------------------------------------------------------
(* The inductive invariant. *)

Locked == {"load", "loadLegacy", "put", "clean"}   \* the steps under the lock
Writing == {"lock", "load", "loadLegacy", "put"}   \* those before the write

(* A process at step s with data j has a token response to store.          *)
Pending(s, j) == s \in Writing /\ j.doing \in {"refresh", "acquire"}

InFlight == {job[q].resp.access : q \in {x \in Procs : Pending(pc[x], job[x])}}

(* It has spent a refresh token for a successor.                           *)
Spent(s, j) == Pending(s, j) /\ j.doing = "refresh" /\ j.resp.refresh # None

(* A token that has been handed out and stored.                            *)
Known(t) == t \in 0 .. issued /\ t \notin InFlight

(* The refresh token r belongs to grant g.                                 *)
Carries(g, r) ==
  \/ primary # Absent /\ primary[g].refresh = r
  \/ legacy # Absent /\ legacy[g].refresh = r
  \/ \E p \in Procs : job[p].grant = g /\ job[p].held.refresh = r
  \/ \E p \in Procs : job[p].grant = g /\ Pending(pc[p], job[p]) /\ job[p].resp.refresh = r

(* The access token of a 401 has been taken from the cache.                *)
Cleared(s, j) ==
  j.rejected # None /\ ~j.faulted /\ (j.doing = "invalidate" => s \notin Writing)

(* What a process at step s with data j knows of the store.                *)
Here(s, j) ==
  /\ s \in {"clean", "reread"} => primary # Absent
  /\ s = "loadLegacy" => primary = Absent
  /\ s = "put" => \/ \A g \in Grants : j.cache[g] = Effective(g)
                  \/ j.cache = EmptyFile /\ j.faulted
  /\ s \in Writing /\ j.doing = "invalidate" => j.held = NoEntry
  /\ s \in Writing /\ j.doing = "refresh" => j.held.refresh # None
  /\ Cleared(s, j) => /\ primary # Absent /\ primary[j.grant].access # j.rejected
                      /\ j.held.access # j.rejected
                      /\ s # "readLegacy"
                      /\ s = "send" => j.bearer # j.rejected

LockInv == \A p \in Procs : lock = p <=> pc[p] \in Locked

HereInv == \A p \in Procs : Here(pc[p], job[p])

TokensInv ==
  /\ \A f \in {primary, legacy} :
        f # Absent => \A g \in Grants : Known(f[g].access) /\ Known(f[g].refresh)
  /\ \A p \in Procs : /\ Known(job[p].held.access) /\ Known(job[p].held.refresh)
                      /\ Known(job[p].bearer) /\ Known(job[p].rejected)
  /\ \A p \in Procs : Pending(pc[p], job[p]) =>
        /\ job[p].resp.access \in 1 .. issued
        /\ job[p].resp.refresh \in {None, job[p].resp.access}
        /\ job[p].resp.refresh # None => job[p].resp.refresh \in valid
        /\ \A q \in Procs : q # p /\ Pending(pc[q], job[q])
              => job[q].resp.access # job[p].resp.access

OwnersInv ==
  \A g, h \in Grants, r \in Ids : Carries(g, r) /\ Carries(h, r) => g = h

ChainInv ==
  \A g \in Grants :
     Effective(g).refresh # None =>
        \/ Effective(g).refresh \in valid \cup dead
        \/ \E p \in Procs : Spent(pc[p], job[p]) /\ job[p].held.refresh = Effective(g).refresh

CacheInv == TypeOK /\ LockInv /\ HereInv /\ TokensInv /\ OwnersInv /\ ChainInv

----------------------------------------------------------------------------
(* A step of process p, which arrives at step s with data j and leaves the *)
(* store as a reader finds it.                                             *)

(* The tokens of j are known, and what p believes of the store is true.    *)
Fits(s, j) ==
  /\ Known(j.held.access) /\ Known(j.held.refresh)
  /\ Known(j.bearer) /\ Known(j.rejected)
  /\ j.held.refresh # None => Carries(j.grant, j.held.refresh)
  /\ Here(s, j)

(* What is pending is what was, or the response that was just made.        *)
Receives(p, s, j) ==
  Pending(s, j) =>
    \/ /\ Pending(pc[p], job[p])
       /\ j.resp = job[p].resp /\ j.grant = job[p].grant
    \/ /\ issued' = issued + 1
       /\ j.resp.access = issued' /\ j.resp.refresh \in {None, issued'}
       /\ j.resp.refresh # None => issued' \in valid'

(* The refresh token p holds is lost to the cache only if p has its        *)
(* successor or the history says so.                                       *)
Handed(p, s, j) ==
  Spent(pc[p], job[p]) \/ job[p].held.refresh \in valid \ valid' =>
    \/ Spent(s, j) /\ j.held.refresh = job[p].held.refresh
    \/ job[p].held.refresh \in dead'

Moves(p, s, j) ==
  /\ pc' = [pc EXCEPT ![p] = s]
  /\ job' = [job EXCEPT ![p] = j]
  /\ primary' = primary
  /\ legacy' = legacy \/ (legacy' = Absent /\ primary # Absent)
  /\ lock' \in Procs \cup {Free}
  /\ \A q \in Procs : lock' = q <=> pc'[q] \in Locked
  /\ issued' \in {issued, issued + 1} /\ issued' \in 0 .. MaxIssued
  /\ valid' \subseteq Ids /\ valid \ {job[p].held.refresh} \subseteq valid'
  /\ age' \in [Ids -> {"fresh", "near", "expired"}]
  /\ dead \subseteq dead' /\ dead' \subseteq Ids
  /\ outcome' \in Outcomes /\ started' \in 0 .. MaxStarts
  /\ Fits(s, j) /\ Receives(p, s, j) /\ Handed(p, s, j)

(* Basic facts about the values. *)
LEMMA Values ==
  /\ NoEntry \in Entry /\ EmptyFile \in File /\ NoJob \in Jobs
  /\ \A o \in {"token", "send", "login", "logout"}, g \in Grants : Job(o, g) \in Jobs
  /\ \A f \in File : f # Absent
<1>. None \in MaybeId /\ NoEntry \in Entry
  BY BoundAssumption DEF None, MaybeId, Ids, NoEntry, Entry
<1>1. EmptyFile \in File
  BY DEF EmptyFile, File
<1>2. ASSUME NEW o \in {"token", "send", "login", "logout"}, NEW g \in Grants
      PROVE  Job(o, g) \in Jobs
  BY <1>1 DEF Job, Jobs
<1>3. NoJob \in Jobs
  <2>1. (CHOOSE g \in Grants : TRUE) \in Grants
    BY GrantAssumption
  <2>. QED  BY <1>2, <2>1 DEF NoJob
<1>4. \A f \in File : f # Absent
  <2>1. PICK g : g \in Grants
    BY GrantAssumption
  <2>. QED  BY <2>1 DEF File, Absent
<1>. QED  BY <1>1, <1>2, <1>3, <1>4

(* The empty token is known, and responses in flight are numbered from 1.  *)
LEMMA NoneKnown ==
  ASSUME CacheInv
  PROVE  Known(None) /\ InFlight \subseteq 1 .. issued
<1>1. InFlight \subseteq 1 .. issued
  BY DEF CacheInv, TokensInv, InFlight
<1>. QED  BY <1>1 DEF Known, None, CacheInv, TypeOK

(* A move of one process that leaves the store keeps the invariant.        *)
LEMMA MoveKeeps ==
  ASSUME CacheInv, NEW p \in Procs, NEW s \in Steps, NEW j \in Jobs, Moves(p, s, j)
  PROVE  CacheInv'
<1>. pc \in [Procs -> Steps] /\ job \in [Procs -> Jobs] /\ issued \in Nat
  BY BoundAssumption DEF CacheInv, TypeOK
<1>. primary \in File \cup {Absent} /\ legacy \in File \cup {Absent}
  BY DEF CacheInv, TypeOK
<1>p. /\ pc'[p] = s /\ job'[p] = j
      /\ \A q \in Procs : q # p => pc'[q] = pc[q] /\ job'[q] = job[q]
  BY DEF Moves
<1>i. issued' \in Nat /\ issued <= issued'
  BY DEF Moves
<1>1. TypeOK'
  BY DEF Moves, CacheInv, TypeOK
<1>2. LockInv'
  BY DEF Moves, LockInv
<1>3. ASSUME NEW q \in Procs, Pending(pc'[q], job'[q])
      PROVE  \/ Pending(pc[q], job[q]) /\ job'[q].resp = job[q].resp
                                       /\ job'[q].grant = job[q].grant
             \/ /\ q = p /\ issued' = issued + 1 /\ job'[q].resp.access = issued'
                /\ job'[q].resp.refresh \in {None, issued'}
                /\ job'[q].resp.refresh # None => issued' \in valid'
  BY <1>p, <1>3 DEF Moves, Receives
<1>4. ASSUME NEW t, Known(t)
      PROVE  Known(t)'
  <2>1. t \in 0 .. issued'
    BY <1>4, <1>i DEF Known
  <2>2. ASSUME t \in InFlight'
        PROVE  FALSE
    <3>1. PICK q \in Procs : Pending(pc'[q], job'[q]) /\ job'[q].resp.access = t
      BY <2>2 DEF InFlight, Pending
    <3>2. CASE Pending(pc[q], job[q]) /\ job'[q].resp = job[q].resp
      BY <3>1, <3>2, <1>4 DEF Known, InFlight
    <3>3. CASE issued' = issued + 1 /\ job'[q].resp.access = issued'
      BY <3>1, <3>3, <1>4 DEF Known
    <3>. QED  BY <3>1, <3>2, <3>3, <1>3
  <2>. QED  BY <2>1, <2>2 DEF Known
<1>5. TokensInv'
  <2>1. ASSUME NEW f \in {primary', legacy'}, f # Absent, NEW g \in Grants
        PROVE  Known(f[g].access)' /\ Known(f[g].refresh)'
    BY <2>1, <1>4 DEF Moves, CacheInv, TokensInv
  <2>2. ASSUME NEW q \in Procs
        PROVE  /\ Known(job[q].held.access)' /\ Known(job[q].held.refresh)'
               /\ Known(job[q].bearer)' /\ Known(job[q].rejected)'
    <3>1. /\ Known(job'[q].held.access) /\ Known(job'[q].held.refresh)
          /\ Known(job'[q].bearer) /\ Known(job'[q].rejected)
      BY <1>p DEF Moves, Fits, CacheInv, TokensInv
    <3>2. /\ (Known(job'[q].held.access) => Known(job[q].held.access)')
          /\ (Known(job'[q].held.refresh) => Known(job[q].held.refresh)')
          /\ (Known(job'[q].bearer) => Known(job[q].bearer)')
          /\ (Known(job'[q].rejected) => Known(job[q].rejected)')
      BY <1>4
    <3>. QED  BY <3>1, <3>2
  <2>3. ASSUME NEW q \in Procs, Pending(pc'[q], job'[q])
        PROVE  /\ job'[q].resp.access \in 1 .. issued'
               /\ job'[q].resp.refresh \in {None, job'[q].resp.access}
               /\ job'[q].resp.refresh # None => job'[q].resp.refresh \in valid'
               /\ \A r \in Procs : r # q /\ Pending(pc'[r], job'[r])
                     => job'[r].resp.access # job'[q].resp.access
    <3>1. CASE /\ Pending(pc[q], job[q]) /\ job'[q].resp = job[q].resp
      <4>1. /\ job[q].resp.access \in 1 .. issued
            /\ job[q].resp.refresh \in {None, job[q].resp.access}
            /\ job[q].resp.refresh # None => job[q].resp.refresh \in valid
            /\ job[q].resp.access \in InFlight
            /\ \A r \in Procs : r # q /\ Pending(pc[r], job[r])
                     => job[r].resp.access # job[q].resp.access
        BY <3>1 DEF CacheInv, TokensInv, InFlight
      <4>2. job[q].resp.refresh # None => job[q].resp.refresh # job[p].held.refresh
        BY <4>1 DEF CacheInv, TokensInv, Known
      <4>3. job'[q].resp.refresh # None => job'[q].resp.refresh \in valid'
        BY <3>1, <4>1, <4>2 DEF Moves
      <4>4. ASSUME NEW r \in Procs, r # q, Pending(pc'[r], job'[r])
            PROVE  job'[r].resp.access # job'[q].resp.access
        <5>1. CASE Pending(pc[r], job[r]) /\ job'[r].resp = job[r].resp
          BY <5>1, <4>4, <4>1, <3>1
        <5>2. CASE issued' = issued + 1 /\ job'[r].resp.access = issued'
          BY <5>2, <4>1, <3>1
        <5>. QED  BY <4>4, <5>1, <5>2, <1>3
      <4>. QED  BY <3>1, <4>1, <4>3, <4>4, <1>i
    <3>2. CASE /\ q = p /\ issued' = issued + 1 /\ job'[q].resp.access = issued'
               /\ job'[q].resp.refresh \in {None, issued'}
               /\ job'[q].resp.refresh # None => issued' \in valid'
      <4>1. ASSUME NEW r \in Procs, r # q, Pending(pc'[r], job'[r])
            PROVE  job'[r].resp.access # job'[q].resp.access
        <5>1. Pending(pc[r], job[r]) /\ job'[r].resp = job[r].resp
          BY <4>1, <3>2, <1>p
        <5>2. job[r].resp.access \in 1 .. issued
          BY <5>1 DEF CacheInv, TokensInv
        <5>. QED  BY <3>2, <5>1, <5>2
      <4>. QED  BY <3>2, <4>1, <1>i
    <3>. QED  BY <2>3, <3>1, <3>2, <1>3
  <2>. QED  BY <2>1, <2>2, <2>3 DEF TokensInv, Pending
<1>6. ASSUME NEW g \in Grants, NEW r \in Ids, Carries(g, r)'
      PROVE  Carries(g, r) \/ (r = issued + 1 /\ issued' = issued + 1 /\ j.grant = g)
  <2>1. CASE (primary' # Absent /\ primary'[g].refresh = r)
             \/ (legacy' # Absent /\ legacy'[g].refresh = r)
    BY <2>1 DEF Moves, Carries
  <2>2. CASE \E q \in Procs : job'[q].grant = g /\ job'[q].held.refresh = r
    <3>1. PICK q \in Procs : job'[q].grant = g /\ job'[q].held.refresh = r
      BY <2>2
    <3>2. CASE q = p
      BY <3>1, <3>2, <1>p DEF Moves, Fits, None, Ids
    <3>3. CASE q # p
      BY <3>1, <3>3, <1>p DEF Carries
    <3>. QED  BY <3>2, <3>3
  <2>3. CASE \E q \in Procs : /\ job'[q].grant = g /\ Pending(pc'[q], job'[q])
                              /\ job'[q].resp.refresh = r
    <3>1. PICK q \in Procs : /\ job'[q].grant = g /\ Pending(pc'[q], job'[q])
                             /\ job'[q].resp.refresh = r
      BY <2>3
    <3>2. CASE Pending(pc[q], job[q]) /\ job'[q].resp = job[q].resp
                                      /\ job'[q].grant = job[q].grant
      BY <3>1, <3>2 DEF Carries
    <3>3. CASE /\ q = p /\ issued' = issued + 1
               /\ job'[q].resp.refresh \in {None, issued'}
      BY <3>1, <3>3, <1>p DEF None, Ids
    <3>. QED  BY <3>1, <3>2, <3>3, <1>3
  <2>. QED  BY <1>6, <2>1, <2>2, <2>3 DEF Carries, Pending
<1>7. ASSUME NEW g \in Grants, NEW r \in Ids, Carries(g, r)
      PROVE  r \in 0 .. issued
  <2>1. ASSUME NEW q \in Procs, Pending(pc[q], job[q]), job[q].resp.refresh = r
        PROVE  r \in 0 .. issued
    BY <2>1 DEF CacheInv, TokensInv, None, Ids
  <2>. QED  BY <1>7, <2>1 DEF Carries, CacheInv, TokensInv, Known
<1>8. OwnersInv'
  <2>. SUFFICES ASSUME NEW g \in Grants, NEW h \in Grants, NEW r \in Ids,
                       Carries(g, r)', Carries(h, r)'
                PROVE  g = h
    BY DEF OwnersInv
  <2>1. CASE Carries(g, r) /\ Carries(h, r)
    BY <2>1 DEF CacheInv, OwnersInv
  <2>2. CASE ~(Carries(g, r) /\ Carries(h, r))
    <3>1. r = issued + 1
      BY <2>2, <1>6
    <3>2. ~Carries(g, r) /\ ~Carries(h, r)
      BY <3>1, <1>7
    <3>. QED  BY <3>2, <1>6
  <2>. QED  BY <2>1, <2>2
<1>9. \A g \in Grants : Effective(g)' = Effective(g)
  BY DEF Moves, Effective
<1>10. ChainInv'
  <2>. SUFFICES ASSUME NEW g \in Grants, Effective(g)'.refresh # None
                PROVE  \/ Effective(g)'.refresh \in valid' \cup dead'
                       \/ \E q \in Procs : Spent(pc'[q], job'[q])
                             /\ job'[q].held.refresh = Effective(g)'.refresh
    BY DEF ChainInv, Spent, Pending
  <2>1. PICK r : r = Effective(g).refresh
    OBVIOUS
  <2>2. r = Effective(g)'.refresh /\ r # None
    BY <2>1, <1>9
  <2>3. CASE r \in dead
    BY <2>2, <2>3 DEF Moves
  <2>4. CASE r \in valid /\ r # job[p].held.refresh
    BY <2>2, <2>4 DEF Moves
  <2>5. CASE r = job[p].held.refresh /\ (r \in valid \/ Spent(pc[p], job[p]))
    BY <2>2, <2>5, <1>p DEF Moves, Handed
  <2>6. CASE \E q \in Procs : q # p /\ Spent(pc[q], job[q]) /\ job[q].held.refresh = r
    BY <2>2, <2>6, <1>p
  <2>. QED  BY <2>1, <2>2, <2>3, <2>4, <2>5, <2>6 DEF CacheInv, ChainInv
<1>11. HereInv'
  <2>1. ASSUME NEW q \in Procs
        PROVE  Here(pc'[q], job'[q])
    BY <1>p DEF Moves, Fits, CacheInv, HereInv
  <2>2. ASSUME NEW q \in Procs
        PROVE  Here(pc[q], job[q])'
    BY <2>1, <1>9 DEF Moves, Here, Cleared
  <2>. QED  BY <2>2 DEF HereInv
<1>. QED  BY <1>1, <1>2, <1>5, <1>8, <1>10, <1>11 DEF CacheInv

----------------------------------------------------------------------------
(* How an operation goes on outside the lock, with token t if it gets one. *)

Continues(p, j, t) ==
  \E s \in {"idle", "refresh", "acquire", "send"}, k \in Jobs :
     /\ pc' = [pc EXCEPT ![p] = s]
     /\ job' = [job EXCEPT ![p] = k]
     /\ outcome' \in Outcomes /\ started' = started
     /\ \/ s = "idle" /\ k = NoJob
        \/ s \in {"refresh", "acquire"} /\ k = j
        \/ s = "send" /\ k = [j EXCEPT !.bearer = t]

(* What has to hold of the data j it goes on with.                         *)
Fit(j) ==
  /\ Known(j.held.access) /\ Known(j.held.refresh)
  /\ Known(j.bearer) /\ Known(j.rejected)
  /\ j.held.refresh # None => Carries(j.grant, j.held.refresh)
  /\ j.rejected # None /\ ~j.faulted =>
        /\ primary # Absent /\ primary[j.grant].access # j.rejected
        /\ j.held.access # j.rejected

(* A token for the caller or for the request.                              *)
LEMMA YieldContinues ==
  ASSUME CacheInv, NEW p \in Procs, NEW j \in Jobs, NEW t \in MaybeId, Yield(p, t, j)
  PROVE  Continues(p, j, t)
<1>1. CASE j.op = "send"
  <2>. DEFINE k == [j EXCEPT !.bearer = t]
  <2>1. k \in Jobs
    BY DEF Jobs
  <2>2. pc' = [pc EXCEPT ![p] = "send"] /\ job' = [job EXCEPT ![p] = k]
        /\ outcome' \in Outcomes /\ started' = started
    BY <1>1 DEF Yield, Goto, CacheInv, TypeOK
  <2>. QED  BY <2>1, <2>2 DEF Continues
<1>2. CASE j.op # "send"
  BY <1>2, Values DEF Yield, Return, Continues, Outcomes
<1>. QED  BY <1>1, <1>2

(* Every way an operation returns is one to go on.                         *)
LEMMA ReturnContinues ==
  ASSUME NEW p \in Procs, NEW j, NEW t, NEW end \in Outcomes, Return(p, end)
  PROVE  Continues(p, j, t)
BY Values DEF Return, Continues

(* Where a refresh that gave nothing leads.                                *)
LEMMA FallBackContinues ==
  ASSUME CacheInv, NEW p \in Procs, NEW j \in Jobs, FallBack(p, j)
  PROVE  Continues(p, j, j.held.access)
<1>. j.held.access \in MaybeId
  BY DEF Jobs, Entry
<1>1. CASE Goto(p, "acquire", j)
  BY <1>1 DEF Goto, Continues, CacheInv, TypeOK
<1>2. CASE Yield(p, j.held.access, j)
  BY <1>2, YieldContinues
<1>3. CASE Return(p, "NotAuthenticated")
  BY <1>3, ReturnContinues DEF Outcomes
<1>. QED  BY <1>1, <1>2, <1>3 DEF FallBack

(* What get_or_refresh_token does with the entry it read.                  *)
LEMMA SettleContinues ==
  ASSUME CacheInv, NEW p \in Procs, NEW j \in Jobs, Settle(p, j)
  PROVE  Continues(p, j, j.held.access)
<1>. j.held.access \in MaybeId
  BY DEF Jobs, Entry
<1>1. CASE Goto(p, "refresh", j)
  BY <1>1 DEF Goto, Continues, CacheInv, TypeOK
<1>2. CASE Yield(p, j.held.access, j)
  BY <1>2, YieldContinues
<1>3. CASE FallBack(p, j)
  BY <1>3, FallBackContinues
<1>. QED  BY <1>1, <1>2, <1>3 DEF Settle

(* What it does with the entry it reads back after a write: the token it   *)
(* goes on with is the one read, or the one held when there is none.       *)
LEMMA StoredContinues ==
  ASSUME CacheInv, NEW p \in Procs, NEW j \in Jobs, NEW e \in Entry, SettleStored(p, e, j)
  PROVE  Continues(p, j, e.access) \/ Continues(p, j, j.held.access)
<1>. e.access \in MaybeId
  BY DEF Entry
<1>2. CASE Yield(p, e.access, j)
  BY <1>2, YieldContinues
<1>3. CASE FallBack(p, j)
  BY <1>3, FallBackContinues
<1>4. CASE Return(p, "NotAuthenticated")
  BY <1>4, ReturnContinues DEF Outcomes
<1>. QED  BY <1>2, <1>3, <1>4 DEF SettleStored

(* Going on outside the lock keeps the invariant.                          *)
LEMMA ContinueKeeps ==
  ASSUME CacheInv, NEW p \in Procs, NEW j \in Jobs, NEW t \in MaybeId,
         Continues(p, j, t), Fit(j), Known(t),
         j.rejected # None /\ ~j.faulted => t # j.rejected,
         UNCHANGED storeVars,
         lock' \in Procs \cup {Free},
         \A q \in Procs : lock' = q <=> q # p /\ lock = q,
         issued' \in {issued, issued + 1}, issued' \in 0 .. MaxIssued,
         valid' \subseteq Ids, valid \ {job[p].held.refresh} \subseteq valid',
         age' \in [Ids -> {"fresh", "near", "expired"}],
         dead \subseteq dead', dead' \subseteq Ids,
         Spent(pc[p], job[p]) \/ job[p].held.refresh \in valid \ valid'
            => job[p].held.refresh \in dead'
  PROVE  CacheInv'
<1>1. PICK s \in {"idle", "refresh", "acquire", "send"}, k \in Jobs :
        /\ pc' = [pc EXCEPT ![p] = s]
        /\ job' = [job EXCEPT ![p] = k]
        /\ outcome' \in Outcomes /\ started' = started
        /\ \/ s = "idle" /\ k = NoJob
           \/ s \in {"refresh", "acquire"} /\ k = j
           \/ s = "send" /\ k = [j EXCEPT !.bearer = t]
  BY DEF Continues
<1>2. s \in Steps /\ s \notin Writing /\ s \notin Locked
      /\ s \notin {"clean", "reread", "loadLegacy", "put", "readLegacy"}
  BY DEF Steps, Writing, Locked
<1>3. ~Pending(s, k) /\ ~Spent(s, k)
  BY <1>2 DEF Pending, Spent
<1>4. Fits(s, k)
  <2>1. CASE s = "idle" /\ k = NoJob
    <3>1. k.held = NoEntry /\ k.bearer = None /\ k.rejected = None
      BY <2>1 DEF NoJob, Job
    <3>. QED  BY <3>1, <1>2, NoneKnown DEF Fits, Here, Cleared, NoEntry
  <2>2. CASE s \in {"refresh", "acquire"} /\ k = j
    BY <2>2, <1>2 DEF Fit, Fits, Here, Cleared
  <2>3. CASE s = "send" /\ k = [j EXCEPT !.bearer = t]
    <3>1. k.held = j.held /\ k.bearer = t /\ k.rejected = j.rejected /\ k.grant = j.grant
      BY <2>3 DEF Jobs
    <3>2. k.faulted = j.faulted
      BY <2>3, Zenon DEF Jobs
    <3>. QED  BY <3>1, <3>2, <1>2 DEF Fit, Fits, Here, Cleared
  <2>. QED  BY <1>1, <2>1, <2>2, <2>3
<1>5. \A q \in Procs : lock' = q <=> pc'[q] \in Locked
  BY <1>1, <1>2 DEF CacheInv, LockInv, TypeOK
<1>6. Moves(p, s, k)
  BY <1>1, <1>3, <1>4, <1>5 DEF Moves, Receives, Handed, storeVars, CacheInv, TypeOK
<1>. QED  BY <1>2, <1>6, MoveKeeps

(* The same when neither the provider nor the lock is concerned.           *)
LEMMA LocalContinueKeeps ==
  ASSUME CacheInv, NEW p \in Procs, NEW j \in Jobs, NEW t \in MaybeId,
         Continues(p, j, t), Fit(j), Known(t),
         j.rejected # None /\ ~j.faulted => t # j.rejected,
         UNCHANGED <<storeVars, lock, idpVars, dead>>,
         pc[p] \notin Locked, pc[p] \notin Writing
  PROVE  CacheInv'
<1>1. ~Spent(pc[p], job[p])
  BY DEF Spent, Pending
<1>2. \A q \in Procs : lock = q => q # p
  BY DEF CacheInv, LockInv
<1>3. UNCHANGED storeVars /\ lock' = lock /\ issued' = issued /\ valid' = valid
      /\ age' = age /\ dead' = dead
  BY DEF idpVars
<1>. QED  BY <1>1, <1>2, <1>3, ContinueKeeps DEF CacheInv, TypeOK

(* Outside a write the data of a process fit.                              *)
LEMMA FitNow ==
  ASSUME CacheInv, NEW p \in Procs, pc[p] \notin Writing \/ job[p].doing # "invalidate"
  PROVE  Fit(job[p])
<1>1. job[p].held.refresh # None => Carries(job[p].grant, job[p].held.refresh)
  BY DEF Carries, CacheInv, TypeOK
<1>. QED  BY <1>1 DEF Fit, CacheInv, TokensInv, HereInv, Here, Cleared

(* A process without an operation holds nothing.                           *)
LEMMA NoJobFits ==
  ASSUME CacheInv
  PROVE  Fit(NoJob) /\ Known(None)
BY NoneKnown DEF Fit, NoJob, Job, NoEntry

(* An operation that ends outside the lock and is owed nothing.            *)
LEMMA ReturnKeeps ==
  ASSUME CacheInv, NEW p \in Procs, NEW end \in Outcomes, Return(p, end),
         UNCHANGED <<storeVars, lock, idpVars, dead>>,
         pc[p] \notin Locked, pc[p] \notin Writing
  PROVE  CacheInv'
<1>1. Continues(p, NoJob, None) /\ NoJob \in Jobs /\ None \in MaybeId
  BY ReturnContinues, Values DEF MaybeId
<1>2. NoJob.rejected = None
  BY DEF NoJob, Job
<1>. QED  BY <1>1, <1>2, NoJobFits, LocalContinueKeeps

----------------------------------------------------------------------------
(* The reads. *)

(* Entries read from the store.                                            *)
LEMMA HeldFits ==
  ASSUME CacheInv, NEW p \in Procs, NEW e \in Entry, NEW j \in Jobs,
         j = [job[p] EXCEPT !.held = e],
         Known(e.access), Known(e.refresh),
         e.refresh # None => Carries(job[p].grant, e.refresh),
         pc[p] \notin Writing,
         Cleared(pc[p], job[p]) => e.access # job[p].rejected
  PROVE  Fit(j)
<1>1. /\ j.held = e /\ j.grant = job[p].grant
      /\ j.bearer = job[p].bearer /\ j.rejected = job[p].rejected
  BY DEF CacheInv, TypeOK, Jobs
<1>2. j.faulted = job[p].faulted
  BY Zenon DEF CacheInv, TypeOK, Jobs
<1>. QED  BY <1>1, <1>2 DEF Fit, CacheInv, TokensInv, HereInv, Here, Cleared

(* Going on with the token held keeps the invariant.                       *)
LEMMA HeldContinueKeeps ==
  ASSUME CacheInv, NEW p \in Procs, NEW j \in Jobs, Continues(p, j, j.held.access), Fit(j),
         UNCHANGED <<storeVars, lock, idpVars, dead>>,
         pc[p] \notin Locked, pc[p] \notin Writing
  PROVE  CacheInv'
<1>1. j.held.access \in MaybeId
  BY DEF Jobs, Entry
<1>2. Known(j.held.access) /\ (j.rejected # None /\ ~j.faulted => j.held.access # j.rejected)
  BY DEF Fit
<1>. QED  BY <1>1, <1>2, LocalContinueKeeps

(* Settling with data that fit keeps the invariant.                        *)
LEMMA SettleKeeps ==
  ASSUME CacheInv, NEW p \in Procs, NEW j \in Jobs, Settle(p, j), Fit(j),
         UNCHANGED <<storeVars, lock, idpVars, dead>>,
         pc[p] \notin Locked, pc[p] \notin Writing
  PROVE  CacheInv'
BY SettleContinues, HeldContinueKeeps

(* The type of a process's step and data.                                  *)
LEMMA JobType ==
  ASSUME CacheInv, NEW p \in Procs
  PROVE  job[p] \in Jobs /\ pc[p] \in Steps /\ job[p].grant \in Grants
BY DEF CacheInv, TypeOK, Jobs

(* read_cache finds the namespaced secret, or turns to the legacy one.     *)
LEMMA ReadKeeps ==
  ASSUME CacheInv, NEW p \in Procs, Read(p)
  PROVE  CacheInv'
<1>1. pc[p] = "read" /\ pc[p] \notin Locked /\ pc[p] \notin Writing
      /\ UNCHANGED <<storeVars, lock, idpVars, dead>>
  BY DEF Read, Locked, Writing
<1>2. CASE primary # Absent /\ Settle(p, [job[p] EXCEPT !.held = primary[job[p].grant]])
  <2>1. PICK e : e = primary[job[p].grant]
    OBVIOUS
  <2>2. e \in Entry /\ Known(e.access) /\ Known(e.refresh)
        /\ Carries(job[p].grant, e.refresh)
    BY <1>2, <2>1, JobType DEF CacheInv, TypeOK, File, TokensInv, Carries
  <2>3. PICK j : j = [job[p] EXCEPT !.held = e]
    OBVIOUS
  <2>4. j \in Jobs
    BY <2>2, <2>3, JobType DEF Jobs
  <2>5. Cleared(pc[p], job[p]) => e.access # job[p].rejected
    BY <2>1 DEF CacheInv, HereInv, Here
  <2>6. Fit(j)
    BY <1>1, <2>2, <2>3, <2>4, <2>5, HeldFits
  <2>7. Settle(p, j)
    BY <1>2, <2>1, <2>3
  <2>. QED  BY <1>1, <2>4, <2>6, <2>7, SettleKeeps
<1>3. CASE primary = Absent /\ Goto(p, "readLegacy", job[p])
  <2>1. "readLegacy" \in Steps /\ "readLegacy" \notin Writing /\ "readLegacy" \notin Locked
    BY DEF Steps, Writing, Locked
  <2>2. ~Cleared(pc[p], job[p]) /\ ~Cleared("readLegacy", job[p])
    BY <1>1, <1>3, <2>1 DEF CacheInv, HereInv, Here, Cleared
  <2>3. Fits("readLegacy", job[p])
    BY <1>1, <2>1, <2>2, FitNow DEF Fit, Fits, Here
  <2>4. Receives(p, "readLegacy", job[p]) /\ Handed(p, "readLegacy", job[p])
    BY <1>1, <2>1 DEF Receives, Handed, Pending, Spent, idpVars
  <2>5. Moves(p, "readLegacy", job[p])
    BY <1>1, <1>3, <2>1, <2>3, <2>4
    DEF Goto, Moves, storeVars, idpVars, CacheInv, TypeOK, LockInv
  <2>. QED  BY <2>1, <2>5, MoveKeeps, JobType
<1>. QED  BY <1>2, <1>3 DEF Read

(* read_cache reads the legacy secret, perhaps after another process moved *)
(* it: what it then holds is an older entry of the same grant.             *)
LEMMA ReadLegacyKeeps ==
  ASSUME CacheInv, NEW p \in Procs, ReadLegacy(p)
  PROVE  CacheInv'
<1>1. pc[p] = "readLegacy" /\ pc[p] \notin Locked /\ pc[p] \notin Writing
      /\ UNCHANGED <<storeVars, lock, idpVars, dead>>
  BY DEF ReadLegacy, Locked, Writing
<1>2. PICK e : e = IF legacy # Absent THEN legacy[job[p].grant] ELSE NoEntry
  OBVIOUS
<1>3. e \in Entry /\ Known(e.access) /\ Known(e.refresh)
      /\ (e.refresh # None => Carries(job[p].grant, e.refresh))
  <2>1. CASE legacy # Absent
    BY <1>2, <2>1, JobType DEF CacheInv, TypeOK, File, TokensInv, Carries
  <2>2. CASE legacy = Absent
    BY <1>2, <2>2, Values, NoneKnown DEF NoEntry
  <2>. QED  BY <2>1, <2>2
<1>4. PICK j : j = [job[p] EXCEPT !.held = e]
  OBVIOUS
<1>5. j \in Jobs
  BY <1>3, <1>4, JobType DEF Jobs
<1>6. ~Cleared(pc[p], job[p])
  BY <1>1 DEF CacheInv, HereInv, Here
<1>7. Fit(j)
  BY <1>1, <1>3, <1>4, <1>5, <1>6, HeldFits
<1>8. Settle(p, j)
  BY <1>2, <1>4 DEF ReadLegacy
<1>. QED  BY <1>1, <1>5, <1>7, <1>8, SettleKeeps

(* The read after a write finds the namespaced secret.                     *)
LEMMA RereadKeeps ==
  ASSUME CacheInv, NEW p \in Procs, Reread(p)
  PROVE  CacheInv'
<1>1. pc[p] = "reread" /\ pc[p] \notin Locked /\ pc[p] \notin Writing
      /\ UNCHANGED <<storeVars, lock, idpVars, dead>>
  BY DEF Reread, Locked, Writing
<1>2. PICK e : e = primary[job[p].grant]
  OBVIOUS
<1>3. primary # Absent
  BY <1>1 DEF CacheInv, HereInv, Here
<1>4. e \in Entry /\ Known(e.access) /\ e.access \in MaybeId
  BY <1>2, <1>3, JobType DEF CacheInv, TypeOK, File, Entry, TokensInv
<1>5. job[p].rejected # None /\ ~job[p].faulted => e.access # job[p].rejected
  BY <1>1, <1>2 DEF CacheInv, HereInv, Here, Cleared
<1>6. Fit(job[p])
  BY <1>1, FitNow
<1>7. CASE Continues(p, job[p], e.access)
  BY <1>1, <1>4, <1>5, <1>6, <1>7, JobType, LocalContinueKeeps
<1>8. CASE Continues(p, job[p], job[p].held.access)
  BY <1>1, <1>6, <1>8, JobType, HeldContinueKeeps
<1>. QED  BY <1>2, <1>4, <1>7, <1>8, JobType, StoredContinues DEF Reread

(* A read that fails counts as empty.                                      *)
LEMMA ReadFailsKeeps ==
  ASSUME CacheInv, NEW p \in Procs, ReadFails(p)
  PROVE  CacheInv'
<1>. DEFINE j == [job[p] EXCEPT !.faulted = TRUE]
            k == [j EXCEPT !.held = NoEntry]
<1>1. pc[p] \notin Locked /\ pc[p] \notin Writing
      /\ UNCHANGED <<storeVars, lock, idpVars, dead>>
  BY DEF ReadFails, Locked, Writing
<1>2. j \in Jobs /\ k \in Jobs
  BY JobType, Values DEF Jobs
<1>3. j.faulted /\ k.faulted
  BY JobType, Zenon DEF Jobs
<1>4. /\ j.held = job[p].held /\ j.grant = job[p].grant
      /\ j.bearer = job[p].bearer /\ j.rejected = job[p].rejected
      /\ k.held = NoEntry /\ k.grant = job[p].grant
      /\ k.bearer = job[p].bearer /\ k.rejected = job[p].rejected
  BY JobType DEF Jobs
<1>5. Settle(p, k) \/ SettleStored(p, NoEntry, j)
  BY DEF ReadFails
<1>. HIDE DEF j, k
<1>6. Fit(j) /\ Fit(k)
  BY <1>1, <1>3, <1>4, FitNow, NoneKnown DEF Fit, NoEntry
<1>7. CASE Settle(p, k)
  BY <1>1, <1>2, <1>6, <1>7, SettleKeeps
<1>8. CASE SettleStored(p, NoEntry, j)
  <2>1. Continues(p, j, None) \/ Continues(p, j, j.held.access)
    BY <1>2, <1>8, Values, StoredContinues DEF NoEntry
  <2>2. CASE Continues(p, j, None)
    BY <1>1, <1>2, <1>3, <1>6, <2>2, NoneKnown, LocalContinueKeeps DEF MaybeId
  <2>3. CASE Continues(p, j, j.held.access)
    BY <1>1, <1>2, <1>6, <2>3, HeldContinueKeeps
  <2>. QED  BY <2>1, <2>2, <2>3
<1>. QED  BY <1>5, <1>7, <1>8

----------------------------------------------------------------------------
(* The provider's answers. *)

(* A token response: its tokens are new, and the refresh token it was      *)
(* given for is spent with a successor.                                    *)
LEMMA ReceivedKeeps ==
  ASSUME CacheInv, NEW p \in Procs, NEW b \in BOOLEAN, NEW why \in {"refresh", "acquire"},
         NEW spent \in MaybeId,
         pc[p] \in {"refresh", "acquire"},
         \/ why = "refresh" /\ spent = job[p].held.refresh /\ spent \in valid
         \/ why = "acquire" /\ spent = None,
         Issue(spent, b), Goto(p, "lock", Received(p, b, why)),
         UNCHANGED <<storeVars, lock, dead>>
  PROVE  CacheInv'
<1>. DEFINE new == issued + 1
            j == Received(p, b, why)
<1>1. pc[p] \notin Locked /\ pc[p] \notin Writing /\ "lock" \in Writing
      /\ "lock" \notin Locked /\ "lock" \in Steps
  BY DEF Locked, Writing, Steps
<1>2. /\ new \in Ids /\ issued' = new /\ age' = age
      /\ valid' = IF b THEN (valid \ {spent}) \cup {new} ELSE valid
  BY DEF Issue
<1>3. PICK r : r = [access |-> new, refresh |-> IF b THEN new ELSE None]
  OBVIOUS
<1>4. /\ r \in Entry /\ r.access = new /\ r.refresh \in {None, new}
      /\ (r.refresh # None <=> b)
  BY <1>2, <1>3, BoundAssumption DEF Entry, MaybeId, Ids, None
<1>5. j = [job[p] EXCEPT !.resp = r, !.doing = why, !.discovered = TRUE]
  BY <1>3 DEF Received
<1>6. j \in Jobs
  BY <1>4, <1>5, JobType DEF Jobs
<1>7. /\ j.held = job[p].held /\ j.grant = job[p].grant /\ j.resp = r /\ j.doing = why
      /\ j.bearer = job[p].bearer /\ j.rejected = job[p].rejected /\ j.cache = job[p].cache
  BY <1>5, JobType DEF Jobs
<1>8. j.faulted = job[p].faulted
  BY <1>5, JobType, Zenon DEF Jobs
<1>9. pc' = [pc EXCEPT ![p] = "lock"] /\ job' = [job EXCEPT ![p] = j]
      /\ outcome' = outcome /\ started' = started
  BY DEF Goto
<1>. HIDE DEF j
<1>10. Fits("lock", j)
  <2>1. why = "refresh" => j.held.refresh # None
    BY <1>7 DEF CacheInv, TypeOK, Ids, None
  <2>. QED  BY <1>1, <1>7, <1>8, <2>1, FitNow DEF Fit, Fits, Here, Cleared
<1>11. Receives(p, "lock", j)
  BY <1>2, <1>4, <1>7 DEF Receives
<1>12. Handed(p, "lock", j)
  <2>1. ~Spent(pc[p], job[p])
    BY <1>1 DEF Spent, Pending
  <2>2. CASE job[p].held.refresh \in valid \ valid'
    <3>1. b /\ spent = job[p].held.refresh /\ why = "refresh"
      BY <1>2, <2>2 DEF CacheInv, TypeOK, Ids, None
    <3>. QED  BY <3>1, <1>1, <1>4, <1>7 DEF Handed, Spent, Pending
  <2>. QED  BY <2>1, <2>2 DEF Handed
<1>13. valid' \subseteq Ids /\ valid \ {job[p].held.refresh} \subseteq valid'
  <2>1. valid \subseteq Ids /\ None \notin Ids
    BY DEF CacheInv, TypeOK, Ids, None
  <2>2. CASE valid' = valid
    BY <2>1, <2>2
  <2>3. CASE valid' = (valid \ {spent}) \cup {new}
    BY <1>2, <2>1, <2>3
  <2>. QED  BY <1>2, <2>2, <2>3
<1>14. \A q \in Procs : lock' = q <=> pc'[q] \in Locked
  BY <1>1, <1>9 DEF CacheInv, LockInv, TypeOK
<1>15. issued' \in {issued, issued + 1} /\ issued' \in 0 .. MaxIssued
  BY <1>2, BoundAssumption DEF Ids
<1>16. Moves(p, "lock", j)
  BY <1>2, <1>9, <1>10, <1>11, <1>12, <1>13, <1>14, <1>15
  DEF Moves, storeVars, CacheInv, TypeOK
<1>. QED  BY <1>1, <1>6, <1>16, MoveKeeps

(* do_refresh succeeds.                                                    *)
LEMMA RefreshGrantedKeeps ==
  ASSUME CacheInv, NEW p \in Procs, NEW b \in BOOLEAN, RefreshGranted(p, b)
  PROVE  CacheInv'
<1>1. job[p].held.refresh \in MaybeId
  BY JobType DEF Jobs, Entry
<1>. QED  BY <1>1, ReceivedKeeps DEF RefreshGranted

(* A login or a client-credentials grant succeeds.                         *)
LEMMA AcquiredKeeps ==
  ASSUME CacheInv, NEW p \in Procs, NEW b \in BOOLEAN, Acquired(p, b)
  PROVE  CacheInv'
BY ReceivedKeeps DEF Acquired, MaybeId

(* On to the fallback after a refresh that gave nothing.                   *)
LEMMA Discovered ==
  ASSUME CacheInv, NEW p \in Procs, NEW j, j = [job[p] EXCEPT !.discovered = TRUE],
         pc[p] = "refresh", FallBack(p, j)
  PROVE  /\ j \in Jobs /\ Fit(j) /\ Continues(p, j, j.held.access)
         /\ j.held.access \in MaybeId /\ Known(j.held.access)
         /\ j.rejected # None /\ ~j.faulted => j.held.access # j.rejected
<1>1. j \in Jobs
  BY JobType DEF Jobs
<1>2. /\ j.held = job[p].held /\ j.grant = job[p].grant
      /\ j.bearer = job[p].bearer /\ j.rejected = job[p].rejected
  BY JobType DEF Jobs
<1>3. j.faulted = job[p].faulted
  BY JobType, Zenon DEF Jobs
<1>4. Fit(job[p])
  BY FitNow DEF Writing
<1>5. Fit(j)
  BY <1>2, <1>3, <1>4 DEF Fit
<1>6. j.held.access \in MaybeId
  BY <1>1 DEF Jobs, Entry
<1>. QED  BY <1>1, <1>5, <1>6, FallBackContinues DEF Fit

(* do_refresh whose response is lost: the history says so.                 *)
LEMMA RefreshLostKeeps ==
  ASSUME CacheInv, NEW p \in Procs, RefreshLost(p)
  PROVE  CacheInv'
<1>1. PICK j : j = [job[p] EXCEPT !.discovered = TRUE]
  OBVIOUS
<1>2. pc[p] = "refresh" /\ FallBack(p, j)
  BY <1>1 DEF RefreshLost
<1>3. /\ issued + 1 \in Ids /\ issued' = issued + 1 /\ age' = age
      /\ valid' = (valid \ {job[p].held.refresh}) \cup {issued + 1}
      /\ dead' = dead \cup {job[p].held.refresh} /\ job[p].held.refresh \in valid
      /\ UNCHANGED storeVars /\ lock' = lock
  BY DEF RefreshLost, Issue
<1>4. \A q \in Procs : lock' = q <=> q # p /\ lock = q
  BY <1>2, <1>3 DEF CacheInv, LockInv, Locked
<1>5. valid' \subseteq Ids /\ valid \ {job[p].held.refresh} \subseteq valid'
      /\ dead' \subseteq Ids /\ dead \subseteq dead' /\ job[p].held.refresh \in dead'
  BY <1>3 DEF CacheInv, TypeOK
<1>6. issued' \in {issued, issued + 1} /\ issued' \in 0 .. MaxIssued
  BY <1>3, BoundAssumption DEF Ids
<1>7. lock' \in Procs \cup {Free} /\ age' \in [Ids -> {"fresh", "near", "expired"}]
  BY <1>3 DEF CacheInv, TypeOK
<1>. QED  BY <1>1, <1>2, <1>3, <1>4, <1>5, <1>6, <1>7, Discovered, ContinueKeeps

(* do_refresh is refused.                                                  *)
LEMMA RefreshFailsKeeps ==
  ASSUME CacheInv, NEW p \in Procs, RefreshFails(p)
  PROVE  CacheInv'
<1>1. PICK j : j = [job[p] EXCEPT !.discovered = TRUE]
  OBVIOUS
<1>2. pc[p] = "refresh" /\ FallBack(p, j) /\ UNCHANGED <<storeVars, lock, idpVars, dead>>
  BY <1>1 DEF RefreshFails
<1>3. pc[p] \notin Locked /\ pc[p] \notin Writing
  BY <1>2 DEF Locked, Writing
<1>. QED  BY <1>1, <1>2, <1>3, Discovered, LocalContinueKeeps

(* The provider cannot be asked.                                           *)
LEMMA ProviderFailsKeeps ==
  ASSUME CacheInv, NEW p \in Procs, ProviderFails(p)
  PROVE  CacheInv'
BY ReturnKeeps DEF ProviderFails, Locked, Writing, Outcomes

(* The request is answered.                                                *)
LEMMA AcceptedKeeps ==
  ASSUME CacheInv, NEW p \in Procs, Accepted(p)
  PROVE  CacheInv'
BY ReturnKeeps DEF Accepted, Locked, Writing, Outcomes

(* The request meets a 401: the token it carried is to be invalidated.     *)
LEMMA RejectedKeeps ==
  ASSUME CacheInv, NEW p \in Procs, Rejected(p)
  PROVE  CacheInv'
<1>1. pc[p] = "send" /\ UNCHANGED <<storeVars, lock, idpVars, dead>>
  BY DEF Rejected
<1>2. "lock" \in Writing /\ "lock" \notin Locked /\ pc[p] \notin Writing
      /\ pc[p] \notin Locked /\ "lock" \in Steps
  BY <1>1 DEF Locked, Writing, Steps
<1>3. PICK j : j = [job[p] EXCEPT !.rejected = job[p].bearer, !.doing = "invalidate",
                                  !.held = NoEntry]
  OBVIOUS
<1>4. j \in Jobs /\ j.rejected = job[p].bearer /\ j.doing = "invalidate"
      /\ j.held = NoEntry /\ j.bearer = job[p].bearer
  BY <1>3, JobType, Values DEF Jobs
<1>5. CASE Goto(p, "lock", j)
  <2>1. Fits("lock", j)
    BY <1>2, <1>4, NoneKnown DEF Fits, Here, Cleared, NoEntry, CacheInv, TokensInv
  <2>2. Receives(p, "lock", j) /\ Handed(p, "lock", j)
    BY <1>1, <1>2, <1>4 DEF Receives, Handed, Pending, Spent, idpVars
  <2>3. Moves(p, "lock", j)
    BY <1>1, <1>2, <1>5, <2>1, <2>2
    DEF Goto, Moves, storeVars, idpVars, CacheInv, TypeOK, LockInv
  <2>. QED  BY <1>2, <1>4, <2>3, MoveKeeps
<1>6. CASE Return(p, "Unauthorized")
  BY <1>1, <1>2, <1>6, ReturnKeeps DEF Outcomes
<1>. QED  BY <1>3, <1>5, <1>6 DEF Rejected

----------------------------------------------------------------------------
(* The write under the lock. *)

(* A step of the write before the secret is replaced.                      *)
LEMMA WritingKeeps ==
  ASSUME CacheInv, NEW p \in Procs, NEW s \in Writing, NEW j \in Jobs,
         pc[p] \in Writing, Goto(p, s, j),
         j.held = job[p].held, j.resp = job[p].resp, j.doing = job[p].doing,
         j.grant = job[p].grant, j.bearer = job[p].bearer, j.rejected = job[p].rejected,
         j.faulted \/ j.faulted = job[p].faulted,
         s = "loadLegacy" => primary = Absent,
         s = "put" => \/ \A g \in Grants : j.cache[g] = Effective(g)
                      \/ j.cache = EmptyFile /\ j.faulted,
         UNCHANGED <<storeVars, idpVars, dead>>,
         lock' \in Procs \cup {Free},
         \A q \in Procs : lock' = q <=> pc'[q] \in Locked
  PROVE  CacheInv'
<1>1. s \in Steps /\ s \notin {"clean", "reread", "readLegacy", "send"}
  BY DEF Steps, Writing
<1>2. job[p].held.refresh # None => Carries(job[p].grant, job[p].held.refresh)
  BY DEF Carries, CacheInv, TypeOK
<1>3. Cleared(s, j) => Cleared(pc[p], job[p])
  BY DEF Cleared
<1>4. Fits(s, j)
  <2>1. /\ Known(j.held.access) /\ Known(j.held.refresh)
        /\ Known(j.bearer) /\ Known(j.rejected)
    BY DEF CacheInv, TokensInv
  <2>2. j.doing = "invalidate" => j.held = NoEntry
    BY DEF CacheInv, HereInv, Here
  <2>3. j.doing = "refresh" => j.held.refresh # None
    BY DEF CacheInv, HereInv, Here
  <2>4. Cleared(s, j) => /\ primary # Absent /\ primary[j.grant].access # j.rejected
                         /\ j.held.access # j.rejected
    BY <1>3 DEF CacheInv, HereInv, Here
  <2>. QED  BY <1>1, <1>2, <2>1, <2>2, <2>3, <2>4 DEF Fits, Here
<1>5. Receives(p, s, j) /\ Handed(p, s, j)
  BY DEF Receives, Handed, Pending, Spent, idpVars
<1>6. Moves(p, s, j)
  BY <1>4, <1>5 DEF Goto, Moves, storeVars, idpVars, CacheInv, TypeOK
<1>. QED  BY <1>1, <1>6, MoveKeeps

(* The lock file is free and taken.                                        *)
LEMMA TakeLockKeeps ==
  ASSUME CacheInv, NEW p \in Procs, TakeLock(p)
  PROVE  CacheInv'
<1>1. pc[p] = "lock" /\ lock = Free /\ lock' = p /\ Goto(p, "load", job[p])
      /\ UNCHANGED <<storeVars, idpVars, dead>>
  BY DEF TakeLock
<1>2. pc[p] \in Writing /\ "load" \in Writing /\ "load" \in Locked
  BY <1>1 DEF Writing, Locked
<1>3. \A q \in Procs : lock' = q <=> pc'[q] \in Locked
  BY <1>1, <1>2, FreeAssumption DEF Goto, CacheInv, LockInv, TypeOK
<1>. QED  BY <1>1, <1>2, <1>3, WritingKeeps, JobType

(* Under the lock the namespaced secret is what a reader finds.            *)
LEMMA LoadKeeps ==
  ASSUME CacheInv, NEW p \in Procs, Load(p)
  PROVE  CacheInv'
<1>1. pc[p] = "load" /\ UNCHANGED <<storeVars, lock, idpVars, dead>>
  BY DEF Load
<1>2. pc[p] \in Writing /\ "put" \in Writing /\ "loadLegacy" \in Writing
      /\ pc[p] \in Locked /\ "put" \in Locked /\ "loadLegacy" \in Locked
  BY <1>1 DEF Writing, Locked
<1>3. CASE primary # Absent /\ Goto(p, "put", [job[p] EXCEPT !.cache = primary])
  <2>1. PICK j : j = [job[p] EXCEPT !.cache = primary]
    OBVIOUS
  <2>2. j \in Jobs
    BY <1>3, <2>1, JobType DEF Jobs, CacheInv, TypeOK
  <2>3. /\ j.held = job[p].held /\ j.resp = job[p].resp /\ j.doing = job[p].doing
        /\ j.grant = job[p].grant /\ j.bearer = job[p].bearer
        /\ j.rejected = job[p].rejected /\ j.cache = primary
    BY <2>1, JobType DEF Jobs
  <2>4. j.faulted = job[p].faulted
    BY <2>1, JobType, Zenon DEF Jobs
  <2>5. \A g \in Grants : j.cache[g] = Effective(g)
    BY <1>3, <2>3 DEF Effective
  <2>6. lock' = lock /\ Goto(p, "put", j) /\ \A q \in Procs : lock' = q <=> pc'[q] \in Locked
    BY <1>1, <1>2, <1>3, <2>1 DEF Goto, CacheInv, LockInv, TypeOK
  <2>7. lock' \in Procs \cup {Free}
    BY <2>6 DEF CacheInv, TypeOK
  <2>. QED  BY <1>1, <1>2, <2>2, <2>3, <2>4, <2>5, <2>6, <2>7, WritingKeeps
<1>4. CASE primary = Absent /\ Goto(p, "loadLegacy", job[p])
  <2>1. lock' = lock /\ \A q \in Procs : lock' = q <=> pc'[q] \in Locked
    BY <1>1, <1>2, <1>4 DEF Goto, CacheInv, LockInv, TypeOK
  <2>2. lock' \in Procs \cup {Free}
    BY <2>1 DEF CacheInv, TypeOK
  <2>. QED  BY <1>1, <1>2, <1>4, <2>1, <2>2, WritingKeeps, JobType
<1>. QED  BY <1>3, <1>4 DEF Load

(* Under the lock, with no namespaced secret, the legacy one is.           *)
LEMMA LoadLegacyKeeps ==
  ASSUME CacheInv, NEW p \in Procs, LoadLegacy(p)
  PROVE  CacheInv'
<1>1. pc[p] = "loadLegacy" /\ UNCHANGED <<storeVars, lock, idpVars, dead>>
  BY DEF LoadLegacy
<1>2. pc[p] \in Writing /\ "put" \in Writing /\ pc[p] \in Locked /\ "put" \in Locked
  BY <1>1 DEF Writing, Locked
<1>3. PICK f : f = IF legacy # Absent THEN legacy ELSE EmptyFile
  OBVIOUS
<1>4. PICK j : j = [job[p] EXCEPT !.cache = f]
  OBVIOUS
<1>5. f \in File /\ \A g \in Grants : f[g] = Effective(g)
  <2>1. primary = Absent
    BY <1>1 DEF CacheInv, HereInv, Here
  <2>. QED  BY <1>3, <2>1, Values DEF CacheInv, TypeOK, Effective, EmptyFile
<1>6. j \in Jobs
  BY <1>4, <1>5, JobType DEF Jobs
<1>7. /\ j.held = job[p].held /\ j.resp = job[p].resp /\ j.doing = job[p].doing
      /\ j.grant = job[p].grant /\ j.bearer = job[p].bearer
      /\ j.rejected = job[p].rejected /\ j.cache = f
  BY <1>4, JobType DEF Jobs
<1>8. j.faulted = job[p].faulted
  BY <1>4, JobType, Zenon DEF Jobs
<1>9. lock' = lock /\ Goto(p, "put", j) /\ \A q \in Procs : lock' = q <=> pc'[q] \in Locked
  BY <1>1, <1>2, <1>3, <1>4 DEF LoadLegacy, Goto, CacheInv, LockInv, TypeOK
<1>10. lock' \in Procs \cup {Free}
  BY <1>9 DEF CacheInv, TypeOK
<1>. QED  BY <1>1, <1>2, <1>5, <1>6, <1>7, <1>8, <1>9, <1>10, WritingKeeps

(* A load that fails counts as empty, and the process remembers it.        *)
LEMMA LoadFailsKeeps ==
  ASSUME CacheInv, NEW p \in Procs, LoadFails(p)
  PROVE  CacheInv'
<1>1. pc[p] \in {"load", "loadLegacy"} /\ UNCHANGED <<storeVars, lock, idpVars, dead>>
  BY DEF LoadFails
<1>2. pc[p] \in Writing /\ "put" \in Writing /\ pc[p] \in Locked /\ "put" \in Locked
  BY <1>1 DEF Writing, Locked
<1>3. PICK j : j = [job[p] EXCEPT !.cache = EmptyFile, !.faulted = TRUE]
  OBVIOUS
<1>4. j \in Jobs
  BY <1>3, Values, JobType DEF Jobs
<1>5. /\ j.held = job[p].held /\ j.resp = job[p].resp /\ j.doing = job[p].doing
      /\ j.grant = job[p].grant /\ j.bearer = job[p].bearer
      /\ j.rejected = job[p].rejected /\ j.cache = EmptyFile
  BY <1>3, JobType DEF Jobs
<1>6. j.faulted
  BY <1>3, JobType, Zenon DEF Jobs
<1>7. lock' = lock /\ Goto(p, "put", j) /\ \A q \in Procs : lock' = q <=> pc'[q] \in Locked
  BY <1>1, <1>2, <1>3 DEF LoadFails, Goto, CacheInv, LockInv, TypeOK
<1>8. lock' \in Procs \cup {Free}
  BY <1>7 DEF CacheInv, TypeOK
<1>. QED  BY <1>1, <1>2, <1>4, <1>5, <1>6, <1>7, <1>8, WritingKeeps

(* What the history records of a response that is forgotten.               *)
LEMMA Forgotten ==
  ASSUME CacheInv, NEW p \in Procs, pc[p] \in Writing, Forget(job[p])
  PROVE  /\ dead \subseteq dead' /\ dead' \subseteq Ids
         /\ Spent(pc[p], job[p]) => job[p].held.refresh \in dead'
<1>1. job[p].doing = "refresh" => job[p].held.refresh \in Ids
  BY JobType DEF CacheInv, HereInv, Here, Jobs, Entry, MaybeId
<1>. QED  BY <1>1 DEF Forget, Spent, CacheInv, TypeOK

(* The lock cannot be taken or the write fails.                            *)
LEMMA WriteFailsKeeps ==
  ASSUME CacheInv, NEW p \in Procs, WriteFails(p)
  PROVE  CacheInv'
<1>. DEFINE j == [job[p] EXCEPT !.faulted = TRUE, !.cache = EmptyFile, !.resp = NoEntry]
<1>1. /\ pc[p] \in {"lock", "put"} /\ lock' = IF pc[p] = "put" THEN Free ELSE lock
      /\ Forget(job[p]) /\ UNCHANGED <<storeVars, idpVars>>
  BY DEF WriteFails
<1>2. pc[p] \in Writing
  BY <1>1 DEF Writing
<1>3. lock' \in Procs \cup {Free} /\ \A q \in Procs : lock' = q <=> q # p /\ lock = q
  BY <1>1, FreeAssumption DEF CacheInv, LockInv, TypeOK, Locked
<1>4. /\ dead \subseteq dead' /\ dead' \subseteq Ids
      /\ Spent(pc[p], job[p]) => job[p].held.refresh \in dead'
  BY <1>1, <1>2, Forgotten
<1>5. j \in Jobs
  BY Values, JobType DEF Jobs
<1>6. /\ j.held = job[p].held /\ j.resp = NoEntry /\ j.doing = job[p].doing
      /\ j.grant = job[p].grant /\ j.bearer = job[p].bearer /\ j.rejected = job[p].rejected
  BY JobType DEF Jobs
<1>7. j.faulted
  BY JobType, Zenon DEF Jobs
<1>8. \/ j.doing = "invalidate" /\ Goto(p, "read", j)
      \/ j.doing = "logout" /\ Return(p, IF pc[p] = "put" THEN "ok" ELSE "Provider")
      \/ j.doing = "refresh" /\ FallBack(p, j)
      \/ j.doing = "acquire" /\ Return(p, "Provider")
  BY DEF WriteFails
<1>. HIDE DEF j
<1>9. j.held.refresh # None => Carries(j.grant, j.held.refresh)
  BY <1>6, JobType DEF Carries
<1>10. Fit(j)
  BY <1>6, <1>7, <1>9 DEF Fit, CacheInv, TokensInv
<1>11. CASE j.doing = "invalidate" /\ Goto(p, "read", j)
  <2>1. "read" \in Steps /\ "read" \notin Writing /\ "read" \notin Locked
    BY DEF Steps, Writing, Locked
  <2>2. Fits("read", j)
    BY <1>7, <1>10, <2>1 DEF Fit, Fits, Here, Cleared
  <2>3. Receives(p, "read", j) /\ Handed(p, "read", j)
    BY <1>1, <1>4, <2>1 DEF Receives, Handed, Pending, idpVars
  <2>4. Moves(p, "read", j)
    BY <1>1, <1>3, <1>4, <1>11, <2>1, <2>2, <2>3
    DEF Goto, Moves, storeVars, idpVars, CacheInv, TypeOK, LockInv
  <2>. QED  BY <1>5, <2>1, <2>4, MoveKeeps
<1>12. ASSUME NEW t \in MaybeId, Continues(p, j, t), Known(t)
       PROVE  CacheInv'
  BY <1>1, <1>3, <1>4, <1>5, <1>7, <1>10, <1>12, ContinueKeeps
  DEF idpVars, CacheInv, TypeOK
<1>13. CASE FallBack(p, j)
  <2>1. j.held.access \in MaybeId
    BY <1>5 DEF Jobs, Entry
  <2>. QED  BY <1>5, <1>10, <1>12, <1>13, <2>1, FallBackContinues DEF Fit
<1>14. CASE \E e \in Outcomes : Return(p, e)
  BY <1>12, <1>14, ReturnContinues, NoneKnown DEF MaybeId
<1>. QED  BY <1>8, <1>11, <1>13, <1>14 DEF Outcomes

(* A process is killed at any step.                                        *)
LEMMA CrashKeeps ==
  ASSUME CacheInv, NEW p \in Procs, Crash(p)
  PROVE  CacheInv'
<1>1. /\ Return(p, "Provider") /\ lock' = IF lock = p THEN Free ELSE lock
      /\ UNCHANGED <<storeVars, idpVars>>
      /\ IF pc[p] \in Writing THEN Forget(job[p]) ELSE dead' = dead
  BY DEF Crash, Writing
<1>2. lock' \in Procs \cup {Free} /\ \A q \in Procs : lock' = q <=> q # p /\ lock = q
  BY <1>1, FreeAssumption DEF CacheInv, TypeOK
<1>3. /\ dead \subseteq dead' /\ dead' \subseteq Ids
      /\ Spent(pc[p], job[p]) => job[p].held.refresh \in dead'
  BY <1>1, Forgotten DEF Spent, Pending, CacheInv, TypeOK
<1>4. Continues(p, NoJob, None) /\ NoJob \in Jobs /\ None \in MaybeId /\ NoJob.rejected = None
  BY <1>1, ReturnContinues, Values DEF Outcomes, MaybeId, NoJob, Job
<1>. QED
  BY <1>1, <1>2, <1>3, <1>4, NoJobFits, ContinueKeeps DEF idpVars, CacheInv, TypeOK

(* An operation begins.                                                    *)
LEMMA StartKeeps ==
  ASSUME CacheInv, NEW p \in Procs, NEW o \in Ops, NEW g \in Grants, Start(p, o, g)
  PROVE  CacheInv'
<1>. DEFINE s == CASE o \in {"token", "send"} -> "read"
                   [] o = "login" -> "acquire"
                   [] o = "logout" -> "lock"
            j == Job(o, g)
<1>1. /\ pc[p] = "idle" /\ started' \in 0 .. MaxStarts
      /\ pc' = [pc EXCEPT ![p] = s] /\ job' = [job EXCEPT ![p] = j]
      /\ UNCHANGED <<storeVars, lock, idpVars, outcome, dead>>
  BY BoundAssumption DEF Start, CacheInv, TypeOK
<1>2. s \in {"read", "acquire", "lock"} /\ (s = "lock" => o = "logout")
  BY OpsAssumption
<1>3. j \in Jobs
  BY OpsAssumption, Values
<1>4. /\ j.held = NoEntry /\ j.bearer = None /\ j.rejected = None
      /\ j.doing = IF o = "logout" THEN "logout" ELSE "acquire"
  BY DEF Job
<1>. HIDE DEF s, j
<1>5. s \in Steps /\ s \notin Locked /\ ~Pending(s, j) /\ pc[p] \notin Writing
      /\ pc[p] \notin Locked /\ s \notin {"put", "clean", "reread", "readLegacy", "loadLegacy"}
  BY <1>1, <1>2, <1>4 DEF Steps, Locked, Pending, Writing
<1>6. Fits(s, j)
  <2>1. s \in Writing => j.doing = "logout"
    BY <1>2, <1>4 DEF Writing
  <2>. QED  BY <1>4, <1>5, <2>1, NoneKnown DEF Fits, Here, Cleared, NoEntry
<1>7. Receives(p, s, j) /\ Handed(p, s, j)
  BY <1>1, <1>5 DEF Receives, Handed, Pending, Spent, idpVars
<1>8. Moves(p, s, j)
  BY <1>1, <1>5, <1>6, <1>7 DEF Moves, storeVars, idpVars, CacheInv, TypeOK, LockInv
<1>. QED  BY <1>3, <1>5, <1>8, MoveKeeps

(* The legacy secret goes and the lock is released.                        *)
LEMMA CleanKeeps ==
  ASSUME CacheInv, NEW p \in Procs, Clean(p)
  PROVE  CacheInv'
<1>. DEFINE e == IF job[p].doing = "refresh" THEN job[p].held ELSE NoEntry
            j == [job[p] EXCEPT !.resp = NoEntry, !.held = e]
<1>1. /\ pc[p] = "clean" /\ legacy' \in {Absent, legacy} /\ lock' = Free
      /\ UNCHANGED <<primary, idpVars, dead>>
  BY DEF Clean
<1>2. primary # Absent
  BY <1>1 DEF CacheInv, HereInv, Here
<1>3. j \in Jobs
  BY Values, JobType DEF Jobs
<1>4. /\ j.held = e /\ j.grant = job[p].grant /\ j.doing = job[p].doing
      /\ j.bearer = job[p].bearer /\ j.rejected = job[p].rejected
  BY JobType DEF Jobs
<1>5. j.faulted = job[p].faulted
  BY JobType, Zenon DEF Jobs
<1>6. \/ Goto(p, "read", j) \/ Goto(p, "reread", j) \/ Return(p, "ok")
  BY DEF Clean
<1>7. pc[p] \in Locked /\ pc[p] \notin Writing
  BY <1>1 DEF Locked, Writing
<1>8. e = job[p].held \/ e = NoEntry
  OBVIOUS
<1>. HIDE DEF e, j
<1>9. Fit(job[p])
  BY <1>7, FitNow
<1>10. /\ Known(e.access) /\ Known(e.refresh)
       /\ e.refresh # None => Carries(job[p].grant, e.refresh)
       /\ job[p].rejected # None /\ ~job[p].faulted => e.access # job[p].rejected
  BY <1>8, <1>9, NoneKnown DEF Fit, NoEntry
<1>11. ASSUME NEW s \in {"read", "reread", "idle"}, NEW k \in Jobs, k = j \/ k = NoJob,
             pc' = [pc EXCEPT ![p] = s], job' = [job EXCEPT ![p] = k],
             outcome' \in Outcomes, started' = started
      PROVE  CacheInv'
  <2>1. s \in Steps /\ s \notin Writing /\ s \notin Locked
    BY DEF Steps, Writing, Locked
  <2>2. Fits(s, k)
    <3>1. j.rejected # None /\ ~j.faulted =>
             primary[j.grant].access # j.rejected /\ j.held.access # j.rejected
      BY <1>4, <1>5, <1>9, <1>10 DEF Fit
    <3>2. CASE k = j
      BY <1>2, <1>4, <1>10, <2>1, <3>1, <3>2 DEF Fits, Here, Cleared, CacheInv, TokensInv
    <3>3. CASE k = NoJob
      BY <1>2, <2>1, <3>3, NoneKnown DEF Fits, Here, Cleared, NoJob, Job, NoEntry
    <3>. QED  BY <1>11, <3>2, <3>3
  <2>4. Receives(p, s, k) /\ Handed(p, s, k)
    BY <1>1, <1>7, <2>1 DEF Receives, Handed, Pending, Spent, idpVars
  <2>5. \A q \in Procs : lock' = q <=> pc'[q] \in Locked
    BY <1>1, <1>7, <1>11, <2>1, FreeAssumption DEF CacheInv, LockInv, TypeOK
  <2>7. Moves(p, s, k)
    BY <1>1, <1>2, <1>11, <2>2, <2>4, <2>5 DEF Moves, idpVars, CacheInv, TypeOK
  <2>. QED  BY <2>1, <2>7, MoveKeeps
<1>. QED  BY <1>3, <1>6, <1>11, Values DEF Goto, Return, CacheInv, TypeOK, Outcomes

----------------------------------------------------------------------------
(* The secret is replaced. *)

(* What the write is about to store: the other grants' entries as a reader *)
(* finds them, or nothing when the load failed; for its own grant an       *)
(* access token no other place holds.                                      *)
LEMMA Stored ==
  ASSUME CacheInv, NEW p \in Procs, Put(p)
  PROVE  /\ primary' \in File
         /\ pc[p] = "put" /\ lock = p
         /\ \A h \in Grants : \/ job[p].cache[h] = Effective(h)
                              \/ job[p].cache[h] = NoEntry /\ job[p].faulted
         /\ \A h \in Grants : h # job[p].grant => primary'[h] = job[p].cache[h]
         /\ \/ /\ Pending(pc[p], job[p])
               /\ primary'[job[p].grant].access = job[p].resp.access
               /\ primary'[job[p].grant].refresh =
                     IF job[p].resp.refresh # None THEN job[p].resp.refresh
                                                   ELSE job[p].cache[job[p].grant].refresh
            \/ /\ ~Pending(pc[p], job[p])
               /\ primary'[job[p].grant].access = None
               /\ primary'[job[p].grant].refresh \in
                     {None, job[p].cache[job[p].grant].refresh}
<1>. DEFINE j == job[p]
<1>1. pc[p] = "put" /\ primary' = [j.cache EXCEPT ![j.grant] = Updated(j)]
  BY DEF Put
<1>2. j \in Jobs /\ j.cache \in File /\ j.grant \in Grants
  BY JobType DEF Jobs
<1>3. Updated(j) \in Entry
  BY <1>2, Values DEF Updated, Jobs, File, Entry, MaybeId
<1>4. primary' \in File
  BY <1>1, <1>2, <1>3 DEF File
<1>5. lock = p
  BY <1>1 DEF CacheInv, LockInv, Locked
<1>6. primary'[j.grant] = Updated(j) /\ \A h \in Grants : h # j.grant => primary'[h] = j.cache[h]
  BY <1>1, <1>2 DEF File
<1>7. \A h \in Grants : \/ j.cache[h] = Effective(h)
                        \/ j.cache[h] = NoEntry /\ j.faulted
  BY <1>1 DEF CacheInv, HereInv, Here, EmptyFile
<1>8. CASE j.doing \in {"refresh", "acquire"}
  <2>1. /\ Updated(j).access = j.resp.access
        /\ Updated(j).refresh = IF j.resp.refresh # None THEN j.resp.refresh
                                                         ELSE j.cache[j.grant].refresh
    BY <1>8 DEF Updated
  <2>. QED  BY <1>1, <1>4, <1>5, <1>6, <1>7, <1>8, <2>1 DEF Pending, Writing
<1>9. CASE j.doing = "invalidate"
  <2>1. Updated(j).access = None /\ Updated(j).refresh = j.cache[j.grant].refresh
    BY <1>2, <1>9 DEF Updated, File, Entry
  <2>. QED  BY <1>1, <1>4, <1>5, <1>6, <1>7, <1>9, <2>1 DEF Pending
<1>10. CASE j.doing = "logout"
  <2>1. Updated(j).access = None /\ Updated(j).refresh = None
    BY <1>10 DEF Updated, NoEntry
  <2>. QED  BY <1>1, <1>4, <1>5, <1>6, <1>7, <1>10, <2>1 DEF Pending
<1>. QED  BY <1>2, <1>8, <1>9, <1>10 DEF Jobs

(* A reader's entry: its tokens are known and belong to its grant.         *)
LEMMA EffectiveKnown ==
  ASSUME CacheInv, NEW h \in Grants
  PROVE  /\ Known(Effective(h).access) /\ Known(Effective(h).refresh)
         /\ Effective(h).refresh # None => Carries(h, Effective(h).refresh)
BY NoneKnown DEF Effective, Carries, NoEntry, CacheInv, TokensInv

(* The secret is replaced: the new access token leaves the process, the    *)
(* other grants' refresh tokens are not the one it spent.                  *)
LEMMA PutKeeps ==
  ASSUME CacheInv, NEW p \in Procs, Put(p)
  PROVE  CacheInv'
<1>. DEFINE g == job[p].grant
<1>. PICK c : c = job[p].cache
  OBVIOUS
<1>. PICK k : k = [job[p] EXCEPT !.cache = EmptyFile]
  OBVIOUS
<1>1. /\ pc' = [pc EXCEPT ![p] = "clean"] /\ job' = [job EXCEPT ![p] = k]
      /\ UNCHANGED <<legacy, lock, idpVars, dead, outcome, started>>
  BY DEF Put, Goto
<1>2. k \in Jobs
  BY Values, JobType DEF Jobs
<1>3. /\ k.held = job[p].held /\ k.resp = job[p].resp /\ k.doing = job[p].doing
      /\ k.grant = job[p].grant /\ k.bearer = job[p].bearer
      /\ k.rejected = job[p].rejected
  BY JobType DEF Jobs
<1>4. k.faulted = job[p].faulted
  BY JobType, Zenon DEF Jobs
<1>5. /\ primary' \in File /\ pc[p] = "put" /\ lock = p
      /\ \A h \in Grants : \/ c[h] = Effective(h)
                           \/ c[h] = NoEntry /\ job[p].faulted
      /\ \A h \in Grants : h # g => primary'[h] = c[h]
      /\ \/ /\ Pending(pc[p], job[p])
            /\ primary'[g].access = job[p].resp.access
            /\ primary'[g].refresh = IF job[p].resp.refresh # None
                                     THEN job[p].resp.refresh ELSE c[g].refresh
         \/ /\ ~Pending(pc[p], job[p])
            /\ primary'[g].access = None
            /\ primary'[g].refresh \in {None, c[g].refresh}
  BY Stored
<1>6. /\ pc'[p] = "clean" /\ job'[p] = k
      /\ \A q \in Procs : q # p => pc'[q] = pc[q] /\ job'[q] = job[q]
  BY <1>1 DEF CacheInv, TypeOK
<1>7. "clean" \in Steps /\ "clean" \in Locked /\ "clean" \notin Writing
      /\ pc[p] \in Locked /\ pc[p] \in Writing
  BY <1>5 DEF Steps, Locked, Writing
<1>8. g \in Grants /\ primary' # Absent
  BY <1>5, JobType, Values
<1>9. \A h \in Grants : /\ Known(c[h].access) /\ Known(c[h].refresh)
                        /\ c[h].refresh # None =>
                              c[h].refresh = Effective(h).refresh /\ Carries(h, c[h].refresh)
  BY <1>5, EffectiveKnown, NoneKnown DEF NoEntry
<1>10. TypeOK'
  BY <1>1, <1>2, <1>5, <1>7 DEF CacheInv, TypeOK, idpVars
<1>11. LockInv'
  BY <1>1, <1>6, <1>7 DEF CacheInv, LockInv
<1>12. \A q \in Procs : Pending(pc'[q], job'[q]) =>
          q # p /\ Pending(pc[q], job[q]) /\ job'[q] = job[q]
  BY <1>6, <1>7 DEF Pending
<1>13. InFlight' \subseteq InFlight
  BY <1>12 DEF InFlight, Pending
<1>. PICK flight : flight = InFlight'
  OBVIOUS
<1>. DEFINE Now(t) == t \in 0 .. issued /\ t \notin flight
<1>14. \A t : Known(t) => Now(t)
  BY <1>13 DEF Known
<1>15. ASSUME Pending(pc[p], job[p])
       PROVE  /\ Now(job[p].resp.access)
              /\ job[p].resp.refresh # None => Now(job[p].resp.refresh)
  <2>1. /\ job[p].resp.access \in 1 .. issued
        /\ job[p].resp.refresh \in {None, job[p].resp.access}
        /\ \A q \in Procs : q # p /\ Pending(pc[q], job[q])
              => job[q].resp.access # job[p].resp.access
    BY <1>15 DEF CacheInv, TokensInv
  <2>2. job[p].resp.access \notin flight
    BY <1>12, <2>1 DEF InFlight, Pending
  <2>. QED  BY <2>1, <2>2
<1>16. \A h \in Grants : Now(primary'[h].access) /\ Now(primary'[h].refresh)
  <2>1. \A h \in Grants : Now(c[h].access) /\ Now(c[h].refresh)
    BY <1>9, <1>14
  <2>2. Now(None)
    BY <1>14, NoneKnown
  <2>3. Now(primary'[g].access) /\ Now(primary'[g].refresh)
    BY <1>5, <1>8, <1>15, <2>1, <2>2
  <2>. HIDE DEF Now
  <2>4. \A h \in Grants : h # g => primary'[h] = c[h]
    BY <1>5
  <2>. QED  BY <2>1, <2>3, <2>4
<1>17. TokensInv'
  <2>1. \A f \in {primary', legacy'} :
           f # Absent => \A h \in Grants : Now(f[h].access) /\ Now(f[h].refresh)
    <3>1. ASSUME legacy # Absent, NEW h \in Grants
          PROVE  Now(legacy[h].access) /\ Now(legacy[h].refresh)
      <4>1. Known(legacy[h].access) /\ Known(legacy[h].refresh)
        BY <3>1 DEF CacheInv, TokensInv
      <4>. QED  BY <1>14, <4>1
    <3>. HIDE DEF Now
    <3>. QED  BY <1>1, <1>16, <3>1
  <2>2. ASSUME NEW q \in Procs
        PROVE  /\ Now(job'[q].held.access) /\ Now(job'[q].held.refresh)
               /\ Now(job'[q].bearer) /\ Now(job'[q].rejected)
    <3>1. /\ Known(job[q].held.access) /\ Known(job[q].held.refresh)
          /\ Known(job[q].bearer) /\ Known(job[q].rejected)
      BY DEF CacheInv, TokensInv
    <3>2. /\ job'[q].held = job[q].held /\ job'[q].bearer = job[q].bearer
          /\ job'[q].rejected = job[q].rejected
      BY <1>3, <1>6
    <3>. HIDE DEF Now
    <3>. QED  BY <1>14, <3>1, <3>2
  <2>3. \A q \in Procs : Pending(pc'[q], job'[q]) =>
           /\ job'[q].resp.access \in 1 .. issued'
           /\ job'[q].resp.refresh \in {None, job'[q].resp.access}
           /\ job'[q].resp.refresh # None => job'[q].resp.refresh \in valid'
           /\ \A r \in Procs : r # q /\ Pending(pc'[r], job'[r])
                 => job'[r].resp.access # job'[q].resp.access
    BY <1>1, <1>12 DEF CacheInv, TokensInv, idpVars
  <2>4. issued' = issued
    BY <1>1 DEF idpVars
  <2>. QED  BY <2>1, <2>2, <2>3, <2>4 DEF TokensInv, Pending, Known, InFlight
<1>18. ASSUME NEW h \in Grants, NEW r \in Ids, Carries(h, r)'
       PROVE  Carries(h, r)
  <2>. r # None
    BY DEF Ids, None
  <2>1. CASE primary'[h].refresh = r
    <3>1. CASE h # g
      BY <1>5, <1>9, <2>1, <3>1
    <3>2. CASE h = g
      <4>1. CASE c[g].refresh = r
        BY <1>9, <3>2, <4>1
      <4>2. CASE Pending(pc[p], job[p]) /\ job[p].resp.refresh = r
        BY <3>2, <4>2 DEF Carries
      <4>. QED  BY <1>5, <2>1, <3>2, <4>1, <4>2
    <3>. QED  BY <3>1, <3>2
  <2>2. CASE legacy' # Absent /\ legacy'[h].refresh = r
    BY <1>1, <2>2 DEF Carries
  <2>3. CASE \E q \in Procs : job'[q].grant = h /\ job'[q].held.refresh = r
    <3>1. \A q \in Procs : job'[q].grant = job[q].grant /\ job'[q].held = job[q].held
      BY <1>3, <1>6
    <3>2. \E q \in Procs : job[q].grant = h /\ job[q].held.refresh = r
      BY <2>3, <3>1
    <3>. QED  BY <3>2 DEF Carries
  <2>4. CASE \E q \in Procs : /\ job'[q].grant = h /\ Pending(pc'[q], job'[q])
                              /\ job'[q].resp.refresh = r
    <3>1. \E q \in Procs : /\ job[q].grant = h /\ Pending(pc[q], job[q])
                           /\ job[q].resp.refresh = r
      BY <1>12, <2>4
    <3>. QED  BY <3>1 DEF Carries
  <2>. QED  BY <1>18, <2>1, <2>2, <2>3, <2>4 DEF Carries, Pending
<1>19. OwnersInv'
  BY <1>18 DEF CacheInv, OwnersInv
<1>20. \A h \in Grants : Effective(h)' = primary'[h]
  BY <1>8 DEF Effective
<1>21. ASSUME NEW h \in Grants, c[h].refresh # None, h = g => ~Spent(pc[p], job[p])
       PROVE  \/ c[h].refresh \in valid' \cup dead'
              \/ \E q \in Procs : Spent(pc'[q], job'[q]) /\ job'[q].held.refresh = c[h].refresh
  <2>1. CASE c[h].refresh \in valid \cup dead
    BY <1>1, <2>1 DEF idpVars
  <2>2. CASE \E q \in Procs : Spent(pc[q], job[q]) /\ job[q].held.refresh = c[h].refresh
    <3>1. PICK q \in Procs : Spent(pc[q], job[q]) /\ job[q].held.refresh = c[h].refresh
      BY <2>2
    <3>2. q # p
      <4>. SUFFICES ASSUME q = p PROVE FALSE
        OBVIOUS
      <4>1. c[h].refresh \in Ids
        BY <1>21, <3>1, JobType DEF Jobs, Entry, MaybeId
      <4>2. Carries(g, c[h].refresh) /\ Carries(h, c[h].refresh)
        BY <1>9, <1>21, <3>1 DEF Carries
      <4>3. g = h
        BY <1>8, <4>1, <4>2 DEF CacheInv, OwnersInv
      <4>. QED  BY <1>21, <3>1, <4>3
    <3>. QED  BY <1>6, <3>1, <3>2
  <2>. QED  BY <1>9, <1>21, <2>1, <2>2 DEF CacheInv, ChainInv
<1>22. ChainInv'
  <2>. SUFFICES ASSUME NEW h \in Grants, primary'[h].refresh # None
                PROVE  \/ primary'[h].refresh \in valid' \cup dead'
                       \/ \E q \in Procs : Spent(pc'[q], job'[q])
                             /\ job'[q].held.refresh = primary'[h].refresh
    BY <1>20 DEF ChainInv, Spent, Pending
  <2>1. CASE h # g
    BY <1>5, <1>21, <2>1
  <2>2. CASE h = g /\ Pending(pc[p], job[p]) /\ job[p].resp.refresh # None
    BY <1>1, <1>5, <2>2 DEF CacheInv, TokensInv, idpVars
  <2>3. CASE h = g /\ ~(Pending(pc[p], job[p]) /\ job[p].resp.refresh # None)
    <3>1. ~Spent(pc[p], job[p]) /\ primary'[h].refresh = c[h].refresh
      BY <1>5, <2>3 DEF Spent
    <3>. QED  BY <1>21, <2>3, <3>1
  <2>. QED  BY <2>1, <2>2, <2>3
<1>23. ASSUME NEW q \in Procs, job[q].rejected # None, job[q].grant # g =>
                 primary # Absent /\ primary[job[q].grant].access # job[q].rejected
       PROVE  primary'[job[q].grant].access # job[q].rejected
  <2>1. Known(job[q].rejected) /\ job[q].grant \in Grants
    BY JobType DEF CacheInv, TokensInv
  <2>2. CASE job[q].grant # g
    <3>1. Effective(job[q].grant) = primary[job[q].grant]
      BY <1>23, <2>2 DEF Effective
    <3>. QED  BY <1>5, <1>23, <2>1, <2>2, <3>1 DEF NoEntry
  <2>3. CASE job[q].grant = g /\ Pending(pc[p], job[p])
    BY <1>5, <2>1, <2>3 DEF Known, InFlight
  <2>4. CASE job[q].grant = g /\ ~Pending(pc[p], job[p])
    BY <1>5, <1>23, <2>4
  <2>. QED  BY <2>2, <2>3, <2>4
<1>24. HereInv'
  <2>1. ASSUME NEW q \in Procs, q # p
        PROVE  Here(pc[q], job[q])'
    <3>1. pc[q] \notin {"loadLegacy", "put"}
      BY <1>5, <2>1 DEF CacheInv, LockInv, Locked
    <3>2. Cleared(pc[q], job[q]) => primary'[job[q].grant].access # job[q].rejected
      BY <1>23 DEF CacheInv, HereInv, Here, Cleared
    <3>. QED  BY <1>6, <1>8, <2>1, <3>1, <3>2 DEF CacheInv, HereInv, Here, Cleared
  <2>2. Here(pc[p], job[p])'
    <3>1. k.rejected # None => primary'[g].access # k.rejected
      BY <1>3, <1>23
    <3>2. k.rejected # None /\ ~k.faulted => k.held.access # k.rejected
      BY <1>3, <1>4, <1>7 DEF CacheInv, HereInv, Here, Cleared, NoEntry
    <3>. QED  BY <1>3, <1>6, <1>7, <1>8, <3>1, <3>2 DEF Here, Cleared
  <2>. QED  BY <2>1, <2>2 DEF HereInv
<1>. QED  BY <1>10, <1>11, <1>17, <1>19, <1>22, <1>24 DEF CacheInv

----------------------------------------------------------------------------
(* The theorems. *)

(* The invariant holds at the start and is kept by every step.             *)
LEMMA Initially ==
  ASSUME Init
  PROVE  CacheInv
<1>1. pc = [p \in Procs |-> "idle"] /\ job = [p \in Procs |-> NoJob] /\ lock = Free
      /\ primary = Absent /\ dead = {} /\ age = [i \in Ids |-> "fresh"]
      /\ outcome = "ok" /\ started = 0
  BY DEF Init
<1>2. \/ legacy = Absent /\ issued = 0 /\ valid = {}
      \/ /\ issued = 1 /\ 1 \in Ids /\ valid = {1}
         /\ \E g \in Grants :
               /\ legacy \in File /\ legacy[g] = [access |-> 1, refresh |-> 1]
               /\ \A h \in Grants : h # g => legacy[h] = NoEntry
  <2>1. CASE issued = 1 /\ issued \in Ids /\ valid = {1}
    <3>1. PICK e : e = [access |-> 1, refresh |-> 1]
      OBVIOUS
    <3>2. PICK g \in Grants : legacy = [EmptyFile EXCEPT ![g] = e]
      BY <1>1, <2>1, <3>1 DEF Init
    <3>3. e \in Entry
      BY <2>1, <3>1 DEF Entry, MaybeId
    <3>4. legacy \in File /\ legacy[g] = e /\ \A h \in Grants : h # g => legacy[h] = NoEntry
      BY <3>2, <3>3, Values DEF File, EmptyFile
    <3>. QED  BY <2>1, <3>1, <3>4
  <2>. QED  BY <2>1 DEF Init
<1>3. \A p \in Procs : pc[p] = "idle" /\ job[p] = NoJob
  BY <1>1
<1>4. NoJob.held = NoEntry /\ NoJob.bearer = None /\ NoJob.rejected = None
  BY DEF NoJob, Job
<1>5. "idle" \in Steps /\ "idle" \notin Locked /\ "idle" \notin Writing
  BY DEF Steps, Locked, Writing
<1>6. TypeOK
  BY <1>1, <1>2, <1>5, Values, BoundAssumption DEF TypeOK, Outcomes, Ids
<1>7. LockInv
  BY <1>1, <1>5, FreeAssumption DEF LockInv
<1>8. HereInv
  BY <1>3, <1>4, <1>5 DEF HereInv, Here, Cleared
<1>9. \A p \in Procs : ~Pending(pc[p], job[p])
  BY <1>3, <1>5 DEF Pending
<1>10. Known(None) /\ (issued = 1 => Known(1))
  BY <1>2, <1>9 DEF Known, InFlight, None
<1>11. TokensInv
  <2>1. legacy # Absent => \A g \in Grants : Known(legacy[g].access) /\ Known(legacy[g].refresh)
    BY <1>2, <1>10 DEF NoEntry
  <2>. QED  BY <1>1, <1>3, <1>4, <1>9, <1>10, <2>1 DEF TokensInv, NoEntry
<1>12. \A g \in Grants, r \in Ids : Carries(g, r) => legacy # Absent /\ legacy[g].refresh = r
  BY <1>1, <1>3, <1>4, <1>9 DEF Carries, NoEntry, None, Ids
<1>13. OwnersInv
  <2>1. \A g, h \in Grants, r \in Ids :
           legacy # Absent /\ legacy[g].refresh = r /\ legacy[h].refresh = r => g = h
    BY <1>2 DEF NoEntry, None, Ids
  <2>. QED  BY <1>12, <2>1 DEF OwnersInv
<1>14. ChainInv
  <2>1. \A g \in Grants : Effective(g).refresh # None => Effective(g).refresh \in valid
    BY <1>1, <1>2 DEF Effective, NoEntry
  <2>. QED  BY <2>1 DEF ChainInv
<1>. QED  BY <1>6, <1>7, <1>8, <1>11, <1>13, <1>14 DEF CacheInv

(* A token grows old.                                                      *)
LEMMA AgeKeeps ==
  ASSUME CacheInv, NEW i \in Ids, Age(i)
  PROVE  CacheInv'
<1>1. /\ age' \in [Ids -> {"fresh", "near", "expired"}]
      /\ UNCHANGED <<primary, legacy, lock, issued, valid, pc, job, started, outcome, dead>>
  BY DEF Age, storeVars, CacheInv, TypeOK
<1>2. TypeOK'
  BY <1>1 DEF CacheInv, TypeOK
<1>. QED
  BY <1>1, <1>2 DEF CacheInv, LockInv, HereInv, TokensInv, OwnersInv, ChainInv, Here,
     Cleared, Known, InFlight, Pending, Spent, Carries, Effective

(* Nothing changes.                                                        *)
LEMMA StutterKeeps ==
  ASSUME CacheInv, UNCHANGED vars
  PROVE  CacheInv'
BY DEF vars, storeVars, idpVars, CacheInv, TypeOK, LockInv, HereInv, TokensInv, OwnersInv,
   ChainInv, Here, Cleared, Known, InFlight, Pending, Spent, Carries, Effective

(* Every step keeps the invariant.                                         *)
LEMMA Inductive ==
  ASSUME CacheInv, [Next]_vars
  PROVE  CacheInv'
<1>1. ASSUME NEW p \in Procs, Local(p)
      PROVE  CacheInv'
  BY <1>1, ReadKeeps, ReadLegacyKeeps, RereadKeeps, ReadFailsKeeps, LoadKeeps,
     LoadLegacyKeeps, LoadFailsKeeps, PutKeeps, CleanKeeps DEF Local
<1>2. ASSUME NEW p \in Procs, Network(p)
      PROVE  CacheInv'
  BY <1>2, RefreshGrantedKeeps, AcquiredKeeps, RefreshLostKeeps, RefreshFailsKeeps,
     ProviderFailsKeeps, AcceptedKeeps, RejectedKeeps
  DEF Network, InteractiveLogin, ClientCredentials
<1>3. CASE Next
  BY <1>1, <1>2, <1>3, StartKeeps, TakeLockKeeps, WriteFailsKeeps, CrashKeeps, AgeKeeps
  DEF Next
<1>4. CASE UNCHANGED vars
  BY <1>4, StutterKeeps
<1>. QED  BY <1>3, <1>4

(* The invariant of the cache, the lock and the processes' data that the   *)
(* theorems below rest on: who holds the lock and what it has read, which  *)
(* tokens are in circulation and for which grant (OidcClient).             *)
THEOREM CacheCorrect == Spec => []CacheInv
<1>1. Init => CacheInv
  BY Initially
<1>2. CacheInv /\ [Next]_vars => CacheInv'
  BY Inductive
<1>. QED  BY <1>1, <1>2, PTL DEF Spec

(* do_refresh and store_token_response: a refresh token in the cache that  *)
(* the provider refuses was spent for a response that was lost, or its     *)
(* successor is on its way into the cache (NobodyIsStranded).              *)
THEOREM ChainCorrect == Spec => []NobodyIsStranded
<1>1. CacheInv => NobodyIsStranded
  <2>1. ASSUME NEW p \in Procs, Spent(pc[p], job[p])
        PROVE  pc[p] \in {"lock", "load", "loadLegacy", "put"} /\ job[p].doing = "refresh"
    BY <2>1 DEF Spent, Pending, Writing
  <2>. QED  BY <2>1 DEF CacheInv, ChainInv, NobodyIsStranded, RefreshChainUnbroken, Succeeding
<1>. QED  BY <1>1, CacheCorrect, PTL

(* AuthenticatedHttpClient: the request after a 401 carries another token  *)
(* than the one that was refused (RetryIsFresh).                           *)
THEOREM RetryCorrect == Spec => []RetryIsFresh
<1>1. CacheInv => RetryIsFresh
  BY DEF CacheInv, HereInv, Here, Cleared, RetryIsFresh, Writing
<1>. QED  BY <1>1, CacheCorrect, PTL

(* with_cache_lock: a write, and the migration it may bring about, leaves  *)
(* the other grants of the secret as they were (SiblingsSurvive).          *)
THEOREM WritesSpareSiblings == Spec => SiblingsSurvive
<1>. DEFINE Spares ==
       \A g \in Grants :
         Effective(g)' # Effective(g)
           => \E p \in Procs : Puts(p) /\ (job[p].grant = g \/ job[p].faulted)
<1>1. ASSUME CacheInv, NEW p \in Procs, Put(p)
      PROVE  Spares
  <2>1. Puts(p)
    BY <1>1 DEF Puts, Put, Goto, CacheInv, TypeOK
  <2>2. ASSUME NEW g \in Grants, g # job[p].grant, ~job[p].faulted
        PROVE  Effective(g)' = Effective(g)
    <3>1. primary'[g] = Effective(g) /\ primary' # Absent
      BY <1>1, <2>2, Stored, Values
    <3>. QED  BY <3>1 DEF Effective
  <2>. QED  BY <2>1, <2>2
<1>2. ASSUME CacheInv, NEW p \in Procs, Clean(p)
      PROVE  Spares
  <2>1. primary # Absent /\ primary' = primary
    BY <1>2 DEF Clean, CacheInv, HereInv, Here
  <2>. QED  BY <2>1 DEF Effective
<1>3. ASSUME UNCHANGED storeVars
      PROVE  Spares
  BY <1>3 DEF storeVars, Effective
<1>4. CacheInv /\ [Next]_vars => Spares
  <2>1. ASSUME NEW p \in Procs, Local(p)
        PROVE  Put(p) \/ Clean(p) \/ UNCHANGED storeVars
    BY <2>1 DEF Local, Read, ReadLegacy, Reread, ReadFails, Load, LoadLegacy, LoadFails
  <2>2. ASSUME NEW p \in Procs, Network(p)
        PROVE  UNCHANGED storeVars
    BY <2>2 DEF Network, RefreshGranted, InteractiveLogin, ClientCredentials, Acquired,
       RefreshLost, RefreshFails, ProviderFails, Accepted, Rejected
  <2>3. [Next]_vars => \/ \E p \in Procs : Put(p) \/ Clean(p)
                       \/ UNCHANGED storeVars
    BY <2>1, <2>2 DEF Next, Start, TakeLock, WriteFails, Crash, Age, vars
  <2>. QED  BY <1>1, <1>2, <1>3, <2>3
<1>. QED  BY <1>4, CacheCorrect, PTL DEF Spec, SiblingsSurvive
============================================================================
