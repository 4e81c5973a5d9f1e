------------------------------ MODULE Secrets -------------------------------
(***************************************************************************)
(* The secret stores. One secret of EnvFileSecretStore, which processes    *)
(* with several threads put, get and delete, step by step through          *)
(* replace_private on Unix and on Windows; and, without a state, which     *)
(* files pass for private and what each kind of store answers.             *)
(***************************************************************************)
EXTENDS Naturals, Sequences, FiniteSets

CONSTANTS Writers,      \* threads that put a value, each its own
          Unheld,       \* holds no handle
          MaxTries,     \* names that replace_private tries (128 in the code)
          MaxTemps,     \* temporary names that a process uses
          MaxKills      \* processes that are killed

Pids == 1 .. 2

ASSUME SecretsAssumption ==
  /\ MaxTries \in Nat \ {0} /\ MaxTemps \in Nat /\ MaxKills \in Nat
  /\ Unheld \notin Writers /\ "torn" \notin Writers

VARIABLES os,           \* the platform
          target,       \* what is at the secret's path
          temps,        \* the temporary files, by name
          counter,      \* TEMP_COUNTER of each process
          pid,          \* the process of each thread
          writer,       \* how far each thread is
          held,         \* whose exclusive handle the file at the path is open with
          left,         \* names left behind by a kill or by what could not be undone
          kills

secrets == <<os, target, temps, counter, pid, writer, held, left, kills>>

File(text, private) == [text |-> text, private |-> private]
NoFile == File("absent", FALSE)
Idle == [pc |-> "idle", tries |-> 0, temp |-> <<0, 0>>, stored |-> FALSE, result |-> "none"]

SecretsInit ==
  /\ os \in {"unix", "windows"}
  /\ target \in {NoFile, File("old", TRUE), File("old", FALSE)}
  /\ temps = [n \in {} |-> "torn"]
  /\ counter = [p \in Pids |-> 0]
  /\ pid \in [Writers -> Pids]
  /\ writer = [w \in Writers |-> Idle]
  /\ held = Unheld /\ left = {} /\ kills = 0

-----------------------------------------------------------------------------
Step(w, job) == writer' = [writer EXCEPT ![w] = job]
End(w, r) == Step(w, [Idle EXCEPT !.stored = writer[w].stored, !.result = r])
Without(n) == [m \in DOMAIN temps \ {n} |-> temps[m]]
(* A temporary file is removed, if it can be. *)
Discard(n) ==
  \/ temps' = Without(n) /\ UNCHANGED left
  \/ left' = left \cup {n} /\ UNCHANGED temps
With(n, text) == [m \in DOMAIN temps \cup {n} |-> IF m = n THEN text ELSE temps[m]]

(* put: the directory is made and replace_private entered. *)
write_file(w) ==
  /\ writer[w].pc = "idle" /\ counter[pid[w]] < MaxTemps
  /\ Step(w, [Idle EXCEPT !.pc = "create"])
  /\ UNCHANGED <<os, target, temps, counter, pid, held, left, kills>>

(* Mutant: an existing temporary file is truncated and taken over. *)
create_truncating(w) ==
  /\ writer[w].pc = "create"
  /\ LET name == <<pid[w], counter[pid[w]]>>
     IN /\ counter' = [counter EXCEPT ![pid[w]] = @ + 1]
        /\ temps' = With(name, "torn")
        /\ Step(w, [writer[w] EXCEPT !.pc = "write", !.temp = name])
  /\ UNCHANGED <<os, target, pid, held, left, kills>>

(* A temporary name is tried: one that exists is passed over, a file that  *)
(* cannot be made private stays behind, and any other failure ends the put.*)
create_new_private(w) ==
  /\ writer[w].pc = "create"
  /\ LET name == <<pid[w], counter[pid[w]]>> IN
     /\ counter' = [counter EXCEPT ![pid[w]] = @ + 1]
     /\ \/ /\ name \in DOMAIN temps
           /\ IF writer[w].tries + 1 = MaxTries
              THEN End(w, "error")
              ELSE Step(w, [writer[w] EXCEPT !.tries = @ + 1])
           /\ UNCHANGED <<temps, left>>
        \/ /\ name \notin DOMAIN temps
           /\ temps' = With(name, "torn")
           /\ Step(w, [writer[w] EXCEPT !.pc = "write", !.temp = name])
           /\ UNCHANGED left
        \/ /\ name \notin DOMAIN temps
           /\ temps' = With(name, "torn") /\ left' = left \cup {name}
           /\ End(w, "error")
        \/ /\ name \notin DOMAIN temps
           /\ End(w, "error")
           /\ UNCHANGED <<temps, left>>
  /\ UNCHANGED <<os, target, pid, held, kills>>

(* The bytes are written and synced, or the temporary file is removed. *)
write_all(w) ==
  /\ writer[w].pc = "write"
  /\ \/ temps' = With(writer[w].temp, w) /\ Step(w, [writer[w] EXCEPT !.pc = "rename"]) /\ UNCHANGED left
     \/ Discard(writer[w].temp) /\ End(w, "error")
  /\ UNCHANGED <<os, target, counter, pid, held, kills>>

(* On Unix one rename, on Windows one under an exclusive handle that lives *)
(* on; a file that somebody holds that way cannot be replaced.             *)
replace(w) ==
  /\ writer[w].pc = "rename"
  /\ \/ /\ held = Unheld
        /\ temps' = Without(writer[w].temp)
        /\ target' = File(temps[writer[w].temp], TRUE)
        /\ IF os = "unix"
           THEN Step(w, [Idle EXCEPT !.stored = TRUE, !.result = "ok"]) /\ UNCHANGED held
           ELSE Step(w, [Idle EXCEPT !.pc = "release", !.stored = TRUE]) /\ held' = w
        /\ UNCHANGED left
     \/ Discard(writer[w].temp) /\ End(w, "error") /\ UNCHANGED <<target, held>>
  /\ UNCHANGED <<os, counter, pid, kills>>

(* The handle is closed before the path is opened afresh. *)
release(w) ==
  /\ writer[w].pc = "release"
  /\ held' = Unheld
  /\ Step(w, [writer[w] EXCEPT !.pc = "confirm"])
  /\ UNCHANGED <<os, target, temps, counter, pid, left, kills>>

(* What open_private makes of the path. *)
open_private ==
  CASE held # Unheld -> "Backend"
    [] held = Unheld /\ target = NoFile -> "NotFound"
    [] held = Unheld /\ target # NoFile /\ ~target.private -> "PermissionDenied"
    [] OTHER -> "ok"

confirm(w) ==
  /\ writer[w].pc = "confirm"
  /\ End(w, IF open_private = "ok" THEN "ok" ELSE "error")
  /\ UNCHANGED <<os, target, temps, counter, pid, held, left, kills>>

(* get, where no environment variable has the secret: what was opened is   *)
(* read to its end, whatever comes to the path meanwhile.                  *)
read_file == IF open_private = "ok" THEN target.text ELSE open_private

delete_file(w) ==
  /\ writer[w].pc = "idle" /\ held = Unheld
  /\ target' = NoFile
  /\ UNCHANGED <<os, temps, counter, pid, writer, held, left, kills>>

(* A process is killed with all its threads, and a later one has its id. *)
Kill(p) ==
  /\ kills < MaxKills /\ kills' = kills + 1
  /\ LET dead == {w \in Writers : pid[w] = p}
         open == {w \in dead : writer[w].pc \in {"write", "rename"}}
     IN /\ writer' = [w \in Writers |-> IF w \in dead THEN Idle ELSE writer[w]]
        /\ left' = left \cup {writer[w].temp : w \in open}
        /\ held' = IF held \in dead THEN Unheld ELSE held
  /\ counter' = [counter EXCEPT ![p] = 0]
  /\ UNCHANGED <<os, target, temps, pid>>

SecretsNext ==
  \/ \E w \in Writers :
        \/ write_file(w) \/ create_new_private(w) \/ write_all(w) \/ replace(w)
        \/ release(w) \/ confirm(w) \/ delete_file(w)
  \/ \E p \in Pids : Kill(p)

-----------------------------------------------------------------------------
(* Which files pass for private.                                           *)

(* The handle's own metadata on Unix. *)
validate(meta) == meta.regular /\ meta.owner = "user" /\ meta.others = {}

Privileged == {"system", "administrators"}

validate_dacl(dacl) ==
  /\ \A i \in DOMAIN dacl : dacl[i].kind = "allow" /\ dacl[i].sid \in Privileged \cup {"user"}
  /\ \E i \in DOMAIN dacl : dacl[i].sid = "user" /\ "read" \in dacl[i].mask

validate_descriptor(d) ==
  /\ d.owner = "user" /\ d.dacl # <<>> /\ d.protected
  /\ validate_dacl(d.dacl)

(* The descriptor that a file is created with. *)
Created ==
  [owner |-> "user", protected |-> TRUE,
   dacl |-> [i \in 1 .. 3 |-> [kind |-> "allow", mask |-> {"read", "write"},
                               sid |-> <<"user", "system", "administrators">>[i]]]]

-----------------------------------------------------------------------------
(* What the stores answer: s is what a store holds, by key.                *)

Returns(result, s) == [result |-> result, holds |-> s]
Removed(s, k) == [m \in DOMAIN s \ {k} |-> s[m]]
Added(s, k, v) == [m \in DOMAIN s \cup {k} |-> IF m = k THEN v ELSE s[m]]

(* A file cannot be where another key's directory is, nor below it. *)
InTheWay(s, k) == \E m \in DOMAIN s : m # k /\ LET n == IF Len(m) < Len(k) THEN Len(m) ELSE Len(k)
                                               IN SubSeq(m, 1, n) = SubSeq(k, 1, n)
env_file(op, k, v, s, environment) ==
  CASE op = "get" -> Returns(IF k \in DOMAIN environment THEN environment[k]
                            ELSE IF k \in DOMAIN s THEN s[k] ELSE "NotFound", s)
    [] op = "put" -> IF InTheWay(s, k) THEN Returns("Backend", s) ELSE Returns("ok", Added(s, k, v))
    [] op = "delete" -> Returns("ok", Removed(s, k))

in_memory(op, k, v, s) ==
  CASE op = "get" -> Returns(IF k \in DOMAIN s THEN s[k] ELSE "NotFound", s)
    [] op = "put" -> Returns("ok", Added(s, k, v))
    [] op = "delete" -> Returns("ok", Removed(s, k))

Utf8(v) == v # "bytes"

map_keyring_err(e) ==
  CASE e = "NoEntry" -> "NotFound" [] e = "NoStorageAccess" -> "Unavailable" [] OTHER -> "Backend"

keychain(op, k, v, s) ==
  CASE op = "get" -> Returns(IF k \in DOMAIN s THEN s[k] ELSE map_keyring_err("NoEntry"), s)
    [] op = "put" -> IF Utf8(v) THEN Returns("ok", Added(s, k, v)) ELSE Returns("Backend", s)
    [] op = "delete" -> Returns("ok", Removed(s, k))

status_error(status) ==
  CASE status = 404 -> "NotFound" [] status = 403 -> "PermissionDenied"
    [] status \in {429} \cup (500 .. 599) -> "Unavailable" [] OTHER -> "Backend"

map_reqwest_err(e) == IF e \in {"connect", "timeout"} THEN "Unavailable" ELSE "Backend"

(* OpenBao answers a status, a failure to reach it, or something else.     *)
(* A deleted secret is a 404 or has no data.                               *)
openbao_get(reply) ==
  CASE reply.kind = "failure" -> map_reqwest_err(reply.error)
    [] reply.kind = "status" /\ reply.status # 200 -> status_error(reply.status)
    [] reply.kind = "status" /\ reply.status = 200 ->
         IF reply.body = "null" THEN "NotFound" ELSE IF reply.body = "garbled" THEN "Backend" ELSE reply.body

openbao_delete(reply) ==
  CASE reply.kind = "failure" -> map_reqwest_err(reply.error)
    [] reply.kind = "status" -> IF reply.status \in {200, 404} THEN "ok" ELSE status_error(reply.status)

(* The service holds what was put. *)
Bao(k, s) == IF k \in DOMAIN s THEN [kind |-> "status", status |-> 200, body |-> s[k]]
             ELSE [kind |-> "status", status |-> 404, body |-> "null"]
openbao(op, k, v, s) ==
  CASE op = "get" -> Returns(openbao_get(Bao(k, s)), s)
    [] op = "put" -> IF Utf8(v) THEN Returns("ok", Added(s, k, v)) ELSE Returns("Backend", s)
    [] op = "delete" -> Returns(openbao_delete(Bao(k, s)), Removed(s, k))

-----------------------------------------------------------------------------
(* Properties.                                                             *)

(* What is at the path, and what a get returns, is one whole value, and    *)
(* what a thread renames is what it wrote itself, although processes are   *)
(* killed, leave temporary files and are followed by others with the same  *)
(* id and counter; no put leaves its temporary file without need; a put is *)
(* reported as done only when its value was at the path, and on Unix as    *)
(* failed only when it never was.                                          *)
SecretIsWhole ==
  /\ read_file # "torn"
  /\ \A w \in Writers :
       /\ writer[w].pc \in {"write", "rename"} =>
            /\ writer[w].temp \in DOMAIN temps \ left
            /\ writer[w].pc = "rename" => temps[writer[w].temp] = w
       /\ writer[w].result = "ok" => writer[w].stored
       /\ writer[w].result = "error" /\ os = "unix" => ~writer[w].stored
  /\ DOMAIN temps \subseteq left \cup {writer[w].temp : w \in {v \in Writers : writer[v].pc \in {"write", "rename"}}}
=============================================================================
