---------------------------- MODULE SelfInstall ----------------------------
(***************************************************************************)
(* `self install`, `update`, `rollback` and `uninstall`                    *)
(* (src/self_install) as processes that share one bin directory and one    *)
(* install receipt.                                                        *)
(*                                                                         *)
(* The bin directory holds the binary, the .prev copy the last update      *)
(* kept, the .old files Windows parks, staging files named after a process *)
(* and the lock file.  A file is known by the version of the release it    *)
(* holds; a copy that was cut off is Torn.  Every step is one file system  *)
(* call that another process or a crash can fall in between.               *)
(***************************************************************************)
EXTENDS Integers, FiniteSets

CONSTANTS
    Procs,        \* the processes
    Free,         \* the holder of no lock
    MaxVersion,   \* bound on the versions ever released (model checking only)
    Prereleases,  \* the ones only the channel "latest" follows
    Policies,     \* the enforced policies processes may start under
    Ops,          \* the operations the processes run
    Windows,      \* the rules for replacing a running executable
    Ageing,       \* which locks may reach STALE_LOCK: "none", "dead", "any"
    Faults,       \* file operations may fail
    MaxCrashes    \* bound on the processes killed (model checking only)

AllOps == {"update", "updateFrom", "rollback", "install", "installFrom", "unmanaged", "uninstall"}
Versions == 1 .. MaxVersion

ASSUME ProcsAssumption == Free \notin Procs
ASSUME VersionAssumption == MaxVersion \in Nat \ {0} /\ Prereleases \subseteq 2 .. MaxVersion
ASSUME OpsAssumption == Ops \subseteq AllOps
ASSUME SwitchAssumption ==
    Windows \in BOOLEAN /\ Faults \in BOOLEAN /\ Ageing \in {"none", "dead", "any"}
ASSUME CrashAssumption == MaxCrashes \in Nat

(* What a file may hold.  Versions no receipt field can be read as - none, *)
(* or the word "unknown" - are 0 as well.                                  *)
Missing == 0
Torn == -1
Content == Versions \cup {Missing, Torn}
MaybeVersion == Versions \cup {Missing}

(* SelfUpdatePolicy; without a minimum_version every version is above 0. *)
PolicySpace == [enabled : BOOLEAN, channel : {"none", "stable", "latest"}, minimum : MaybeVersion]
ASSUME PolicyAssumption == Policies \subseteq PolicySpace

(* InstallReceipt, as far as another run of the program reads it; a        *)
(* receipt without a channel is none.                                      *)
NoReceipt == [version |-> Missing, previous |-> Missing, channel |-> "none"]
Receipts == [version : MaybeVersion, previous : MaybeVersion, channel : {"none", "stable", "latest"}]

NoLock == [owner |-> Free, old |-> FALSE]

Steps == {"idle", "cleanup", "begin", "lock", "stat", "break", "stage", "keep", "keeping", "hold",
          "place", "swap", "swapIn", "unpark", "putBack", "save", "drop",
          "unPrev", "unStale", "unReceipt", "unBinary"}

(* What a process keeps while it runs. *)
Jobs == [op : AllOps,
         image : Versions,           \* the version that runs
         elsewhere : BOOLEAN,        \* it runs from outside the bin dir
         policy : PolicySpace,
         receipt : Receipts,         \* the receipt it loaded
         channel : {"none", "stable", "latest", "exact"},   \* the one it follows
         target : MaybeVersion,      \* the version it is to place
         breaks : 0 .. 1,            \* stale locks removed so far
         copied : Content,           \* the file a copy is reading
         parked : Content,           \* the file it renamed to .old
         before : Content \X Content]   \* history: dest and prev when it
                                        \* took the lock

IdleJob ==
    [op |-> "update", image |-> 1, elsewhere |-> FALSE,
     policy |-> [enabled |-> FALSE, channel |-> "none", minimum |-> Missing],
     receipt |-> NoReceipt, channel |-> "none", target |-> Missing, breaks |-> 0,
     copied |-> Missing, parked |-> Missing, before |-> <<Missing, Missing>>]

VARIABLES
    dest,     \* the binary
    prev,     \* <binary>.prev
    old,      \* the parked <binary>.old files
    tmp,      \* of each process: .<binary>.tmp-<pid>
    hold,     \* of each process: .<binary>.tmp-rollback-<pid>
    lock,     \* .<app>.lock and whether it is older than STALE_LOCK
    receipt,  \* install-receipt.json
    newest,   \* the newest version released
    pc, job,  \* each process's step and its data
    crashes   \* how many processes have been killed

files == <<dest, prev, old, tmp, hold>>
vars == <<files, lock, receipt, newest, pc, job, crashes>>

TypeOK ==
    /\ dest \in Content /\ prev \in Content /\ old \subseteq Content
    /\ tmp \in [Procs -> Content] /\ hold \in [Procs -> Content]
    /\ lock \in [owner : Procs \cup {Free}, old : BOOLEAN]
    /\ receipt \in Receipts
    /\ newest \in Versions
    /\ pc \in [Procs -> Steps] /\ job \in [Procs -> Jobs]
    /\ crashes \in Nat

(* A machine with version 1 installed by `self install`, or without it. *)
Init ==
    /\ \/ dest = 1 /\ receipt = [version |-> 1, previous |-> Missing, channel |-> "stable"]
       \/ dest = Missing /\ receipt = NoReceipt
    /\ prev = Missing /\ old = {}
    /\ tmp = [p \in Procs |-> Missing] /\ hold = [p \in Procs |-> Missing]
    /\ lock = NoLock
    /\ newest \in Versions
    /\ pc = [p \in Procs |-> "idle"] /\ job = [p \in Procs |-> IdleJob]
    /\ crashes = 0

----------------------------------------------------------------------------
Goto(p, step, j) ==
    /\ pc' = [pc EXCEPT ![p] = step]
    /\ job' = [job EXCEPT ![p] = j]

Return(p) == Goto(p, "idle", IdleJob)

(* The operations that take the lock. *)
Locks(o) == o \in {"update", "updateFrom", "rollback", "installFrom"}

(* The end of an operation, in success and in failure: UpdateLock's drop   *)
(* comes first.                                                            *)
Leave(p) ==
    IF Locks(job[p].op)
    THEN Goto(p, "drop", [IdleJob EXCEPT !.op = job[p].op, !.image = job[p].image])
    ELSE Return(p)

(* Windows does not delete the executable of a live process. *)
InUse(file) == Windows /\ \E p \in Procs : pc[p] # "idle" /\ job[p].image = file

----------------------------------------------------------------------------
(* A process starts: from the bin dir, or, to install or to uninstall,     *)
(* from a downloaded copy elsewhere.                                       *)
Start(p, o, v, pol) ==
    /\ pc[p] = "idle"
    /\ v <= newest
    /\ \E e \in BOOLEAN :
          /\ e => o \in {"install", "installFrom", "unmanaged", "uninstall"}
          /\ ~e => dest = v
          /\ Goto(p, IF Windows THEN "cleanup" ELSE "begin",
                  [IdleJob EXCEPT !.op = o, !.image = v, !.elsewhere = e, !.policy = pol])
    /\ UNCHANGED <<files, lock, receipt, newest, crashes>>

(* startup_cleanup deletes the .old files beside the running executable. *)
StartupCleanup(p) ==
    /\ pc[p] = "cleanup"
    /\ old' = IF job[p].elsewhere THEN old ELSE {f \in old : InUse(f)}
    /\ Goto(p, "begin", job[p])
    /\ UNCHANGED <<dest, prev, tmp, hold, lock, receipt, newest, crashes>>

(* Every reason not to act: a refusal, an unreadable receipt, --check,     *)
(* nothing newer, no answer from the release source.                       *)
Decline(p) ==
    /\ pc[p] = "begin"
    /\ Return(p)
    /\ UNCHANGED <<files, lock, receipt, newest, crashes>>

(* managed_receipt and allows_update: the receipt is the installed one's   *)
(* and the program runs from where it says.                                *)
Managed(p) == receipt # NoReceipt /\ ~job[p].elsewhere /\ job[p].policy.enabled

(* choose_channel: what the person asked for, else the enforced channel,   *)
(* else the recorded one; "stable" enforced refuses anything wider.        *)
ChooseChannel(asked, recorded, policy) ==
    IF asked # "none" THEN asked
    ELSE IF policy.channel # "none" THEN policy.channel ELSE recorded

Widens(channel, v, policy) ==
    policy.channel = "stable" /\ (channel = "latest" \/ (channel = "exact" /\ v \in Prereleases))

(* Fetcher::resolve: the newest release the channel admits. *)
Admits(channel, v) == v <= newest /\ (channel = "stable" => v \notin Prereleases)
Resolves(channel, v) ==
    /\ Admits(channel, v)
    /\ channel # "exact" => \A w \in Versions : Admits(channel, w) => w <= v

CheckMinimum(policy, v) == policy.minimum <= v

(* `self update` up to the lock.  All of it, the receipt included, is read *)
(* before the lock is taken.                                               *)
BeginUpdate(p, asked, force, v) ==
    /\ pc[p] = "begin" /\ job[p].op = "update"
    /\ Managed(p)
    /\ LET c == ChooseChannel(asked, receipt.channel, job[p].policy) IN
       /\ ~Widens(c, v, job[p].policy)
       /\ Resolves(c, v)
       /\ v = job[p].image => force
       /\ v < job[p].image => c = "exact"
       /\ CheckMinimum(job[p].policy, v)
       /\ Goto(p, "lock", [job[p] EXCEPT !.receipt = receipt, !.channel = c, !.target = v])
    /\ UNCHANGED <<files, lock, receipt, newest, crashes>>

(* `self update --from`: the version is the archive's own. *)
BeginUpdateFrom(p, v) ==
    /\ pc[p] = "begin" /\ job[p].op = "updateFrom"
    /\ Managed(p)
    /\ v <= newest
    /\ Goto(p, "lock", [job[p] EXCEPT !.receipt = receipt, !.target = v])
    /\ UNCHANGED <<files, lock, receipt, newest, crashes>>

(* Mutant: a rollback that does not look at the policy. *)
BeginRollbackUnchecked(p) ==
    /\ pc[p] = "begin" /\ job[p].op = "rollback"
    /\ Managed(p)
    /\ prev # Missing
    /\ Goto(p, "lock", [job[p] EXCEPT !.receipt = receipt])
    /\ UNCHANGED <<files, lock, receipt, newest, crashes>>

(* `self rollback` up to the lock: the version it goes back to is the one  *)
(* the receipt names, and if it names none it is not compared.             *)
BeginRollback(p) ==
    /\ pc[p] = "begin" /\ job[p].op = "rollback"
    /\ Managed(p)
    /\ prev # Missing
    /\ receipt.previous # Missing => CheckMinimum(job[p].policy, receipt.previous)
    /\ Goto(p, "lock", [job[p] EXCEPT !.receipt = receipt])
    /\ UNCHANGED <<files, lock, receipt, newest, crashes>>

(* `self install`: a binary in the way that no receipt calls ours is only  *)
(* replaced by force.  Only --from takes the lock; --unmanaged reads no    *)
(* receipt.                                                                *)
BeginInstall(p, force, v) ==
    /\ pc[p] = "begin" /\ job[p].op \in {"install", "installFrom", "unmanaged"}
    /\ LET seen == IF job[p].op = "unmanaged" THEN NoReceipt ELSE receipt IN
       /\ dest # Missing /\ job[p].elsewhere /\ seen = NoReceipt => force
       /\ IF job[p].op = "installFrom"
          THEN v <= newest /\ Goto(p, "lock", [job[p] EXCEPT !.receipt = seen, !.target = v])
          ELSE /\ v = job[p].image
               /\ Goto(p, "place", [job[p] EXCEPT !.receipt = seen, !.target = v])
    /\ UNCHANGED <<files, lock, receipt, newest, crashes>>

(* `self uninstall` acts on whatever the receipt lists. *)
BeginUninstall(p) ==
    /\ pc[p] = "begin" /\ job[p].op = "uninstall"
    /\ receipt # NoReceipt
    /\ Goto(p, "unPrev", [job[p] EXCEPT !.receipt = receipt])
    /\ UNCHANGED <<files, lock, receipt, newest, crashes>>

----------------------------------------------------------------------------
(* UpdateLock::acquire. *)

(* Mutant: the lock file is opened, not created exclusively. *)
CreateShared(p) ==
    /\ pc[p] = "lock"
    /\ lock' = [owner |-> p, old |-> FALSE]
    /\ Goto(p, IF job[p].op = "rollback" THEN "hold" ELSE "stage",
            [job[p] EXCEPT !.before = <<dest, prev>>])
    /\ UNCHANGED <<files, receipt, newest, crashes>>

Create(p) ==
    /\ pc[p] = "lock"
    /\ \/ /\ lock.owner = Free
          /\ lock' = [owner |-> p, old |-> FALSE]
          /\ Goto(p, IF job[p].op = "rollback" THEN "hold" ELSE "stage",
                  [job[p] EXCEPT !.before = <<dest, prev>>])
       \/ lock.owner # Free /\ Goto(p, "stat", job[p]) /\ UNCHANGED lock
    /\ UNCHANGED <<files, receipt, newest, crashes>>

(* Mutant: a lock never counts as stale. *)
StatFresh(p) ==
    /\ pc[p] = "stat"
    /\ Return(p)
    /\ UNCHANGED <<files, lock, receipt, newest, crashes>>

(* A lock that is gone by now, or young, is reported as held. *)
Stat(p) ==
    /\ pc[p] = "stat"
    /\ IF lock.owner # Free /\ lock.old THEN Goto(p, "break", job[p]) ELSE Return(p)
    /\ UNCHANGED <<files, lock, receipt, newest, crashes>>

(* The stale lock's path is removed, whatever is there by now. *)
Break(p) ==
    /\ pc[p] = "break"
    /\ lock' = NoLock
    /\ IF job[p].breaks = 0 THEN Goto(p, "lock", [job[p] EXCEPT !.breaks = 1]) ELSE Return(p)
    /\ UNCHANGED <<files, receipt, newest, crashes>>

(* The drop of an UpdateLock removes the path as well. *)
Drop(p) ==
    /\ pc[p] = "drop"
    /\ lock' = NoLock
    /\ Return(p)
    /\ UNCHANGED <<files, receipt, newest, crashes>>

(* Fifteen minutes pass. *)
Age ==
    /\ lock.owner # Free /\ ~lock.old
    /\ \/ Ageing = "any"
       \/ Ageing = "dead" /\ pc[lock.owner] \in {"idle", "cleanup", "begin", "lock", "stat", "break"}
    /\ lock' = [lock EXCEPT !.old = TRUE]
    /\ UNCHANGED <<files, receipt, newest, pc, job, crashes>>

----------------------------------------------------------------------------
(* The archive is downloaded into a directory of the process's own, its    *)
(* checksum and signature verified, the binary extracted and asked for its *)
(* version; --from compares that with the policy only now.                 *)
Stage(p, force) ==
    /\ pc[p] = "stage"
    /\ job[p].op = "updateFrom" =>
          CheckMinimum(job[p].policy, job[p].target) /\ (job[p].target = job[p].image => force)
    /\ Goto(p, IF job[p].op = "installFrom" THEN "place" ELSE "keep", job[p])
    /\ UNCHANGED <<files, lock, receipt, newest, crashes>>

(* One of those steps fails. *)
StageFails(p) ==
    /\ pc[p] = "stage"
    /\ Leave(p)
    /\ UNCHANGED <<files, lock, receipt, newest, crashes>>

(* keep_previous: fs::copy truncates .prev and fills it. *)
Keep(p) ==
    /\ pc[p] = "keep"
    /\ \/ dest = Missing /\ Leave(p) /\ UNCHANGED prev
       \/ dest # Missing /\ prev' = Torn /\ Goto(p, "keeping", [job[p] EXCEPT !.copied = dest])
    /\ UNCHANGED <<dest, old, tmp, hold, lock, receipt, newest, crashes>>

(* Mutant: the new binary is kept. *)
KeptNew(p) ==
    /\ pc[p] = "keeping"
    /\ prev' = job[p].target
    /\ Goto(p, "place", job[p])
    /\ UNCHANGED <<dest, old, tmp, hold, lock, receipt, newest, crashes>>

Kept(p) ==
    /\ pc[p] = "keeping"
    /\ prev' = IF prev = Missing THEN Missing ELSE job[p].copied
    /\ Goto(p, "place", [job[p] EXCEPT !.copied = Missing])
    /\ UNCHANGED <<dest, old, tmp, hold, lock, receipt, newest, crashes>>

(* rollback: the current binary is copied aside. *)
Hold(p) ==
    /\ pc[p] = "hold"
    /\ \/ dest = Missing /\ Leave(p) /\ UNCHANGED hold
       \/ dest # Missing /\ hold' = [hold EXCEPT ![p] = dest] /\ Goto(p, "place", job[p])
    /\ UNCHANGED <<dest, prev, old, tmp, lock, receipt, newest, crashes>>

----------------------------------------------------------------------------
(* place_binary.  A failure anywhere in it removes the staging file;       *)
(* rollback then removes the copy it set aside.                            *)
PlaceFailed(p) ==
    /\ tmp' = [tmp EXCEPT ![p] = Missing]
    /\ hold' = [hold EXCEPT ![p] = Missing]
    /\ Leave(p)

(* The source is moved (or, by a plain install, copied) to the staging     *)
(* name: the extracted release, the running executable, or .prev itself.   *)
Place(p) ==
    /\ pc[p] = "place"
    /\ \/ /\ \/ job[p].op \in {"update", "updateFrom", "installFrom"}
             \/ job[p].op \in {"install", "unmanaged"} /\ job[p].elsewhere
          /\ tmp' = [tmp EXCEPT ![p] = job[p].target]
          /\ Goto(p, "swap", job[p])
          /\ UNCHANGED <<prev, hold>>
       \/ /\ job[p].op = "rollback" /\ prev # Missing
          /\ tmp' = [tmp EXCEPT ![p] = prev]
          /\ prev' = Missing
          /\ Goto(p, "swap", job[p])
          /\ UNCHANGED hold
       \/ /\ job[p].op = "rollback" /\ prev = Missing
          /\ PlaceFailed(p) /\ UNCHANGED prev
       \/ \* already in place, unless someone has removed it
          /\ job[p].op \in {"install", "unmanaged"} /\ ~job[p].elsewhere
          /\ IF dest = Missing THEN PlaceFailed(p)
             ELSE Goto(p, "save", job[p]) /\ UNCHANGED <<tmp, hold>>
          /\ UNCHANGED prev
    /\ UNCHANGED <<dest, old, lock, receipt, newest, crashes>>

(* What follows the swap. *)
Placed(p) == Goto(p, IF job[p].op = "rollback" THEN "putBack" ELSE "save", job[p])

(* Mutant: the file is copied over the destination instead. *)
SwapInPlace(p) ==
    /\ pc[p] = "swap" /\ tmp[p] # Missing
    /\ IF dest # Torn THEN dest' = Torn /\ UNCHANGED <<tmp, pc, job>>
       ELSE dest' = tmp[p] /\ tmp' = [tmp EXCEPT ![p] = Missing] /\ Placed(p)
    /\ UNCHANGED <<prev, old, hold, lock, receipt, newest, crashes>>

(* Mutant: the destination is removed first. *)
SwapRemoving(p) ==
    /\ pc[p] = "swap" /\ tmp[p] # Missing
    /\ IF dest # Missing THEN dest' = Missing /\ UNCHANGED <<tmp, pc, job>>
       ELSE dest' = tmp[p] /\ tmp' = [tmp EXCEPT ![p] = Missing] /\ Placed(p)
    /\ UNCHANGED <<prev, old, hold, lock, receipt, newest, crashes>>

(* One rename over the destination; Windows only when nothing is there. *)
Swap(p) ==
    /\ pc[p] = "swap"
    /\ Windows => dest = Missing
    /\ tmp[p] # Missing
    /\ dest' = tmp[p]
    /\ tmp' = [tmp EXCEPT ![p] = Missing]
    /\ Placed(p)
    /\ UNCHANGED <<prev, old, hold, lock, receipt, newest, crashes>>

(* The staging file is gone (a concurrent uninstall), or the rename fails. *)
SwapFails(p) ==
    /\ pc[p] = "swap"
    /\ Faults \/ tmp[p] = Missing
    /\ PlaceFailed(p)
    /\ UNCHANGED <<dest, prev, old, lock, receipt, newest, crashes>>

(* Mutant: the old executable is deleted, not parked. *)
ParkByRemoval(p) ==
    /\ Windows /\ pc[p] = "swap" /\ dest # Missing
    /\ dest' = Missing
    /\ Goto(p, "swapIn", [job[p] EXCEPT !.parked = dest])
    /\ UNCHANGED <<prev, old, tmp, hold, lock, receipt, newest, crashes>>

(* park_old: an earlier .old file goes if it can, dest takes its name or   *)
(* one with the process id.                                                *)
Park(p) ==
    /\ Windows /\ pc[p] = "swap" /\ dest # Missing
    /\ \E f \in old \cup {dest} :
          old' = (IF InUse(f) THEN old ELSE old \ {f}) \cup {dest}
    /\ dest' = Missing
    /\ Goto(p, "swapIn", [job[p] EXCEPT !.parked = dest])
    /\ UNCHANGED <<prev, tmp, hold, lock, receipt, newest, crashes>>

SwapIn(p) ==
    /\ pc[p] = "swapIn"
    /\ tmp[p] # Missing
    /\ dest' = tmp[p]
    /\ tmp' = [tmp EXCEPT ![p] = Missing]
    /\ Goto(p, "unpark", job[p])
    /\ UNCHANGED <<prev, old, hold, lock, receipt, newest, crashes>>

(* The rename fails: the parked file is put back, or that fails too. *)
SwapInFails(p) ==
    /\ pc[p] = "swapIn"
    /\ Faults \/ tmp[p] = Missing
    /\ \/ job[p].parked \in old /\ dest' = job[p].parked /\ old' = old \ {job[p].parked}
       \/ (Faults \/ job[p].parked \notin old) /\ UNCHANGED <<dest, old>>
    /\ PlaceFailed(p)
    /\ UNCHANGED <<prev, lock, receipt, newest, crashes>>

(* The parked file is deleted unless it still runs. *)
Unpark(p) ==
    /\ pc[p] = "unpark"
    /\ old' = IF InUse(job[p].parked) THEN old ELSE old \ {job[p].parked}
    /\ Placed(p)
    /\ UNCHANGED <<dest, prev, tmp, hold, lock, receipt, newest, crashes>>

(* rollback: the copy set aside becomes .prev. *)
PutBack(p) ==
    /\ pc[p] = "putBack"
    /\ \/ /\ hold[p] # Missing
          /\ prev' = hold[p]
          /\ hold' = [hold EXCEPT ![p] = Missing]
          /\ Goto(p, "save", job[p])
       \/ hold[p] = Missing /\ Leave(p) /\ UNCHANGED <<prev, hold>>
    /\ UNCHANGED <<dest, old, tmp, lock, receipt, newest, crashes>>

----------------------------------------------------------------------------
(* Mutant: the receipt of a rollback keeps its previous_version. *)
WrittenNoSwap(j) ==
    [version |-> IF j.op = "rollback" THEN j.receipt.previous ELSE j.target,
     previous |-> IF j.op \in {"update", "updateFrom"} THEN j.image ELSE j.receipt.previous,
     channel |-> "stable"]

(* The receipt an operation writes, from the one it loaded at its start.   *)
(* --from and an explicit version leave the channel alone.                 *)
Written(j) ==
    CASE j.op \in {"update", "updateFrom"} ->
            [version |-> j.target, previous |-> j.image,
             channel |-> IF j.channel \in {"stable", "latest"} THEN j.channel ELSE j.receipt.channel]
      [] j.op = "rollback" ->
            [j.receipt EXCEPT !.version = j.receipt.previous, !.previous = j.receipt.version]
      [] j.op \in {"install", "installFrom"} ->
            [version |-> j.target,
             previous |-> IF prev # Missing THEN j.receipt.previous ELSE Missing,
             channel |-> IF j.receipt = NoReceipt THEN "stable" ELSE j.receipt.channel]
      [] OTHER -> receipt   \* --unmanaged writes none

Save(p) ==
    /\ pc[p] = "save"
    /\ receipt' = Written(job[p])
    /\ Leave(p)
    /\ UNCHANGED <<files, lock, newest, crashes>>

(* Any of the copies, renames and writes may fail: the operation ends with *)
(* what it has done so far.                                                *)
Fails(p) ==
    /\ Faults
    /\ \/ pc[p] \in {"keep", "keeping", "hold", "putBack", "save"} /\ Leave(p)
       \/ pc[p] \in {"unPrev", "unReceipt", "unBinary"} /\ Return(p)
    /\ UNCHANGED <<files, lock, receipt, newest, crashes>>

----------------------------------------------------------------------------
(* `self uninstall`, without the lock: .prev, then whatever stale_files    *)
(* finds - the parked and staging files of every process and the lock -    *)
(* then the receipt and the binary last.                                   *)
RemovePrev(p) ==
    /\ pc[p] = "unPrev"
    /\ prev' = Missing
    /\ Goto(p, "unStale", job[p])
    /\ UNCHANGED <<dest, old, tmp, hold, lock, receipt, newest, crashes>>

RemoveStale(p) ==
    /\ pc[p] = "unStale"
    /\ old' = {f \in old : InUse(f)}
    /\ tmp' = [q \in Procs |-> Missing] /\ hold' = [q \in Procs |-> Missing]
    /\ lock' = NoLock
    /\ Goto(p, "unReceipt", job[p])
    /\ UNCHANGED <<dest, prev, receipt, newest, crashes>>

RemoveReceipt(p) ==
    /\ pc[p] = "unReceipt"
    /\ receipt' = NoReceipt
    /\ Goto(p, "unBinary", job[p])
    /\ UNCHANGED <<files, lock, newest, crashes>>

RemoveBinary(p) ==
    /\ pc[p] = "unBinary"
    /\ dest' = Missing
    /\ Return(p)
    /\ UNCHANGED <<prev, old, tmp, hold, lock, receipt, newest, crashes>>

----------------------------------------------------------------------------
(* A process is killed; its files, the lock among them, stay. *)
Crash(p) ==
    /\ pc[p] # "idle"
    /\ crashes < MaxCrashes
    /\ crashes' = crashes + 1
    /\ Return(p)
    /\ UNCHANGED <<files, lock, receipt, newest>>

(* A new version is released. *)
Release ==
    /\ newest < MaxVersion
    /\ newest' = newest + 1
    /\ UNCHANGED <<files, lock, receipt, pc, job, crashes>>

Begin(p) ==
    \/ \E v \in Versions, force \in BOOLEAN :
          \/ \E asked \in {"none", "stable", "latest", "exact"} : BeginUpdate(p, asked, force, v)
          \/ BeginInstall(p, force, v)
    \/ \E v \in Versions : BeginUpdateFrom(p, v)
    \/ BeginRollback(p) \/ BeginUninstall(p)

Acquire(p) == Create(p) \/ Stat(p) \/ Break(p)

Work(p) ==
    \/ StartupCleanup(p)
    \/ \E force \in BOOLEAN : Stage(p, force)
    \/ StageFails(p) \/ Keep(p) \/ Kept(p) \/ Hold(p) \/ Place(p)
    \/ Swap(p) \/ SwapFails(p) \/ Park(p) \/ SwapIn(p) \/ SwapInFails(p) \/ Unpark(p)
    \/ PutBack(p) \/ Save(p) \/ Fails(p) \/ Drop(p)
    \/ RemovePrev(p) \/ RemoveStale(p) \/ RemoveReceipt(p) \/ RemoveBinary(p)

Next ==
    \/ \E p \in Procs :
          \/ \E o \in Ops, v \in Versions, pol \in Policies : Start(p, o, v, pol)
          \/ Decline(p) \/ Begin(p) \/ Acquire(p) \/ Work(p) \/ Crash(p)
    \/ Age \/ Release

Spec == Init /\ [][Next]_vars

(* An install from an archive, which needs neither a receipt nor an        *)
(* executable in place, is attempted again and again and not always        *)
(* declined; processes run until they are killed, and time passes.         *)
Retried == Ops \cap {"installFrom"}

FairSpec ==
    /\ Spec
    /\ \A p \in Procs :
          /\ \A o \in Retried :
                /\ SF_vars(\E v \in Versions, pol \in Policies : Start(p, o, v, pol))
                /\ SF_vars(job[p].op = o /\ Begin(p))
          /\ WF_vars(Decline(p)) /\ WF_vars(Acquire(p)) /\ WF_vars(Work(p))
    /\ SF_vars(Age)

----------------------------------------------------------------------------
Holding(p) ==
    /\ Locks(job[p].op)
    /\ pc[p] \in {"stage", "keep", "keeping", "hold", "place", "swap", "swapIn", "unpark",
                  "putBack", "save", "drop"}

(* The step in which process p puts a binary in place. *)
Places(p) == pc[p] \in {"swap", "swapIn"} /\ pc'[p] \in {"unpark", "putBack", "save"}

AtRest == \A p \in Procs : pc[p] = "idle"

(* At most one process is inside update, rollback or an install from an    *)
(* archive: "a lock file in the bin dir stops concurrent updates".         *)
MutualExclusion == \A p, q \in Procs : Holding(p) /\ Holding(q) => p = q

(* The inductive invariant behind it, where no lock is ever stale and      *)
(* nobody uninstalls: the lock file is its holder's, and only an operation *)
(* that locks waits for it or gets past it.                                *)
LockInv ==
    /\ ~lock.old
    /\ \A p \in Procs :
          /\ Holding(p) => lock.owner = p
          /\ pc[p] \in {"lock", "stat", "stage", "keep", "keeping", "hold", "putBack", "drop"}
               => Locks(job[p].op)
          /\ pc[p] \notin {"break", "unPrev", "unStale", "unReceipt", "unBinary"}
          /\ job[p].op # "uninstall"

(* The lock does what it is for: UpdateLock lets one process at a time     *)
(* into update, rollback and an install from an archive.                   *)
OneUpdateAtATime == TypeOK /\ LockInv /\ MutualExclusion

(* The binary is never a half-written file: place_binary places "without   *)
(* ever leaving a half-written executable", and what it places is whole.   *)
InstalledIsWhole == dest # Torn

(* The inductive invariant behind it, where nothing fails or is killed:    *)
(* the only torn file is the .prev copy of an update that is making it.    *)
WholeInv ==
    /\ dest # Torn /\ Torn \notin old
    /\ \A p \in Procs :
          tmp[p] # Torn /\ hold[p] # Torn /\ job[p].copied # Torn /\ job[p].parked # Torn
    /\ prev = Torn => \E p \in Procs : pc[p] = "keeping"

(* No half-written file becomes the binary, is parked or is kept where     *)
(* rollback could take it (stage_local_archive, keep_previous,             *)
(* place_binary).                                                          *)
NeverHalfWritten == WholeInv /\ InstalledIsWhole

(* Once a binary is installed on Unix, something is at its path at every   *)
(* instant, whoever crashes and whatever fails: only uninstall takes it    *)
(* away.                                                                   *)
Stays == dest # Missing => dest' # Missing \/ \E p \in Procs : pc[p] = "unBinary"
NeverTakenAway == [][Stays]_dest

(* On Windows a crash can leave the path empty, but then the executable    *)
(* that was there survives as a parked .old file, until it is uninstalled. *)
WholeCopySurvives ==
    [][LET whole(d, o) == d \in Versions \/ o \cap Versions # {}
       IN  whole(dest, old) => \/ whole(dest, old)'
                               \/ \E p \in Procs : pc[p] \in {"unStale", "unBinary"}]_<<dest, old>>

(* update and rollback keep the binary they replace as .prev "so the other *)
(* can undo them": when one is over, having written its receipt, .prev is  *)
(* what the binary was when it took the lock, and rollback has put back    *)
(* what .prev was.                                                         *)
Reversible ==
    [][\A p \in Procs :
         /\ pc[p] = "save" /\ receipt' # receipt
         /\ job[p].op \in {"update", "updateFrom", "rollback"}
         => /\ prev = job[p].before[1]
            /\ dest = IF job[p].op = "rollback" THEN job[p].before[2] ELSE job[p].target]_receipt

(* Between operations the receipt tells the truth: its version is the      *)
(* binary's and previous_version is that of the .prev copy.                *)
ReceiptDescribesBinaries ==
    AtRest /\ receipt # NoReceipt =>
        receipt.version = dest /\ (prev # Missing => receipt.previous = prev)

(* Following a channel never goes back to an older version than the one    *)
(* installed.                                                              *)
ChannelsNeverDowngrade ==
    [][\A p \in Procs :
         Places(p) /\ job[p].op = "update" /\ job[p].channel # "exact" => dest' >= dest]_pc

(* No update and no rollback lands below the enforced minimum_version. *)
MinimumHeld ==
    [][\A p \in Procs :
         Places(p) /\ job[p].op \in {"update", "updateFrom", "rollback"}
           => dest' = Torn \/ CheckMinimum(job[p].policy, dest')]_pc

(* What update and rollback put in place is what policy and channel allow: *)
(* never older on a channel, never below the minimum (choose_channel,      *)
(* check_minimum).                                                         *)
VersionsAreAdmitted == ChannelsNeverDowngrade /\ MinimumHeld

(* Under an enforced "stable" no update places a prerelease. *)
StablePolicyHeld ==
    [][\A p \in Procs :
         Places(p) /\ job[p].op \in {"update", "updateFrom"} /\ job[p].policy.channel = "stable"
           => dest' \notin Prereleases]_pc

(* The doctor's install.receipt check. *)
ReceiptFinding ==
    IF receipt = NoReceipt THEN "skipped" ELSE IF dest = Missing THEN "warning" ELSE "ok"

(* The check is ok only when the receipt "matches the binary". *)
DoctorSeesMismatch == AtRest /\ ReceiptFinding = "ok" => receipt.version = dest

(* The lock of a killed process does not block for ever, even where the    *)
(* crash left no executable or no receipt to update from: acquire removes  *)
(* it once it is old.                                                      *)
DeadLockIsBroken ==
    \A p \in Procs : lock.owner = p /\ ~Holding(p) ~> lock.owner # p \/ Holding(p)

============================================================================
