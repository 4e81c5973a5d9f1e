------------------------- MODULE SelfInstallProofs -------------------------
(***************************************************************************)
(* Proofs about SelfInstall, for any number of processes, versions and     *)
(* policies.                                                               *)
(***************************************************************************)
EXTENDS SelfInstall, TLAPS

USE DEF Missing, Torn

----------------------------------------------------------------------------
(* The records a process keeps. *)

(* The data of a process without an operation.                             *)
LEMMA IdleJobType == IdleJob \in Jobs
BY VersionAssumption
DEF IdleJob, Jobs, AllOps, Versions, PolicySpace, MaybeVersion, Receipts, NoReceipt, Content

(* The values a file may hold are apart.                                   *)
LEMMA Values ==
    /\ Missing \in Content /\ Torn \in Content /\ MaybeVersion \subseteq Content
    /\ Versions \subseteq MaybeVersion /\ Missing \in MaybeVersion
    /\ NoReceipt \in Receipts
    /\ NoLock \in [owner : Procs \cup {Free}, old : BOOLEAN]
    /\ IdleJob.op = "update" /\ IdleJob.copied = Missing /\ IdleJob.parked = Missing
BY DEF Content, MaybeVersion, NoReceipt, Receipts, NoLock, IdleJob

(* How a process's record changes while it runs. *)
Follows(j, k) ==
    /\ k \in Jobs /\ k.op = j.op
    /\ k.copied \in {j.copied, Missing, dest} /\ k.parked \in {j.parked, Missing, dest}

(* Each change an action makes to a process's data keeps its type.         *)
LEMMA SameJob ==
    ASSUME NEW j \in Jobs
    PROVE  Follows(j, j)
BY DEF Jobs, Follows

(* BeginInstall and BeginUpdateFrom.                                       *)
LEMMA InstallJob ==
    ASSUME NEW j \in Jobs, NEW r \in Receipts, NEW v \in MaybeVersion
    PROVE  Follows(j, [j EXCEPT !.receipt = r, !.target = v])
BY DEF Jobs, Follows

(* The operations that load the receipt.                                   *)
LEMMA ReceiptJob ==
    ASSUME NEW j \in Jobs, NEW r \in Receipts
    PROVE  Follows(j, [j EXCEPT !.receipt = r])
BY DEF Jobs, Follows

(* Create.                                                                 *)
LEMMA LockedJob ==
    ASSUME NEW j \in Jobs, NEW f \in Content, NEW g \in Content
    PROVE  Follows(j, [j EXCEPT !.before = <<f, g>>])
BY DEF Jobs, Follows

(* Break.                                                                  *)
LEMMA BreakingJob ==
    ASSUME NEW j \in Jobs
    PROVE  Follows(j, [j EXCEPT !.breaks = 1])
BY DEF Jobs, Follows

(* Keep and Kept.                                                          *)
LEMMA CopyingJob ==
    ASSUME NEW j \in Jobs, NEW f \in Content, f \in {Missing, dest}
    PROVE  Follows(j, [j EXCEPT !.copied = f])
BY DEF Jobs, Follows

(* Park.                                                                   *)
LEMMA ParkingJob ==
    ASSUME NEW j \in Jobs, NEW f \in Content, f \in {Missing, dest}
    PROVE  Follows(j, [j EXCEPT !.parked = f])
BY DEF Jobs, Follows

(* What Goto does to the processes. *)
LEMMA GotoType ==
    ASSUME TypeOK, NEW p \in Procs, NEW step \in Steps, NEW j \in Jobs, Goto(p, step, j)
    PROVE  /\ pc' \in [Procs -> Steps] /\ job' \in [Procs -> Jobs]
           /\ \A q \in Procs : pc'[q] = (IF q = p THEN step ELSE pc[q])
           /\ \A q \in Procs : job'[q] = (IF q = p THEN j ELSE job[q])
BY DEF TypeOK, Goto

(* Where a process is after it returned.                                   *)
LEMMA ReturnType ==
    ASSUME TypeOK, NEW p \in Procs, Return(p)
    PROVE  /\ pc' \in [Procs -> Steps] /\ job' \in [Procs -> Jobs]
           /\ \A q \in Procs : pc'[q] = (IF q = p THEN "idle" ELSE pc[q])
           /\ \A q \in Procs : job'[q] = (IF q = p THEN IdleJob ELSE job[q])
BY GotoType, IdleJobType DEF Return, Steps

(* Where it is after it left an operation.                                 *)
LEMMA LeaveType ==
    ASSUME TypeOK, NEW p \in Procs, Leave(p)
    PROVE  /\ pc' \in [Procs -> Steps] /\ job' \in [Procs -> Jobs]
           /\ \A q \in Procs :
                 pc'[q] = (IF q # p THEN pc[q] ELSE IF Locks(job[p].op) THEN "drop" ELSE "idle")
           /\ \A q \in Procs : q # p => job'[q] = job[q]
           /\ job'[p].op = IF Locks(job[p].op) THEN job[p].op ELSE "update"
           /\ job'[p].copied = Missing /\ job'[p].parked = Missing
<1>1. job[p] \in Jobs
  BY DEF TypeOK
<1> DEFINE left == [IdleJob EXCEPT !.op = job[p].op, !.image = job[p].image]
<1>2. left \in Jobs /\ left.op = job[p].op /\ left.copied = Missing /\ left.parked = Missing
  BY <1>1, IdleJobType, Values DEF Jobs
<1>3. IdleJob.op = "update" /\ IdleJob.copied = Missing /\ IdleJob.parked = Missing
  BY Values
<1>4. CASE Locks(job[p].op)
  <2>1. Goto(p, "drop", left)
    BY <1>4 DEF Leave
  <2> HIDE DEF left
  <2> QED BY <1>2, <1>4, <2>1, GotoType DEF Steps
<1>5. CASE ~Locks(job[p].op)
  BY <1>3, <1>5, ReturnType DEF Leave
<1> QED BY <1>4, <1>5

----------------------------------------------------------------------------
(* A process runs one operation from its start to its end. *)
OpKept ==
    \A p \in Procs :
        /\ pc[p] # "idle" /\ pc'[p] # "idle" => job'[p].op = job[p].op
        /\ job'[p].copied \in {job[p].copied, Missing, dest}
        /\ job'[p].parked \in {job[p].parked, Missing, dest}

(* Every step keeps the types, and the operation of whoever is not         *)
(* starting.                                                               *)
LEMMA TypeStep == TypeOK /\ [Next]_vars => TypeOK' /\ OpKept
<1> SUFFICES ASSUME TypeOK, [Next]_vars PROVE TypeOK' /\ OpKept
  OBVIOUS
<1>1. ASSUME NEW p \in Procs,
             \/ \E o \in Ops, v \in Versions, pol \in Policies : Start(p, o, v, pol)
             \/ Decline(p) \/ Begin(p) \/ Acquire(p) \/ Work(p) \/ Crash(p)
      PROVE  TypeOK' /\ OpKept
  <2>0. job[p] \in Jobs /\ pc[p] \in Steps
    BY DEF TypeOK
  <2>1. CASE \E o \in Ops, v \in Versions, pol \in Policies : Start(p, o, v, pol)
    <3> PICK o \in Ops, v \in Versions, pol \in Policies : Start(p, o, v, pol)
      BY <2>1
    <3> PICK e \in BOOLEAN :
            Goto(p, IF Windows THEN "cleanup" ELSE "begin",
                 [IdleJob EXCEPT !.op = o, !.image = v, !.elsewhere = e, !.policy = pol])
      BY DEF Start
    <3> DEFINE j == [IdleJob EXCEPT !.op = o, !.image = v, !.elsewhere = e, !.policy = pol]
    <3>1. o \in AllOps /\ pol \in PolicySpace
      BY OpsAssumption, PolicyAssumption
    <3>2. j \in Jobs /\ j.copied = Missing /\ j.parked = Missing
      BY <3>1, IdleJobType, Values DEF Jobs
    <3>3. Goto(p, IF Windows THEN "cleanup" ELSE "begin", j) /\ pc[p] = "idle"
      BY DEF Start
    <3> HIDE DEF j
    <3> QED BY <3>2, <3>3, GotoType DEF Start, TypeOK, OpKept, Follows, files, Steps
  <2>2. CASE Decline(p)
    BY <2>0, <2>2, ReturnType, Values DEF Decline, TypeOK, OpKept, Follows, files, Steps
  <2>3. CASE \E v \in Versions, force \in BOOLEAN,
                  asked \in {"none", "stable", "latest", "exact"} : BeginUpdate(p, asked, force, v)
    <3> PICK v \in Versions, force \in BOOLEAN,
             asked \in {"none", "stable", "latest", "exact"} : BeginUpdate(p, asked, force, v)
      BY <2>3
    <3> DEFINE c == ChooseChannel(asked, receipt.channel, job[p].policy)
               j == [job[p] EXCEPT !.receipt = receipt, !.channel = c, !.target = v]
    <3>1. receipt.channel \in {"none", "stable", "latest"}
      BY DEF TypeOK, Receipts, NoReceipt
    <3>2. job[p].policy.channel \in {"none", "stable", "latest"}
      BY <2>0 DEF Jobs, PolicySpace
    <3>3. c \in {"none", "stable", "latest", "exact"}
      BY <3>1, <3>2 DEF ChooseChannel
    <3> v \in MaybeVersion /\ receipt \in Receipts
      BY Values DEF TypeOK
    <3>4. ASSUME NEW d \in {"none", "stable", "latest", "exact"}
          PROVE  LET k == [job[p] EXCEPT !.receipt = receipt, !.channel = d, !.target = v]
                 IN  Follows(job[p], k)
      BY <2>0 DEF Jobs, Follows
    <3>6. Follows(job[p], j)
      BY <3>3, <3>4
    <3>5. Goto(p, "lock", j)
      BY DEF BeginUpdate
    <3> HIDE DEF j
    <3> QED BY <3>6, <3>5, GotoType DEF BeginUpdate, TypeOK, OpKept, Follows, files, Steps
  <2>4. CASE \E v \in Versions, force \in BOOLEAN : BeginInstall(p, force, v)
    <3> PICK v \in Versions, force \in BOOLEAN : BeginInstall(p, force, v)
      BY <2>4
    <3> DEFINE seen == IF job[p].op = "unmanaged" THEN NoReceipt ELSE receipt
               j == [job[p] EXCEPT !.receipt = seen, !.target = v]
    <3>1. seen \in Receipts /\ v \in MaybeVersion
      BY Values DEF TypeOK
    <3>2. Follows(job[p], j)
      BY <2>0, <3>1, InstallJob
    <3>3. Goto(p, "lock", j) \/ Goto(p, "place", j)
      BY DEF BeginInstall
    <3> HIDE DEF j
    <3> QED BY <3>2, <3>3, GotoType DEF BeginInstall, TypeOK, OpKept, Follows, files, Steps
  <2>5. CASE \E v \in Versions : BeginUpdateFrom(p, v)
    <3> PICK v \in Versions : BeginUpdateFrom(p, v)
      BY <2>5
    <3> DEFINE j == [job[p] EXCEPT !.receipt = receipt, !.target = v]
    <3> v \in MaybeVersion /\ receipt \in Receipts
      BY Values DEF TypeOK
    <3>1. Follows(job[p], j)
      BY <2>0, InstallJob
    <3>2. Goto(p, "lock", j)
      BY DEF BeginUpdateFrom
    <3> HIDE DEF j
    <3> QED BY <3>1, <3>2, GotoType DEF BeginUpdateFrom, TypeOK, OpKept, Follows, files, Steps
  <2>6. CASE BeginRollback(p)
    <3> DEFINE j == [job[p] EXCEPT !.receipt = receipt]
    <3>1. Follows(job[p], j)
      BY <2>0, ReceiptJob, Values DEF TypeOK
    <3>2. Goto(p, "lock", j)
      BY <2>6 DEF BeginRollback
    <3> HIDE DEF j
    <3>3. pc' \in [Procs -> Steps] /\ job' \in [Procs -> Jobs] /\ OpKept
      BY <2>0, <3>1, <3>2, GotoType DEF OpKept, Follows, Steps
    <3> QED BY <2>6, <3>3, Values DEF BeginRollback, TypeOK, files
  <2>7. CASE BeginUninstall(p)
    <3> DEFINE j == [job[p] EXCEPT !.receipt = receipt]
    <3>1. Follows(job[p], j)
      BY <2>0, ReceiptJob, Values DEF TypeOK
    <3>2. Goto(p, "unPrev", j)
      BY <2>7 DEF BeginUninstall
    <3> HIDE DEF j
    <3>3. pc' \in [Procs -> Steps] /\ job' \in [Procs -> Jobs] /\ OpKept
      BY <2>0, <3>1, <3>2, GotoType DEF OpKept, Follows, Steps
    <3> QED BY <2>7, <3>3, Values DEF BeginUninstall, TypeOK, files
  <2>8. CASE Create(p)
    <3> DEFINE j == [job[p] EXCEPT !.before = <<dest, prev>>]
    <3>1. Follows(job[p], j)
      BY <2>0, LockedJob DEF TypeOK
    <3>2. /\ \/ /\ Goto(p, IF job[p].op = "rollback" THEN "hold" ELSE "stage", j)
                /\ lock' = [owner |-> p, old |-> FALSE]
             \/ Goto(p, "stat", job[p]) /\ UNCHANGED lock
          /\ UNCHANGED <<files, receipt, newest, crashes>>
      BY <2>8 DEF Create
    <3> HIDE DEF j
    <3>3. pc' \in [Procs -> Steps] /\ job' \in [Procs -> Jobs] /\ OpKept
      BY <2>0, <3>1, <3>2, GotoType DEF OpKept, Follows, Steps
    <3>4. lock' \in [owner : Procs \cup {Free}, old : BOOLEAN]
      <4>1. [owner |-> p, old |-> FALSE] \in [owner : Procs \cup {Free}, old : BOOLEAN]
        OBVIOUS
      <4> QED BY <3>2, <4>1 DEF TypeOK
    <3> QED BY <3>2, <3>3, <3>4 DEF TypeOK, files
  <2>9. CASE Stat(p)
    BY <2>0, <2>9, GotoType, ReturnType, Values DEF Stat, TypeOK, OpKept, Follows, files, Steps
  <2>10. CASE Break(p)
    <3> DEFINE j == [job[p] EXCEPT !.breaks = 1]
    <3>1. Follows(job[p], j)
      BY <2>0, BreakingJob, Values DEF TypeOK
    <3>2. Goto(p, "lock", j) \/ Return(p)
      BY <2>10 DEF Break
    <3> HIDE DEF j
    <3>3. pc' \in [Procs -> Steps] /\ job' \in [Procs -> Jobs] /\ OpKept
      BY <2>0, <3>1, <3>2, GotoType, ReturnType, Values DEF OpKept, Follows, Steps
    <3> QED BY <2>10, <3>3, Values DEF Break, TypeOK, files
  <2>11. CASE StartupCleanup(p)
    BY <2>0, <2>11, GotoType, Values DEF StartupCleanup, TypeOK, OpKept, Follows, files, Steps
  <2>12. CASE \E force \in BOOLEAN : Stage(p, force)
    BY <2>0, <2>12, GotoType, Values, SMTT(60) DEF Stage, TypeOK, OpKept, Follows, files, Steps
  <2>13. CASE StageFails(p)
    BY <2>0, <2>13, LeaveType, Values DEF StageFails, TypeOK, OpKept, Follows, files, Steps
  <2>14. CASE Keep(p)
    <3> DEFINE j == [job[p] EXCEPT !.copied = dest]
    <3>1. Follows(job[p], j)
      BY <2>0, CopyingJob, Values DEF TypeOK
    <3>2. Goto(p, "keeping", j) \/ Leave(p)
      BY <2>14 DEF Keep
    <3> HIDE DEF j
    <3>3. pc' \in [Procs -> Steps] /\ job' \in [Procs -> Jobs] /\ OpKept
      BY <2>0, <3>1, <3>2, GotoType, LeaveType DEF OpKept, Follows, Steps
    <3> QED BY <2>14, <3>3, Values DEF Keep, TypeOK, files
  <2>15. CASE Kept(p)
    <3> DEFINE j == [job[p] EXCEPT !.copied = Missing]
    <3>1. Follows(job[p], j) /\ job[p].copied \in Content
      BY <2>0, CopyingJob, Values DEF Jobs
    <3>2. Goto(p, "place", j)
      BY <2>15 DEF Kept
    <3> HIDE DEF j
    <3>3. pc' \in [Procs -> Steps] /\ job' \in [Procs -> Jobs] /\ OpKept
      BY <3>1, <3>2, GotoType DEF OpKept, Follows, Steps
    <3> QED BY <2>15, <3>1, <3>3, Values DEF Kept, TypeOK
  <2>16. CASE Hold(p)
    BY <2>0, <2>16, GotoType, LeaveType, Values, SMTT(60) DEF Hold, TypeOK, OpKept, Follows, files, Steps
  <2>17. CASE Place(p)
    <3>1. job[p].target \in Content
      BY <2>0, Values DEF Jobs
    <3>2. Goto(p, "swap", job[p]) \/ Goto(p, "save", job[p]) \/ Leave(p)
      BY <2>17 DEF Place, PlaceFailed
    <3>3. pc' \in [Procs -> Steps] /\ job' \in [Procs -> Jobs] /\ OpKept
      BY <2>0, <3>2, GotoType, LeaveType DEF OpKept, Follows, Steps
    <3>4. tmp' \in [Procs -> Content] /\ hold' \in [Procs -> Content] /\ prev' \in Content
      BY <2>17, <3>1, Values DEF Place, PlaceFailed, TypeOK
    <3> QED BY <2>17, <3>3, <3>4 DEF Place, TypeOK, OpKept
  <2>18. CASE Swap(p)
    BY <2>0, <2>18, GotoType, Values DEF Swap, TypeOK, OpKept, Follows, files, Steps, Placed
  <2>19. CASE SwapFails(p)
    BY <2>0, <2>19, LeaveType, Values DEF SwapFails, TypeOK, OpKept, Follows, files, Steps, PlaceFailed
  <2>20. CASE Park(p)
    <3> DEFINE j == [job[p] EXCEPT !.parked = dest]
    <3>1. Follows(job[p], j)
      BY <2>0, ParkingJob, Values DEF TypeOK
    <3>2. Goto(p, "swapIn", j)
      BY <2>20 DEF Park
    <3> HIDE DEF j
    <3>3. pc' \in [Procs -> Steps] /\ job' \in [Procs -> Jobs] /\ OpKept
      BY <2>0, <3>1, <3>2, GotoType DEF OpKept, Follows, Steps
    <3> QED BY <2>20, <3>3, Values DEF Park, TypeOK, files
  <2>21. CASE SwapIn(p)
    BY <2>0, <2>21, GotoType, Values DEF SwapIn, TypeOK, OpKept, Follows, files, Steps
  <2>22. CASE SwapInFails(p)
    <3>1. job[p].parked \in Content
      BY <2>0 DEF Jobs
    <3>2. pc' \in [Procs -> Steps] /\ job' \in [Procs -> Jobs] /\ OpKept
      BY <2>0, <2>22, LeaveType DEF SwapInFails, PlaceFailed, OpKept
    <3>3. tmp' \in [Procs -> Content] /\ hold' \in [Procs -> Content]
      BY <2>22, Values DEF SwapInFails, PlaceFailed, TypeOK
    <3> QED BY <2>22, <3>1, <3>2, <3>3 DEF SwapInFails, TypeOK, OpKept
  <2>23. CASE Unpark(p)
    BY <2>0, <2>23, GotoType, Values DEF Unpark, TypeOK, OpKept, Follows, files, Steps, Placed
  <2>24. CASE PutBack(p)
    <3>1. pc' \in [Procs -> Steps] /\ job' \in [Procs -> Jobs] /\ OpKept
      BY <2>0, <2>24, GotoType, LeaveType DEF PutBack, OpKept, Steps
    <3>2. prev' \in Content /\ hold' \in [Procs -> Content]
      BY <2>24, Values DEF PutBack, TypeOK
    <3> QED BY <2>24, <3>1, <3>2 DEF PutBack, TypeOK
  <2>25. CASE Save(p)
    <3>1. Written(job[p]) \in Receipts
      <4>1. /\ job[p].receipt \in Receipts /\ job[p].target \in MaybeVersion
            /\ job[p].image \in MaybeVersion /\ job[p].op \in AllOps
        BY <2>0, Values DEF Jobs
      <4>2. /\ job[p].receipt.version \in MaybeVersion /\ job[p].receipt.previous \in MaybeVersion
            /\ job[p].receipt.channel \in {"none", "stable", "latest"}
            /\ receipt \in Receipts
        BY <4>1 DEF Receipts, TypeOK
      <4>3. CASE job[p].op \in {"update", "updateFrom"}
        BY <4>1, <4>2, <4>3 DEF Written, Receipts
      <4>4. CASE job[p].op = "rollback"
        BY <4>1, <4>2, <4>4 DEF Written, Receipts
      <4>5. CASE job[p].op \in {"install", "installFrom"}
        BY <4>1, <4>2, <4>5, Values DEF Written, Receipts
      <4>6. CASE job[p].op \in {"unmanaged", "uninstall"}
        BY <4>2, <4>6 DEF Written
      <4> QED BY <4>1, <4>3, <4>4, <4>5, <4>6 DEF AllOps
    <3> QED BY <2>25, <3>1, LeaveType DEF Save, TypeOK, OpKept, files
  <2>26. CASE Fails(p)
    BY <2>0, <2>26, LeaveType, ReturnType, Values DEF Fails, TypeOK, OpKept, Follows, files, Steps
  <2>27. CASE Drop(p)
    BY <2>0, <2>27, ReturnType, Values DEF Drop, TypeOK, OpKept, Follows, files, Steps
  <2>28. CASE RemovePrev(p)
    BY <2>0, <2>28, GotoType, Values DEF RemovePrev, TypeOK, OpKept, Follows, files, Steps
  <2>29. CASE RemoveStale(p)
    BY <2>0, <2>29, GotoType, Values DEF RemoveStale, TypeOK, OpKept, Follows, files, Steps
  <2>30. CASE RemoveReceipt(p)
    BY <2>0, <2>30, GotoType, Values DEF RemoveReceipt, TypeOK, OpKept, Follows, files, Steps
  <2>31. CASE RemoveBinary(p)
    BY <2>0, <2>31, ReturnType, Values DEF RemoveBinary, TypeOK, OpKept, Follows, files, Steps
  <2>32. CASE Crash(p)
    BY <2>0, <2>32, ReturnType, Values, CrashAssumption DEF Crash, TypeOK, OpKept, Follows, files, Steps
  <2> QED BY <1>1, <2>1, <2>2, <2>3, <2>4, <2>5, <2>6, <2>7, <2>8, <2>9, <2>10, <2>11, <2>12, <2>13, <2>14, <2>15, <2>16, <2>17, <2>18, <2>19, <2>20, <2>21, <2>22, <2>23, <2>24, <2>25, <2>26, <2>27, <2>28, <2>29, <2>30, <2>31, <2>32 DEF Begin, Acquire, Work
<1>2. CASE Age
  BY <1>2 DEF Age, TypeOK, OpKept, files
<1>3. CASE Release
  BY <1>3, VersionAssumption DEF Release, TypeOK, OpKept, files, Versions
<1>4. CASE UNCHANGED vars
  BY <1>4 DEF TypeOK, OpKept, vars, files
<1> QED BY <1>1, <1>2, <1>3, <1>4 DEF Next

(* They hold at the start.                                                 *)
LEMMA TypeInit == Init => TypeOK
BY VersionAssumption, IdleJobType, Values
DEF Init, TypeOK, Receipts, MaybeVersion, Versions, Content, Steps

(* Every file, lock, receipt and process stays what it is declared to be,   *)
(* through every step of every operation, failure and crash.                *)
THEOREM TypeCorrect == Spec => []TypeOK
BY TypeInit, TypeStep, PTL DEF Spec

----------------------------------------------------------------------------
(* Where no lock is ever taken for stale and nobody uninstalls, the lock    *)
(* file does what it is for.                                                *)
LEMMA GotoFrame ==
    ASSUME TypeOK, NEW p \in Procs, NEW step, NEW j, Goto(p, step, j)
    PROVE  /\ \A q \in Procs : pc'[q] = (IF q = p THEN step ELSE pc[q])
           /\ \A q \in Procs \ {p} : job'[q] = job[q]
BY DEF TypeOK, Goto

(* The lock file is its holder's after every step.                         *)
LEMMA LockStep ==
    ASSUME Ageing = "none", "uninstall" \notin Ops, TypeOK, LockInv, [Next]_vars
    PROVE  LockInv'
<1> USE DEF Locks, Holding, LockInv
<1>0. TypeOK' /\ OpKept
  BY TypeStep
<1>1. ASSUME NEW p \in Procs,
             \/ \E o \in Ops, v \in Versions, pol \in Policies : Start(p, o, v, pol)
             \/ Decline(p) \/ Begin(p) \/ Acquire(p) \/ Work(p) \/ Crash(p)
      PROVE  LockInv'
  <2>0. job[p] \in Jobs /\ pc[p] \in Steps
    BY DEF TypeOK
  <2>1. CASE \E o \in Ops, v \in Versions, pol \in Policies : Start(p, o, v, pol)
    <3> PICK o \in Ops, v \in Versions, pol \in Policies : Start(p, o, v, pol)
      BY <2>1
    <3> PICK e \in BOOLEAN :
            Goto(p, IF Windows THEN "cleanup" ELSE "begin",
                 [IdleJob EXCEPT !.op = o, !.image = v, !.elsewhere = e, !.policy = pol])
      BY DEF Start
    <3> DEFINE j == [IdleJob EXCEPT !.op = o, !.image = v, !.elsewhere = e, !.policy = pol]
    <3>1. o \in AllOps /\ pol \in PolicySpace
      BY OpsAssumption, PolicyAssumption
    <3>2. j \in Jobs /\ j.op = o
      BY <3>1, IdleJobType DEF Jobs
    <3>3. Goto(p, IF Windows THEN "cleanup" ELSE "begin", j)
      OBVIOUS
    <3> HIDE DEF j
    <3> QED BY <3>2, <3>3, GotoType DEF Start, Steps
  <2>2. CASE Decline(p)
    BY <1>0, <2>0, <2>2, ReturnType, Values DEF Decline, OpKept
  <2>3. CASE \E v \in Versions, force \in BOOLEAN,
                  asked \in {"none", "stable", "latest", "exact"} : BeginUpdate(p, asked, force, v)
    BY <1>0, <2>0, <2>3, GotoFrame, Values DEF BeginUpdate, OpKept, ChooseChannel
  <2>4. CASE \E v \in Versions, force \in BOOLEAN : BeginInstall(p, force, v)
    BY <1>0, <2>0, <2>4, GotoFrame, Values DEF BeginInstall, OpKept
  <2>5. CASE \E v \in Versions : BeginUpdateFrom(p, v)
    BY <1>0, <2>0, <2>5, GotoFrame, Values DEF BeginUpdateFrom, OpKept
  <2>6. CASE BeginRollback(p)
    BY <1>0, <2>0, <2>6, GotoFrame, Values DEF BeginRollback, OpKept
  <2>7. CASE BeginUninstall(p)
    BY <1>0, <2>0, <2>7, GotoFrame, Values DEF BeginUninstall, OpKept
  <2>8. CASE Create(p)
    BY <1>0, <2>0, <2>8, GotoFrame, Values, ProcsAssumption DEF Create, OpKept, TypeOK
  <2>9. CASE Stat(p)
    BY <1>0, <2>0, <2>9, GotoFrame, ReturnType, Values DEF Stat, OpKept
  <2>10. CASE Break(p)
    BY <1>0, <2>0, <2>10, GotoFrame, ReturnType, Values DEF Break, OpKept
  <2>11. CASE StartupCleanup(p)
    BY <1>0, <2>0, <2>11, GotoFrame, Values DEF StartupCleanup, OpKept
  <2>12. CASE \E force \in BOOLEAN : Stage(p, force)
    BY <1>0, <2>0, <2>12, GotoFrame, Values DEF Stage, OpKept
  <2>13. CASE StageFails(p)
    BY <1>0, <2>0, <2>13, LeaveType, Values DEF StageFails, OpKept
  <2>14. CASE Keep(p)
    BY <1>0, <2>0, <2>14, GotoFrame, LeaveType, Values DEF Keep, OpKept
  <2>15. CASE Kept(p)
    BY <1>0, <2>0, <2>15, GotoFrame, Values DEF Kept, OpKept
  <2>16. CASE Hold(p)
    BY <1>0, <2>0, <2>16, GotoFrame, LeaveType, Values DEF Hold, OpKept
  <2>17. CASE Place(p)
    BY <1>0, <2>0, <2>17, GotoFrame, LeaveType, Values DEF Place, OpKept, PlaceFailed
  <2>18. CASE Swap(p)
    BY <1>0, <2>0, <2>18, GotoFrame, Values DEF Swap, OpKept, Placed
  <2>19. CASE SwapFails(p)
    BY <1>0, <2>0, <2>19, LeaveType, Values DEF SwapFails, OpKept, PlaceFailed
  <2>20. CASE Park(p)
    BY <1>0, <2>0, <2>20, GotoFrame, Values DEF Park, OpKept
  <2>21. CASE SwapIn(p)
    BY <1>0, <2>0, <2>21, GotoFrame, Values DEF SwapIn, OpKept
  <2>22. CASE SwapInFails(p)
    BY <1>0, <2>0, <2>22, LeaveType, Values DEF SwapInFails, OpKept, PlaceFailed
  <2>23. CASE Unpark(p)
    BY <1>0, <2>0, <2>23, GotoFrame, Values DEF Unpark, OpKept, Placed
  <2>24. CASE PutBack(p)
    BY <1>0, <2>0, <2>24, GotoFrame, LeaveType, Values DEF PutBack, OpKept
  <2>25. CASE Save(p)
    BY <1>0, <2>0, <2>25, LeaveType, Values DEF Save, OpKept
  <2>26. CASE Fails(p)
    BY <1>0, <2>0, <2>26, ReturnType, LeaveType, Values DEF Fails, OpKept
  <2>27. CASE Drop(p)
    BY <1>0, <2>0, <2>27, ReturnType, Values, ProcsAssumption DEF Drop, OpKept, NoLock
  <2>28. CASE RemovePrev(p)
    BY <1>0, <2>0, <2>28, GotoFrame, Values DEF RemovePrev, OpKept
  <2>29. CASE RemoveStale(p)
    BY <1>0, <2>0, <2>29, GotoFrame, Values DEF RemoveStale, OpKept
  <2>30. CASE RemoveReceipt(p)
    BY <1>0, <2>0, <2>30, GotoFrame, Values DEF RemoveReceipt, OpKept
  <2>31. CASE RemoveBinary(p)
    BY <1>0, <2>0, <2>31, ReturnType, Values DEF RemoveBinary, OpKept
  <2>32. CASE Crash(p)
    BY <1>0, <2>0, <2>32, ReturnType, Values DEF Crash, OpKept
  <2> QED BY <1>1, <2>1, <2>2, <2>3, <2>4, <2>5, <2>6, <2>7, <2>8, <2>9, <2>10, <2>11, <2>12, <2>13, <2>14, <2>15, <2>16, <2>17, <2>18, <2>19, <2>20, <2>21, <2>22, <2>23, <2>24, <2>25, <2>26, <2>27, <2>28, <2>29, <2>30, <2>31, <2>32 DEF Begin, Acquire, Work
<1>2. CASE Age
  BY <1>2 DEF Age
<1>3. CASE Release
  BY <1>3 DEF Release
<1>4. CASE UNCHANGED vars
  BY <1>4 DEF vars
<1> QED BY <1>1, <1>2, <1>3, <1>4 DEF Next

(* And so in every state.                                                  *)
LEMMA LockAlways ==
    ASSUME Ageing = "none", "uninstall" \notin Ops
    PROVE  Spec => [](TypeOK /\ LockInv)
<1>1. Init => TypeOK
  BY TypeInit
<1>2. Init => LockInv
  BY Values DEF Init, LockInv, Holding, NoLock
<1>3. TypeOK /\ LockInv /\ [Next]_vars => (TypeOK /\ LockInv)'
  BY TypeStep, LockStep
<1> QED BY <1>1, <1>2, <1>3, PTL DEF Spec

(* update, rollback and install --from exclude each other, however many    *)
(* processes are started, killed or fail, as long as no lock is taken for  *)
(* stale and no uninstall removes it.                                      *)
THEOREM LockExcludes ==
    ASSUME Ageing = "none", "uninstall" \notin Ops
    PROVE  Spec => []OneUpdateAtATime
<1>1. TypeOK /\ LockInv => OneUpdateAtATime
  BY DEF LockInv, MutualExclusion, OneUpdateAtATime
<1> QED BY <1>1, LockAlways, PTL

----------------------------------------------------------------------------
(* On Unix nobody parks the binary to replace it.                          *)
UnixInv == \A p \in Procs : pc[p] \notin {"swapIn", "unpark"}

(* It stays so, and a step that empties the path is uninstall's.           *)
LEMMA UnixStep ==
    ASSUME ~Windows, TypeOK, UnixInv, [Next]_vars
    PROVE  UnixInv' /\ Stays
<1> USE DEF UnixInv, Stays
<1>0. TypeOK' /\ OpKept
  BY TypeStep
<1>1. ASSUME NEW p \in Procs,
             \/ \E o \in Ops, v \in Versions, pol \in Policies : Start(p, o, v, pol)
             \/ Decline(p) \/ Begin(p) \/ Acquire(p) \/ Work(p) \/ Crash(p)
      PROVE  UnixInv' /\ Stays
  <2>0. job[p] \in Jobs /\ pc[p] \in Steps
    BY DEF TypeOK
  <2>1. CASE \E o \in Ops, v \in Versions, pol \in Policies : Start(p, o, v, pol)
    <3> PICK o \in Ops, v \in Versions, pol \in Policies : Start(p, o, v, pol)
      BY <2>1
    <3> PICK e \in BOOLEAN :
            Goto(p, IF Windows THEN "cleanup" ELSE "begin",
                 [IdleJob EXCEPT !.op = o, !.image = v, !.elsewhere = e, !.policy = pol])
      BY DEF Start
    <3> DEFINE j == [IdleJob EXCEPT !.op = o, !.image = v, !.elsewhere = e, !.policy = pol]
    <3>1. o \in AllOps /\ pol \in PolicySpace
      BY OpsAssumption, PolicyAssumption
    <3>2. j \in Jobs /\ j.op = o
      BY <3>1, IdleJobType DEF Jobs
    <3>3. Goto(p, IF Windows THEN "cleanup" ELSE "begin", j)
      OBVIOUS
    <3> HIDE DEF j
    <3> QED BY <3>2, <3>3, GotoType DEF Start, Steps, files
  <2>2. CASE Decline(p)
    BY <1>0, <2>0, <2>2, ReturnType, Values DEF Decline, OpKept, files
  <2>3. CASE \E v \in Versions, force \in BOOLEAN,
                  asked \in {"none", "stable", "latest", "exact"} : BeginUpdate(p, asked, force, v)
    BY <1>0, <2>0, <2>3, GotoFrame, Values DEF BeginUpdate, OpKept, files, ChooseChannel
  <2>4. CASE \E v \in Versions, force \in BOOLEAN : BeginInstall(p, force, v)
    BY <1>0, <2>0, <2>4, GotoFrame, Values DEF BeginInstall, OpKept, files
  <2>5. CASE \E v \in Versions : BeginUpdateFrom(p, v)
    BY <1>0, <2>0, <2>5, GotoFrame, Values DEF BeginUpdateFrom, OpKept, files
  <2>6. CASE BeginRollback(p)
    BY <1>0, <2>0, <2>6, GotoFrame, Values DEF BeginRollback, OpKept, files
  <2>7. CASE BeginUninstall(p)
    BY <1>0, <2>0, <2>7, GotoFrame, Values DEF BeginUninstall, OpKept, files
  <2>8. CASE Create(p)
    BY <1>0, <2>0, <2>8, GotoFrame, Values DEF Create, OpKept, files
  <2>9. CASE Stat(p)
    BY <1>0, <2>0, <2>9, GotoFrame, ReturnType, Values DEF Stat, OpKept, files
  <2>10. CASE Break(p)
    BY <1>0, <2>0, <2>10, GotoFrame, ReturnType, Values DEF Break, OpKept, files
  <2>11. CASE StartupCleanup(p)
    BY <1>0, <2>0, <2>11, GotoFrame, Values DEF StartupCleanup, OpKept, files
  <2>12. CASE \E force \in BOOLEAN : Stage(p, force)
    BY <1>0, <2>0, <2>12, GotoFrame, Values DEF Stage, OpKept, files
  <2>13. CASE StageFails(p)
    BY <1>0, <2>0, <2>13, LeaveType, Values DEF StageFails, OpKept, files, Locks
  <2>14. CASE Keep(p)
    BY <1>0, <2>0, <2>14, GotoFrame, LeaveType, Values DEF Keep, OpKept, files, Locks
  <2>15. CASE Kept(p)
    BY <1>0, <2>0, <2>15, GotoFrame, Values DEF Kept, OpKept, files
  <2>16. CASE Hold(p)
    BY <1>0, <2>0, <2>16, GotoFrame, LeaveType, Values DEF Hold, OpKept, files, Locks
  <2>17. CASE Place(p)
    BY <1>0, <2>0, <2>17, GotoFrame, LeaveType, Values DEF Place, OpKept, files, PlaceFailed, Locks
  <2>18. CASE Swap(p)
    BY <1>0, <2>0, <2>18, GotoFrame, Values DEF Swap, OpKept, files, Placed
  <2>19. CASE SwapFails(p)
    BY <1>0, <2>0, <2>19, LeaveType, Values DEF SwapFails, OpKept, files, PlaceFailed, Locks
  <2>20. CASE Park(p)
    BY <1>0, <2>0, <2>20, GotoFrame, Values DEF Park, OpKept, files
  <2>21. CASE SwapIn(p)
    BY <1>0, <2>0, <2>21, GotoFrame, Values DEF SwapIn, OpKept, files
  <2>22. CASE SwapInFails(p)
    BY <1>0, <2>0, <2>22, LeaveType, Values DEF SwapInFails, OpKept, files, PlaceFailed, Locks
  <2>23. CASE Unpark(p)
    BY <1>0, <2>0, <2>23, GotoFrame, Values DEF Unpark, OpKept, files, Placed
  <2>24. CASE PutBack(p)
    BY <1>0, <2>0, <2>24, GotoFrame, LeaveType, Values DEF PutBack, OpKept, files, Locks
  <2>25. CASE Save(p)
    BY <1>0, <2>0, <2>25, LeaveType, Values DEF Save, OpKept, files, Locks
  <2>26. CASE Fails(p)
    BY <1>0, <2>0, <2>26, ReturnType, LeaveType, Values DEF Fails, OpKept, files, Locks
  <2>27. CASE Drop(p)
    BY <1>0, <2>0, <2>27, ReturnType, Values DEF Drop, OpKept, files
  <2>28. CASE RemovePrev(p)
    BY <1>0, <2>0, <2>28, GotoFrame, Values DEF RemovePrev, OpKept, files
  <2>29. CASE RemoveStale(p)
    BY <1>0, <2>0, <2>29, GotoFrame, Values DEF RemoveStale, OpKept, files
  <2>30. CASE RemoveReceipt(p)
    BY <1>0, <2>0, <2>30, GotoFrame, Values DEF RemoveReceipt, OpKept, files
  <2>31. CASE RemoveBinary(p)
    BY <1>0, <2>0, <2>31, ReturnType, Values DEF RemoveBinary, OpKept, files
  <2>32. CASE Crash(p)
    BY <1>0, <2>0, <2>32, ReturnType, Values DEF Crash, OpKept, files
  <2> QED BY <1>1, <2>1, <2>2, <2>3, <2>4, <2>5, <2>6, <2>7, <2>8, <2>9, <2>10, <2>11, <2>12, <2>13, <2>14, <2>15, <2>16, <2>17, <2>18, <2>19, <2>20, <2>21, <2>22, <2>23, <2>24, <2>25, <2>26, <2>27, <2>28, <2>29, <2>30, <2>31, <2>32 DEF Begin, Acquire, Work
<1>2. CASE Age
  BY <1>2 DEF Age, files
<1>3. CASE Release
  BY <1>3 DEF Release, files
<1>4. CASE UNCHANGED vars
  BY <1>4 DEF vars, files
<1> QED BY <1>1, <1>2, <1>3, <1>4 DEF Next

(* place_binary on Unix replaces the binary in one rename: once there is   *)
(* one, no crash, failure, stale lock or race of updates, rollbacks and    *)
(* installs makes it disappear; uninstall alone does.                      *)
THEOREM BinaryStays ==
    ASSUME ~Windows
    PROVE  Spec => NeverTakenAway
<1>1. Init => TypeOK /\ UnixInv
  BY TypeInit, Values DEF Init, UnixInv
<1>2. TypeOK /\ UnixInv /\ [Next]_vars => (TypeOK /\ UnixInv)'
  BY TypeStep, UnixStep
<1>3. TypeOK /\ UnixInv /\ [Next]_vars => [Stays]_dest
  BY UnixStep
<1> QED BY <1>1, <1>2, <1>3, PTL DEF Spec, NeverTakenAway

----------------------------------------------------------------------------
(* Without crashes and failures no half-written file becomes the binary.   *)
LEMMA WholeStep ==
    ASSUME Ageing = "none", "uninstall" \notin Ops, ~Faults, MaxCrashes = 0,
           TypeOK, LockInv, WholeInv, [Next]_vars
    PROVE  WholeInv'
<1> USE DEF WholeInv
<1>0. TypeOK' /\ OpKept
  BY TypeStep
<1>1. ASSUME NEW p \in Procs,
             \/ \E o \in Ops, v \in Versions, pol \in Policies : Start(p, o, v, pol)
             \/ Decline(p) \/ Begin(p) \/ Acquire(p) \/ Work(p) \/ Crash(p)
      PROVE  WholeInv'
  <2>0. job[p] \in Jobs /\ pc[p] \in Steps /\ job[p].target \in MaybeVersion
    BY DEF TypeOK, Jobs
  <2>1. CASE \E o \in Ops, v \in Versions, pol \in Policies : Start(p, o, v, pol)
    <3> PICK o \in Ops, v \in Versions, pol \in Policies : Start(p, o, v, pol)
      BY <2>1
    <3> PICK e \in BOOLEAN :
            Goto(p, IF Windows THEN "cleanup" ELSE "begin",
                 [IdleJob EXCEPT !.op = o, !.image = v, !.elsewhere = e, !.policy = pol])
      BY DEF Start
    <3> DEFINE j == [IdleJob EXCEPT !.op = o, !.image = v, !.elsewhere = e, !.policy = pol]
    <3>1. o \in AllOps /\ pol \in PolicySpace
      BY OpsAssumption, PolicyAssumption
    <3>2. j \in Jobs /\ j.op = o
      BY <3>1, IdleJobType DEF Jobs
    <3>3. Goto(p, IF Windows THEN "cleanup" ELSE "begin", j)
      OBVIOUS
    <3> HIDE DEF j
    <3> QED BY <1>0, <3>2, <3>3, GotoType DEF Start, Steps, files, OpKept
  <2>2. CASE Decline(p)
    BY <1>0, <2>0, <2>2, ReturnType, Values DEF Decline, OpKept, files, TypeOK
  <2>3. CASE \E v \in Versions, force \in BOOLEAN,
                  asked \in {"none", "stable", "latest", "exact"} : BeginUpdate(p, asked, force, v)
    BY <1>0, <2>0, <2>3, GotoFrame, Values DEF BeginUpdate, OpKept, files, ChooseChannel, TypeOK
  <2>4. CASE \E v \in Versions, force \in BOOLEAN : BeginInstall(p, force, v)
    BY <1>0, <2>0, <2>4, GotoFrame, Values DEF BeginInstall, OpKept, files, TypeOK
  <2>5. CASE \E v \in Versions : BeginUpdateFrom(p, v)
    BY <1>0, <2>0, <2>5, GotoFrame, Values DEF BeginUpdateFrom, OpKept, files, TypeOK
  <2>6. CASE BeginRollback(p)
    BY <1>0, <2>0, <2>6, GotoFrame, Values DEF BeginRollback, OpKept, files, TypeOK
  <2>7. CASE BeginUninstall(p)
    BY <1>0, <2>0, <2>7, GotoFrame, Values DEF BeginUninstall, OpKept, files, TypeOK
  <2>8. CASE Create(p)
    BY <1>0, <2>0, <2>8, GotoFrame, Values DEF Create, OpKept, files, TypeOK
  <2>9. CASE Stat(p)
    BY <1>0, <2>0, <2>9, GotoFrame, ReturnType, Values DEF Stat, OpKept, files, TypeOK
  <2>10. CASE Break(p)
    BY <1>0, <2>0, <2>10, GotoFrame, ReturnType, Values DEF Break, OpKept, files, TypeOK
  <2>11. CASE StartupCleanup(p)
    BY <1>0, <2>0, <2>11, GotoFrame, Values DEF StartupCleanup, OpKept, files, TypeOK
  <2>12. CASE \E force \in BOOLEAN : Stage(p, force)
    BY <1>0, <2>0, <2>12, GotoFrame, Values DEF Stage, OpKept, files, TypeOK
  <2>13. CASE StageFails(p)
    BY <1>0, <2>0, <2>13, LeaveType, Values DEF StageFails, OpKept, files, TypeOK, Locks
  <2>14. CASE Keep(p)
    BY <1>0, <2>0, <2>14, GotoFrame, LeaveType, Values DEF Keep, OpKept, files, TypeOK, Locks
  <2>15. CASE Kept(p)
    BY <1>0, <2>0, <2>15, GotoFrame, Values DEF Kept, OpKept, files, TypeOK
  <2>16. CASE Hold(p)
    BY <1>0, <2>0, <2>16, GotoFrame, LeaveType, Values DEF Hold, OpKept, files, TypeOK, Locks
  <2>17. CASE Place(p)
    <3>1. job[p].op = "rollback" => prev # Torn
      <4> SUFFICES ASSUME job[p].op = "rollback", prev = Torn PROVE FALSE
        OBVIOUS
      <4> PICK q \in Procs : pc[q] = "keeping"
        OBVIOUS
      <4>1. Holding(p) /\ Holding(q)
        BY <2>17 DEF Place, Holding, LockInv, Locks
      <4> QED BY <2>17, <4>1 DEF Place, LockInv
    <3>2. job[p].target # Torn
      BY <2>0 DEF MaybeVersion, Versions
    <3>3. \A q \in Procs : tmp'[q] # Torn /\ hold'[q] # Torn
      BY <2>17, <3>1, <3>2 DEF Place, PlaceFailed, TypeOK
    <3>4. \A q \in Procs : pc[q] = "keeping" => pc'[q] = "keeping"
      BY <2>17, GotoFrame, LeaveType DEF Place, PlaceFailed
    <3>5. prev' \in {prev, Missing} /\ UNCHANGED <<dest, old>>
      BY <2>17 DEF Place
    <3> QED BY <1>0, <3>3, <3>4, <3>5 DEF OpKept
  <2>18. CASE Swap(p)
    BY <1>0, <2>0, <2>18, GotoFrame, Values DEF Swap, OpKept, files, Placed, TypeOK
  <2>19. CASE SwapFails(p)
    BY <1>0, <2>0, <2>19, LeaveType, Values DEF SwapFails, OpKept, files, PlaceFailed, TypeOK, Locks
  <2>20. CASE Park(p)
    BY <1>0, <2>0, <2>20, GotoFrame, Values DEF Park, OpKept, files, TypeOK
  <2>21. CASE SwapIn(p)
    BY <1>0, <2>0, <2>21, GotoFrame, Values DEF SwapIn, OpKept, files, TypeOK
  <2>22. CASE SwapInFails(p)
    BY <1>0, <2>0, <2>22, LeaveType, Values DEF SwapInFails, OpKept, files, PlaceFailed, TypeOK, Locks
  <2>23. CASE Unpark(p)
    BY <1>0, <2>0, <2>23, GotoFrame, Values DEF Unpark, OpKept, files, Placed, TypeOK
  <2>24. CASE PutBack(p)
    BY <1>0, <2>0, <2>24, GotoFrame, LeaveType, Values DEF PutBack, OpKept, files, TypeOK, Locks
  <2>25. CASE Save(p)
    BY <1>0, <2>0, <2>25, LeaveType, Values DEF Save, OpKept, files, TypeOK, Locks
  <2>26. CASE Fails(p)
    BY <1>0, <2>0, <2>26, ReturnType, LeaveType, Values DEF Fails, OpKept, files, TypeOK, Locks
  <2>27. CASE Drop(p)
    BY <1>0, <2>0, <2>27, ReturnType, Values DEF Drop, OpKept, files, TypeOK
  <2>28. CASE RemovePrev(p)
    BY <2>28 DEF RemovePrev, LockInv
  <2>29. CASE RemoveStale(p)
    BY <2>29 DEF RemoveStale, LockInv
  <2>30. CASE RemoveReceipt(p)
    BY <2>30 DEF RemoveReceipt, LockInv
  <2>31. CASE RemoveBinary(p)
    BY <2>31 DEF RemoveBinary, LockInv
  <2>32. CASE Crash(p)
    BY <1>0, <2>0, <2>32, ReturnType, Values, CrashAssumption DEF Crash, OpKept, files, TypeOK
  <2> QED BY <1>1, <2>1, <2>2, <2>3, <2>4, <2>5, <2>6, <2>7, <2>8, <2>9, <2>10, <2>11, <2>12, <2>13, <2>14, <2>15, <2>16, <2>17, <2>18, <2>19, <2>20, <2>21, <2>22, <2>23, <2>24, <2>25, <2>26, <2>27, <2>28, <2>29, <2>30, <2>31, <2>32 DEF Begin, Acquire, Work
<1>2. CASE Age
  BY <1>2 DEF Age, files
<1>3. CASE Release
  BY <1>3 DEF Release, files
<1>4. CASE UNCHANGED vars
  BY <1>4 DEF vars, files
<1> QED BY <1>1, <1>2, <1>3, <1>4 DEF Next

(* place_binary never leaves a half-written executable: the lock keeps     *)
(* rollback away from the .prev copy while an update is writing it.        *)
THEOREM BinaryIsWhole ==
    ASSUME Ageing = "none", "uninstall" \notin Ops, ~Faults, MaxCrashes = 0
    PROVE  Spec => []NeverHalfWritten
<1>1. Init => WholeInv
  BY Values, VersionAssumption DEF Init, WholeInv, Versions
<1>2. TypeOK /\ LockInv /\ WholeInv /\ [Next]_vars => WholeInv'
  BY WholeStep
<1>3. WholeInv => NeverHalfWritten
  BY DEF WholeInv, InstalledIsWhole, NeverHalfWritten
<1> QED BY <1>1, <1>2, <1>3, LockAlways, PTL DEF Spec

----------------------------------------------------------------------------
(* What an operation under the lock has done to the files since it took    *)
(* it, when no other process touches them.                                 *)

Updates == {"update", "updateFrom"}
Swapping == {"swap", "swapIn"}

Undo(p) ==
    LET s == pc[p]  j == job[p] IN
    /\ s = "stage" => j.op \in Updates \cup {"installFrom"}
    /\ s \in {"hold", "putBack"} => j.op = "rollback"
    /\ s \in {"keep", "keeping"} => j.op \in Updates
    /\ s \in {"stage", "hold"} => dest = j.before[1] /\ prev = j.before[2]
    /\ s \in {"keep", "keeping"} => dest = j.before[1]
    /\ s = "keeping" => j.copied = dest /\ prev = Torn
    /\ j.op # "rollback" /\ s \in Swapping => tmp[p] = j.target
    /\ j.op \in Updates \cup {"installFrom"} =>
          /\ s \in {"unpark", "save"} => dest = j.target
          /\ s = "swapIn" => dest = Missing
    /\ j.op \in Updates =>
          /\ s \in {"place", "swap", "swapIn", "unpark", "save"} => prev = j.before[1]
          /\ s \in {"place", "swap"} => dest = j.before[1]
    /\ j.op = "installFrom" /\ s \in {"place", "swap", "swapIn", "unpark", "save"} => prev = j.before[2]
    /\ j.op = "rollback" =>
          /\ s = "place" => dest = j.before[1] /\ prev = j.before[2]
          /\ s \in {"place", "swap", "swapIn", "unpark", "putBack"} => hold[p] = j.before[1]
          /\ s \in Swapping => tmp[p] = j.before[2]
          /\ s \in {"unpark", "putBack", "save"} => dest = j.before[2]
          /\ s = "save" => prev = j.before[1]

UndoInv == \A p \in Procs : Undo(p)

(* What the receipt r says of the binary d and of the copy v kept of the   *)
(* one before.                                                             *)
Describes(r, d, v) ==
    /\ d \in MaybeVersion /\ v \in MaybeVersion
    /\ r = NoReceipt => v = Missing
    /\ r # NoReceipt => r.version = d /\ (v # Missing => r.previous = v)

(* What a process has decided once it is past its checks.                  *)
Chosen(j) ==
    /\ j.op \in Updates \cup {"rollback"} => ~j.elsewhere /\ j.receipt # NoReceipt
    /\ j.op \in Updates \cup {"install", "installFrom"} => j.target \in Versions
    /\ j.op = "install" /\ ~j.elsewhere => j.target = j.image
    /\ j.op = "update" => /\ j.policy.minimum <= j.target
                          /\ j.channel # "exact" => j.image <= j.target
    /\ j.op = "rollback" => /\ j.receipt.previous # Missing
                            /\ j.policy.minimum <= j.receipt.previous

Working == {"stage", "keep", "keeping", "hold", "place", "swap", "swapIn", "unpark", "putBack", "save"}

(* A process that works alone knows the receipt and the files.             *)
Alone(p) ==
    LET s == pc[p]  j == job[p] IN
    /\ s # "idle" => j.op \in AllOps \ {"unmanaged"}
    /\ s \in {"idle", "cleanup", "begin", "lock", "stat", "break", "drop", "unPrev"}
          => Describes(receipt, dest, prev)
    /\ s \in {"cleanup", "begin", "lock", "stat", "break"} /\ ~j.elsewhere => dest = j.image
    /\ s \in {"lock", "stat", "break"} => Locks(j.op)
    /\ s \in {"lock", "stat", "break"} \cup Working =>
          /\ j.op # "uninstall" /\ Chosen(j) /\ j.receipt = receipt
          /\ j.op = "rollback" /\ s \in {"lock", "stat", "break"} => prev # Missing
    /\ s \in Working /\ Locks(j.op) =>
          /\ Describes(receipt, j.before[1], j.before[2])
          /\ j.op \in Updates \cup {"rollback"} => j.before[1] = j.image
          /\ j.op = "rollback" => j.before[2] # Missing
          /\ j.op = "updateFrom" /\ s # "stage" => j.policy.minimum <= j.target
    /\ s \in Working /\ j.op = "install" =>
          /\ s \in {"place", "swap", "swapIn", "unpark", "save"}
          /\ \E d \in MaybeVersion : Describes(receipt, d, prev)
          /\ s = "place" => Describes(receipt, dest, prev) /\ (~j.elsewhere => dest = j.image)
          /\ s \in {"unpark", "save"} => dest = j.target
    /\ s \in {"unStale", "unReceipt", "unBinary"} => prev = Missing
    /\ s = "unBinary" => receipt = NoReceipt

AloneInv == \A p \in Procs : Alone(p)

(* Without rollback only whole files are placed; a process that runs from  *)
(* the bin dir finds its executable there.                                 *)
CopyInv ==
    /\ dest \in MaybeVersion /\ old \subseteq Versions
    /\ \A p \in Procs :
          /\ tmp[p] \in MaybeVersion
          /\ pc[p] # "idle" => job[p].op # "rollback"
          /\ pc[p] = "cleanup" /\ ~job[p].elsewhere => dest \in Versions
          /\ pc[p] = "unpark" => dest \in Versions

----------------------------------------------------------------------------
(* What the changes to a process's record leave as it was.                 *)
Same(j, k) ==
    /\ k.op = j.op /\ k.image = j.image /\ k.elsewhere = j.elsewhere
    /\ k.policy = j.policy /\ k.receipt = j.receipt /\ k.channel = j.channel
    /\ k.target = j.target

(* The changes after the checks touch none of those fields.                *)
LEMMA SameFields ==
    ASSUME NEW j \in Jobs, NEW k,
           \/ k = j
           \/ \E f, g \in Content : k = [j EXCEPT !.before = <<f, g>>]
           \/ \E f \in Content : k = [j EXCEPT !.copied = f] \/ k = [j EXCEPT !.parked = f]
           \/ k = [j EXCEPT !.breaks = 1]
    PROVE  Same(j, k)
<1>1. /\ k.op = j.op /\ k.image = j.image /\ k.policy = j.policy /\ k.receipt = j.receipt
      /\ k.channel = j.channel /\ k.target = j.target
  BY DEF Jobs
<1>2. k.elsewhere = j.elsewhere
  BY Zenon DEF Jobs
<1> QED BY <1>1, <1>2 DEF Same

(* A step of process p keeps what p knows of the files.                    *)
LEMMA UndoStep ==
    ASSUME TypeOK, NEW p \in Procs, Undo(p),
           \/ \E o \in Ops, v \in Versions, pol \in Policies : Start(p, o, v, pol)
           \/ Decline(p) \/ Begin(p) \/ Acquire(p) \/ Work(p) \/ Crash(p),
           pc[p] \in {"lock", "stage", "keep", "keeping", "hold", "putBack"} => Locks(job[p].op),
           OpKept
    PROVE  Undo(p)'
<1>0. job[p] \in Jobs /\ pc[p] \in Steps
  BY DEF TypeOK
<1>q. ASSUME pc'[p] \notin Working
      PROVE  Undo(p)'
  BY <1>q DEF Undo, Working, Swapping
<1>1. CASE \E o \in Ops, v \in Versions, pol \in Policies : Start(p, o, v, pol)
  <2> PICK o \in Ops, v \in Versions, pol \in Policies : Start(p, o, v, pol)
    BY <1>1
  <2> PICK e \in BOOLEAN :
          Goto(p, IF Windows THEN "cleanup" ELSE "begin",
               [IdleJob EXCEPT !.op = o, !.image = v, !.elsewhere = e, !.policy = pol])
    BY DEF Start
  <2> PICK j : j = [IdleJob EXCEPT !.op = o, !.image = v, !.elsewhere = e, !.policy = pol]
    OBVIOUS
  <2>1. Goto(p, IF Windows THEN "cleanup" ELSE "begin", j)
    OBVIOUS
  <2> QED BY <1>q, <2>1, GotoFrame DEF Working
<1>2. CASE Decline(p)
  BY <1>2, <1>q, ReturnType DEF Decline, Working
<1>3. CASE \E v \in Versions, force \in BOOLEAN,
                asked \in {"none", "stable", "latest", "exact"} : BeginUpdate(p, asked, force, v)
  BY <1>3, <1>q, GotoFrame DEF BeginUpdate, Working
<1>4. CASE \E v \in Versions, force \in BOOLEAN : BeginInstall(p, force, v)
  <2>1. pc'[p] \in {"lock", "place"} /\ pc[p] = "begin"
    BY <1>4, GotoFrame DEF BeginInstall
  <2>2. pc'[p] = "place" => job'[p].op \in {"install", "unmanaged"}
    BY <1>4, <2>1, GotoFrame DEF BeginInstall, OpKept
  <2> QED BY <1>q, <2>1, <2>2 DEF Undo, Working, Swapping, Updates
<1>5. CASE \E v \in Versions : BeginUpdateFrom(p, v)
  BY <1>5, <1>q, GotoFrame DEF BeginUpdateFrom, Working
<1>6. CASE BeginRollback(p)
  BY <1>6, <1>q, GotoFrame DEF BeginRollback, Working
<1>7. CASE BeginUninstall(p)
  BY <1>7, <1>q, GotoFrame DEF BeginUninstall, Working
<1>8. CASE Create(p)
  <2>1. CASE Goto(p, "stat", job[p])
    BY <2>1, <1>q, GotoFrame DEF Working
  <2>2. CASE lock.owner = Free
    <3> PICK j : j = [job[p] EXCEPT !.before = <<dest, prev>>]
      OBVIOUS
    <3>1. Goto(p, IF job[p].op = "rollback" THEN "hold" ELSE "stage", j)
          /\ UNCHANGED files /\ pc[p] = "lock"
      BY <1>8, <2>2 DEF Create
    <3>2. j.op = job[p].op /\ j.before[1] = dest /\ j.before[2] = prev
      BY <1>0 DEF Jobs
    <3>3. job'[p] = j /\ pc'[p] = IF j.op = "rollback" THEN "hold" ELSE "stage"
      BY <3>1, <3>2 DEF Goto, TypeOK
    <3>4. Locks(j.op)
      BY <3>1, <3>2
    <3> QED BY <3>1, <3>2, <3>3, <3>4 DEF Undo, files, Updates, Locks, Swapping
  <2> QED BY <1>8, <2>1, <2>2 DEF Create
<1>9. CASE Stat(p)
  BY <1>9, <1>q, GotoFrame, ReturnType DEF Stat, Working
<1>10. CASE Break(p)
  BY <1>10, <1>q, GotoFrame, ReturnType DEF Break, Working
<1>11. CASE StartupCleanup(p)
  BY <1>11, <1>q, GotoFrame DEF StartupCleanup, Working
<1>12. CASE \E force \in BOOLEAN : Stage(p, force)
  <2>1. /\ pc[p] = "stage" /\ UNCHANGED files
        /\ Goto(p, IF job[p].op = "installFrom" THEN "place" ELSE "keep", job[p])
    BY <1>12 DEF Stage
  <2>2. job'[p] = job[p] /\ pc'[p] = IF job[p].op = "installFrom" THEN "place" ELSE "keep"
    BY <2>1 DEF Goto, TypeOK
  <2> QED BY <2>1, <2>2 DEF Undo, files, Updates, Swapping
<1>13. CASE StageFails(p)
  BY <1>13, <1>q, LeaveType DEF StageFails, Working
<1>14. CASE Keep(p)
  <2>1. CASE Leave(p)
    BY <2>1, <1>q, LeaveType DEF Working
  <2>2. CASE dest # Missing
    <3> PICK j : j = [job[p] EXCEPT !.copied = dest]
      OBVIOUS
    <3>1. pc[p] = "keep" /\ prev' = Torn /\ dest' = dest /\ Goto(p, "keeping", j)
      BY <1>14, <2>2 DEF Keep
    <3>2. j.op = job[p].op /\ j.copied = dest /\ j.before = job[p].before
      BY <1>0 DEF Jobs
    <3>3. job'[p] = j /\ pc'[p] = "keeping"
      BY <3>1 DEF Goto, TypeOK
    <3> QED BY <3>1, <3>2, <3>3 DEF Undo, Updates, Swapping
  <2> QED BY <1>14, <2>1, <2>2 DEF Keep
<1>15. CASE Kept(p)
  <2> PICK j : j = [job[p] EXCEPT !.copied = Missing]
    OBVIOUS
  <2>1. /\ pc[p] = "keeping" /\ UNCHANGED <<dest, old, tmp, hold>> /\ Goto(p, "place", j)
        /\ prev' = IF prev = Missing THEN Missing ELSE job[p].copied
    BY <1>15 DEF Kept
  <2>2. j.op = job[p].op /\ j.before = job[p].before /\ j.target = job[p].target
    BY <1>0 DEF Jobs
  <2>3. job'[p] = j /\ pc'[p] = "place"
    BY <2>1 DEF Goto, TypeOK
  <2> QED BY <2>1, <2>2, <2>3 DEF Undo, Updates, Swapping
<1>16. CASE Hold(p)
  <2>1. CASE Leave(p)
    BY <2>1, <1>q, LeaveType DEF Working
  <2>2. CASE dest # Missing
    <3>1. pc[p] = "hold" /\ hold' = [hold EXCEPT ![p] = dest] /\ Goto(p, "place", job[p])
          /\ UNCHANGED <<dest, prev, old, tmp>>
      BY <1>16, <2>2 DEF Hold
    <3>2. job'[p] = job[p] /\ pc'[p] = "place" /\ hold'[p] = dest
      BY <3>1 DEF Goto, TypeOK
    <3> QED BY <3>1, <3>2 DEF Undo, Updates, Swapping
  <2> QED BY <1>16, <2>1, <2>2 DEF Hold
<1>17. CASE Place(p)
  <2>0. pc[p] = "place" /\ dest' = dest
    BY <1>17 DEF Place
  <2>1. CASE Leave(p)
    BY <2>1, <1>q, LeaveType DEF Working
  <2>2. CASE /\ job[p].op \in Updates \cup {"installFrom", "install", "unmanaged"}
             /\ tmp' = [tmp EXCEPT ![p] = job[p].target]
             /\ Goto(p, "swap", job[p]) /\ UNCHANGED <<prev, hold>>
    <3>1. job'[p] = job[p] /\ pc'[p] = "swap" /\ tmp'[p] = job[p].target
      BY <2>2 DEF Goto, TypeOK
    <3> QED BY <2>0, <2>2, <3>1 DEF Undo, Updates, Swapping
  <2>3. CASE /\ job[p].op = "rollback" /\ tmp' = [tmp EXCEPT ![p] = prev]
             /\ Goto(p, "swap", job[p]) /\ UNCHANGED hold
    <3>1. job'[p] = job[p] /\ pc'[p] = "swap" /\ tmp'[p] = prev
      BY <2>3 DEF Goto, TypeOK
    <3> QED BY <2>0, <2>3, <3>1 DEF Undo, Updates, Swapping
  <2>4. CASE /\ job[p].op \in {"install", "unmanaged"} /\ Goto(p, "save", job[p])
    <3>1. job'[p] = job[p] /\ pc'[p] = "save"
      BY <2>4 DEF Goto, TypeOK
    <3> QED BY <2>0, <2>4, <3>1 DEF Undo, Updates, Swapping
  <2> QED BY <1>17, <2>1, <2>2, <2>3, <2>4 DEF Place, PlaceFailed, Updates
<1>18. CASE Swap(p)
  <2>1. /\ pc[p] = "swap" /\ dest' = tmp[p] /\ UNCHANGED <<prev, old, hold>>
        /\ Goto(p, IF job[p].op = "rollback" THEN "putBack" ELSE "save", job[p])
    BY <1>18 DEF Swap, Placed
  <2>2. job'[p] = job[p] /\ pc'[p] = IF job[p].op = "rollback" THEN "putBack" ELSE "save"
    BY <2>1 DEF Goto, TypeOK
  <2> QED BY <2>1, <2>2 DEF Undo, Updates, Swapping
<1>19. CASE SwapFails(p)
  BY <1>19, <1>q, LeaveType DEF SwapFails, PlaceFailed, Working
<1>20. CASE Park(p)
  <2> PICK j : j = [job[p] EXCEPT !.parked = dest]
    OBVIOUS
  <2>1. pc[p] = "swap" /\ dest' = Missing /\ UNCHANGED <<prev, tmp, hold>> /\ Goto(p, "swapIn", j)
    BY <1>20 DEF Park
  <2>2. j.op = job[p].op /\ j.before = job[p].before /\ j.target = job[p].target
    BY <1>0 DEF Jobs
  <2>3. job'[p] = j /\ pc'[p] = "swapIn"
    BY <2>1 DEF Goto, TypeOK
  <2> QED BY <2>1, <2>2, <2>3 DEF Undo, Updates, Swapping
<1>21. CASE SwapIn(p)
  <2>1. /\ pc[p] = "swapIn" /\ dest' = tmp[p] /\ UNCHANGED <<prev, old, hold>>
        /\ Goto(p, "unpark", job[p])
    BY <1>21 DEF SwapIn
  <2>2. job'[p] = job[p] /\ pc'[p] = "unpark"
    BY <2>1 DEF Goto, TypeOK
  <2> QED BY <2>1, <2>2 DEF Undo, Updates, Swapping
<1>22. CASE SwapInFails(p)
  BY <1>22, <1>q, LeaveType DEF SwapInFails, PlaceFailed, Working
<1>23. CASE Unpark(p)
  <2>1. /\ pc[p] = "unpark" /\ UNCHANGED <<dest, prev, tmp, hold>>
        /\ Goto(p, IF job[p].op = "rollback" THEN "putBack" ELSE "save", job[p])
    BY <1>23 DEF Unpark, Placed
  <2>2. job'[p] = job[p] /\ pc'[p] = IF job[p].op = "rollback" THEN "putBack" ELSE "save"
    BY <2>1 DEF Goto, TypeOK
  <2> QED BY <2>1, <2>2 DEF Undo, Updates, Swapping
<1>24. CASE PutBack(p)
  <2>1. CASE Leave(p)
    BY <2>1, <1>q, LeaveType DEF Working
  <2>2. CASE /\ prev' = hold[p] /\ Goto(p, "save", job[p])
    <3>1. pc[p] = "putBack" /\ UNCHANGED <<dest, old, tmp>> /\ job'[p] = job[p] /\ pc'[p] = "save"
      BY <1>24, <2>2 DEF PutBack, Goto, TypeOK
    <3> QED BY <2>2, <3>1 DEF Undo, Updates, Swapping
  <2> QED BY <1>24, <2>1, <2>2 DEF PutBack
<1>25. CASE Save(p)
  BY <1>25, <1>q, LeaveType DEF Save, Working
<1>26. CASE Fails(p)
  BY <1>26, <1>q, LeaveType, ReturnType DEF Fails, Working
<1>27. CASE Drop(p)
  BY <1>27, <1>q, ReturnType DEF Drop, Working
<1>28. CASE RemovePrev(p)
  BY <1>28, <1>q, GotoFrame DEF RemovePrev, Working
<1>29. CASE RemoveStale(p)
  BY <1>29, <1>q, GotoFrame DEF RemoveStale, Working
<1>30. CASE RemoveReceipt(p)
  BY <1>30, <1>q, GotoFrame DEF RemoveReceipt, Working
<1>31. CASE RemoveBinary(p)
  BY <1>31, <1>q, ReturnType DEF RemoveBinary, Working
<1>32. CASE Crash(p)
  BY <1>32, <1>q, ReturnType DEF Crash, Working
<1> QED BY <1>1, <1>2, <1>3, <1>4, <1>5, <1>6, <1>7, <1>8, <1>9, <1>10, <1>11, <1>12, <1>13,
           <1>14, <1>15, <1>16, <1>17, <1>18, <1>19, <1>20, <1>21, <1>22, <1>23, <1>24, <1>25,
           <1>26, <1>27, <1>28, <1>29, <1>30, <1>31, <1>32 DEF Begin, Acquire, Work

----------------------------------------------------------------------------
(* A step of one process. *)
Acts(p) ==
    \/ \E o \in Ops, v \in Versions, pol \in Policies : Start(p, o, v, pol)
    \/ Decline(p) \/ Begin(p) \/ Acquire(p) \/ Work(p) \/ Crash(p)

(* It leaves the others' steps and data alone.                             *)
LEMMA OthersStay ==
    ASSUME TypeOK, NEW p \in Procs, Acts(p)
    PROVE  \A q \in Procs \ {p} : pc'[q] = pc[q] /\ job'[q] = job[q]
<1>1. ASSUME \E o \in Ops, v \in Versions, pol \in Policies : Start(p, o, v, pol)
      PROVE  \E step, j : Goto(p, step, j)
  BY <1>1 DEF Start
<1>2. ASSUME Decline(p) \/ Crash(p) \/ Drop(p) \/ RemoveBinary(p)
      PROVE  Return(p)
  BY <1>2 DEF Decline, Crash, Drop, RemoveBinary
<1>3. ASSUME Begin(p)
      PROVE  \E step, j : Goto(p, step, j)
  BY <1>3 DEF Begin, BeginUpdate, BeginInstall, BeginUpdateFrom, BeginRollback, BeginUninstall
<1>4. ASSUME Acquire(p)
      PROVE  Return(p) \/ \E step, j : Goto(p, step, j)
  BY <1>4 DEF Acquire, Create, Stat, Break
<1>5. ASSUME Work(p)
      PROVE  Leave(p) \/ Return(p) \/ \E step, j : Goto(p, step, j)
  BY <1>5 DEF Work, StartupCleanup, Stage, StageFails, Keep, Kept, Hold, Place, PlaceFailed,
     Swap, SwapFails, Park, SwapIn, SwapInFails, Unpark, Placed, PutBack, Save, Fails, Drop,
     RemovePrev, RemoveStale, RemoveReceipt, RemoveBinary
<1>6. Leave(p) \/ Return(p) \/ \E step, j : Goto(p, step, j)
  BY <1>1, <1>2, <1>3, <1>4, <1>5 DEF Acts
<1> QED BY <1>6, GotoFrame, LeaveType, ReturnType

(* Whoever is not past the lock leaves the files alone, if every operation *)
(* takes the lock.                                                         *)
LEMMA Bystander ==
    ASSUME TypeOK, NEW p \in Procs, Acts(p), ~Holding(p),
           pc[p] # "idle" => Locks(job[p].op),
           pc[p] \notin {"unPrev", "unStale", "unReceipt", "unBinary"}
    PROVE  UNCHANGED <<dest, prev, tmp, hold>>
<1>1. pc[p] \in {"idle", "cleanup", "begin", "lock", "stat", "break"}
  BY DEF Holding, TypeOK, Steps
<1>2. CASE \E o \in Ops, v \in Versions, pol \in Policies : Start(p, o, v, pol)
  BY <1>2 DEF Start, files
<1>3. CASE Decline(p) \/ Crash(p)
  BY <1>3 DEF Decline, Crash, files
<1>4. CASE Begin(p)
  BY <1>4 DEF Begin, BeginUpdate, BeginInstall, BeginUpdateFrom, BeginRollback, BeginUninstall, files
<1>5. CASE Acquire(p)
  BY <1>5 DEF Acquire, Create, Stat, Break, files
<1>6. CASE Work(p)
  <2>1. StartupCleanup(p)
    BY <1>1, <1>6 DEF Work, Stage, StageFails, Keep, Kept, Hold, Place,
       Swap, SwapFails, Park, SwapIn, SwapInFails, Unpark, PutBack, Save, Fails, Drop,
       RemovePrev, RemoveStale, RemoveReceipt, RemoveBinary
  <2> QED BY <2>1 DEF StartupCleanup
<1> QED BY <1>2, <1>3, <1>4, <1>5, <1>6 DEF Acts

(* Every operation takes the lock.                                         *)
AllLock == \A p \in Procs : pc[p] # "idle" => Locks(job[p].op)

(* It stays so.                                                            *)
LEMMA AllLockStep ==
    ASSUME \A o \in Ops : Locks(o), TypeOK, AllLock, [Next]_vars
    PROVE  AllLock'
<1>0. TypeOK' /\ OpKept
  BY TypeStep
<1>1. ASSUME NEW p \in Procs, Acts(p)
      PROVE  AllLock'
  <2>1. \A q \in Procs \ {p} : pc'[q] = pc[q] /\ job'[q] = job[q]
    BY <1>1, OthersStay
  <2>2. CASE \E o \in Ops, v \in Versions, pol \in Policies : Start(p, o, v, pol)
    <3> PICK o \in Ops, v \in Versions, pol \in Policies : Start(p, o, v, pol)
      BY <2>2
    <3> PICK e \in BOOLEAN :
            Goto(p, IF Windows THEN "cleanup" ELSE "begin",
                 [IdleJob EXCEPT !.op = o, !.image = v, !.elsewhere = e, !.policy = pol])
      BY DEF Start
    <3> PICK j : j = [IdleJob EXCEPT !.op = o, !.image = v, !.elsewhere = e, !.policy = pol]
      OBVIOUS
    <3>1. j.op = o
      BY IdleJobType DEF Jobs
    <3>2. job'[p] = j
      BY DEF Goto, TypeOK
    <3> QED BY <2>1, <3>1, <3>2 DEF AllLock
  <2>3. CASE pc[p] # "idle"
    BY <1>0, <2>1, <2>3 DEF AllLock, OpKept
  <2>4. pc[p] # "idle" \/ \E o \in Ops, v \in Versions, pol \in Policies : Start(p, o, v, pol)
    BY <1>1 DEF Acts, Decline, Crash, Begin, BeginUpdate, BeginInstall, BeginUpdateFrom,
       BeginRollback, BeginUninstall, Acquire, Create, Stat, Break, Work, StartupCleanup,
       Stage, StageFails, Keep, Kept, Hold, Place,
       Swap, SwapFails, Park, SwapIn, SwapInFails, Unpark, PutBack, Save, Fails, Drop,
       RemovePrev, RemoveStale, RemoveReceipt, RemoveBinary
  <2> QED BY <2>2, <2>3, <2>4
<1>2. CASE UNCHANGED <<pc, job>>
  BY <1>2 DEF AllLock
<1> QED BY <1>1, <1>2 DEF Next, Acts, Age, Release, vars

(* Under the lock what each process knows of the files stays true.         *)
LEMMA UndoInvStep ==
    ASSUME TypeOK, LockInv, AllLock, UndoInv, [Next]_vars
    PROVE  UndoInv'
<1>0. TypeOK' /\ OpKept
  BY TypeStep
<1>1. ASSUME NEW p \in Procs, Acts(p), NEW q \in Procs
      PROVE  Undo(q)'
  <2>1. CASE q = p
    <3>1. pc[p] \in {"lock", "stage", "keep", "keeping", "hold", "putBack"} => Locks(job[p].op)
      BY DEF AllLock
    <3>2. Undo(p)'
      BY <1>0, <1>1, <3>1, UndoStep DEF Acts, UndoInv
    <3> QED BY <2>1, <3>2
  <2>2. CASE q # p /\ Holding(q)
    <3>1. pc'[q] = pc[q] /\ job'[q] = job[q]
      BY <1>1, <2>2, OthersStay
    <3>2. ~Holding(p)
      BY <2>2 DEF LockInv
    <3>3. UNCHANGED <<dest, prev, tmp, hold>>
      BY <1>1, <3>2, Bystander DEF AllLock, LockInv
    <3> QED BY <3>1, <3>3 DEF UndoInv, Undo
  <2>3. CASE q # p /\ ~Holding(q)
    <3>1. pc'[q] = pc[q] /\ job'[q] = job[q]
      BY <1>1, <2>3, OthersStay
    <3>2. pc[q] \notin Working
      BY <2>3 DEF Holding, Working, AllLock
    <3> QED BY <3>1, <3>2 DEF Undo, Working, Swapping
  <2> QED BY <2>1, <2>2, <2>3
<1>2. CASE UNCHANGED <<files, pc, job>>
  BY <1>2 DEF UndoInv, Undo, files
<1> QED BY <1>1, <1>2 DEF Next, Acts, Age, Release, vars, UndoInv

(* update and rollback can be undone: whatever processes run beside it,    *)
(* crash or fail, one that has written its receipt leaves in .prev what    *)
(* the binary was when it took the lock, and a rollback has put back what  *)
(* .prev was - where no lock is taken for stale and every operation takes  *)
(* it (Reversible).                                                        *)
THEOREM UpdatesAreReversible ==
    ASSUME Ageing = "none", \A o \in Ops : Locks(o)
    PROVE  Spec => Reversible
<1>u. "uninstall" \notin Ops
  BY DEF Locks
<1>1. Init => AllLock /\ UndoInv
  BY Values DEF Init, AllLock, UndoInv, Undo, Swapping
<1>2. TypeOK /\ LockInv /\ AllLock /\ UndoInv /\ [Next]_vars => (AllLock /\ UndoInv)'
  BY AllLockStep, UndoInvStep
<1>3. ASSUME UndoInv, NEW p \in Procs, pc[p] = "save",
             job[p].op \in {"update", "updateFrom", "rollback"}
      PROVE  /\ prev = job[p].before[1]
             /\ dest = IF job[p].op = "rollback" THEN job[p].before[2] ELSE job[p].target
  BY <1>3 DEF UndoInv, Undo, Updates
<1>4. UndoInv =>
         [\A p \in Procs :
             /\ pc[p] = "save" /\ receipt' # receipt
             /\ job[p].op \in {"update", "updateFrom", "rollback"}
             => /\ prev = job[p].before[1]
                /\ dest = IF job[p].op = "rollback" THEN job[p].before[2] ELSE job[p].target]_receipt
  BY <1>3
<1> QED BY <1>u, <1>1, <1>2, <1>4, LockAlways, PTL DEF Spec, Reversible

----------------------------------------------------------------------------
(* One process at a time, with nothing failing.                            *)

(* A step of the only process keeps what it knows of receipt and files.    *)
LEMMA AloneStep ==
    ASSUME ~Faults, MaxCrashes = 0, "unmanaged" \notin Ops,
           TypeOK, NEW p \in Procs, Undo(p), Alone(p), Acts(p), TypeOK', OpKept
    PROVE  Alone(p)'
<1> USE DEF Alone, Working
<1>0. /\ job[p] \in Jobs /\ pc[p] \in Steps /\ receipt \in Receipts
      /\ job[p].op \in AllOps /\ job[p].target \in MaybeVersion /\ job[p].image \in Versions
  BY DEF TypeOK, Jobs
<1>v. /\ 0 \notin Versions /\ -1 \notin Versions /\ -1 \notin MaybeVersion /\ 0 \in MaybeVersion
      /\ Versions \subseteq MaybeVersion
  BY DEF Versions, MaybeVersion
<1>1. CASE \E o \in Ops, v \in Versions, pol \in Policies : Start(p, o, v, pol)
  <2> PICK o \in Ops, v \in Versions, pol \in Policies : Start(p, o, v, pol)
    BY <1>1
  <2> PICK e \in BOOLEAN :
          /\ ~e => dest = v
          /\ Goto(p, IF Windows THEN "cleanup" ELSE "begin",
               [IdleJob EXCEPT !.op = o, !.image = v, !.elsewhere = e, !.policy = pol])
    BY DEF Start
  <2> PICK j : j = [IdleJob EXCEPT !.op = o, !.image = v, !.elsewhere = e, !.policy = pol]
    OBVIOUS
  <2>1. j.op = o /\ j.image = v /\ o \in AllOps \ {"unmanaged"}
    BY IdleJobType, OpsAssumption DEF Jobs
  <2>2. j.elsewhere = e
    BY IdleJobType, Zenon DEF Jobs
  <2>3. job'[p] = j /\ pc'[p] \in {"cleanup", "begin"} /\ pc[p] = "idle"
    BY DEF Goto, TypeOK, Start
  <2>4. UNCHANGED <<files, receipt>>
    BY DEF Start
  <2>5. ~job'[p].elsewhere => dest = job'[p].image
    BY <2>1, <2>2, <2>3
  <2> QED BY <2>1, <2>3, <2>4, <2>5 DEF files
<1>r. ASSUME Return(p), Describes(receipt', dest', prev')
      PROVE  Alone(p)'
  <2>1. pc'[p] = "idle"
    BY <1>r, ReturnType
  <2> QED BY <1>r, <2>1
<1>l. ASSUME Leave(p), Describes(receipt', dest', prev'), job[p].op # "unmanaged"
      PROVE  Alone(p)'
  <2>1. pc'[p] = "idle" \/ (pc'[p] = "drop" /\ job'[p].op = job[p].op)
    BY <1>l, LeaveType
  <2> QED BY <1>0, <1>l, <2>1
<1>2. CASE Decline(p)
  BY <1>2, <1>r DEF Decline, files
<1>3. CASE \E v \in Versions, force \in BOOLEAN,
                asked \in {"none", "stable", "latest", "exact"} : BeginUpdate(p, asked, force, v)
  <2> PICK v \in Versions, force \in BOOLEAN,
           asked \in {"none", "stable", "latest", "exact"} : BeginUpdate(p, asked, force, v)
    BY <1>3
  <2> PICK c : c = ChooseChannel(asked, receipt.channel, job[p].policy)
    OBVIOUS
  <2> PICK j : j = [job[p] EXCEPT !.receipt = receipt, !.channel = c, !.target = v]
    OBVIOUS
  <2>1. /\ pc[p] = "begin" /\ job[p].op = "update" /\ receipt # NoReceipt /\ ~job[p].elsewhere
        /\ (v < job[p].image => c = "exact") /\ job[p].policy.minimum <= v
        /\ Goto(p, "lock", j) /\ UNCHANGED <<files, receipt>>
    BY DEF BeginUpdate, Managed, CheckMinimum
  <2>2. /\ j.op = "update" /\ j.image = job[p].image /\ j.policy = job[p].policy
        /\ j.receipt = receipt /\ j.channel = c /\ j.target = v
    BY <1>0, <2>1 DEF Jobs
  <2>3. ~j.elsewhere
    BY <1>0, <2>1, Zenon DEF Jobs
  <2>4. job'[p] = j /\ pc'[p] = "lock"
    BY <2>1 DEF Goto, TypeOK
  <2>5. Chosen(j)
    BY <1>0, <2>1, <2>2, <2>3 DEF Chosen, Updates, Versions
  <2> QED BY <2>1, <2>2, <2>3, <2>4, <2>5 DEF files, Locks, AllOps
<1>4. CASE \E v \in Versions, force \in BOOLEAN : BeginInstall(p, force, v)
  <2> PICK v \in Versions, force \in BOOLEAN : BeginInstall(p, force, v)
    BY <1>4
  <2> PICK j : j = [job[p] EXCEPT !.receipt = receipt, !.target = v]
    OBVIOUS
  <2>1. /\ pc[p] = "begin" /\ job[p].op \in {"install", "installFrom"}
        /\ UNCHANGED <<files, receipt>>
        /\ \/ job[p].op = "installFrom" /\ Goto(p, "lock", j)
           \/ job[p].op = "install" /\ v = job[p].image /\ Goto(p, "place", j)
    BY DEF BeginInstall
  <2>2. j.op = job[p].op /\ j.image = job[p].image /\ j.receipt = receipt /\ j.target = v
    BY <1>0 DEF Jobs
  <2>3. j.elsewhere = job[p].elsewhere
    BY <1>0, Zenon DEF Jobs
  <2>4. job'[p] = j /\ pc'[p] = (IF j.op = "installFrom" THEN "lock" ELSE "place")
    BY <2>1, <2>2 DEF Goto, TypeOK
  <2>5. Chosen(j)
    BY <2>1, <2>2 DEF Chosen, Updates
  <2>6. ~j.elsewhere => dest = j.image
    BY <2>1, <2>2, <2>3
  <2>7. Describes(receipt, dest, prev) /\ dest \in MaybeVersion
    BY <2>1 DEF Describes
  <2>8. CASE j.op = "installFrom"
    BY <2>1, <2>2, <2>4, <2>5, <2>6, <2>7, <2>8 DEF files, Locks, AllOps
  <2>9. CASE j.op = "install"
    BY <2>1, <2>2, <2>4, <2>5, <2>6, <2>7, <2>9 DEF files, Locks, AllOps
  <2> QED BY <2>1, <2>2, <2>8, <2>9
<1>5. CASE \E v \in Versions : BeginUpdateFrom(p, v)
  <2> PICK v \in Versions : BeginUpdateFrom(p, v)
    BY <1>5
  <2> PICK j : j = [job[p] EXCEPT !.receipt = receipt, !.target = v]
    OBVIOUS
  <2>1. /\ pc[p] = "begin" /\ job[p].op = "updateFrom" /\ receipt # NoReceipt
        /\ ~job[p].elsewhere /\ Goto(p, "lock", j) /\ UNCHANGED <<files, receipt>>
    BY DEF BeginUpdateFrom, Managed
  <2>2. j.op = "updateFrom" /\ j.image = job[p].image /\ j.receipt = receipt /\ j.target = v
    BY <1>0, <2>1 DEF Jobs
  <2>3. ~j.elsewhere
    BY <1>0, <2>1, Zenon DEF Jobs
  <2>4. job'[p] = j /\ pc'[p] = "lock"
    BY <2>1 DEF Goto, TypeOK
  <2>5. Chosen(j)
    BY <2>1, <2>2, <2>3 DEF Chosen, Updates
  <2> QED BY <2>1, <2>2, <2>3, <2>4, <2>5 DEF files, Locks, AllOps
<1>6. CASE BeginRollback(p)
  <2> PICK j : j = [job[p] EXCEPT !.receipt = receipt]
    OBVIOUS
  <2>1. /\ pc[p] = "begin" /\ job[p].op = "rollback" /\ receipt # NoReceipt
        /\ ~job[p].elsewhere /\ prev # Missing
        /\ (receipt.previous # Missing => job[p].policy.minimum <= receipt.previous)
        /\ Goto(p, "lock", j) /\ UNCHANGED <<files, receipt>>
    BY <1>6 DEF BeginRollback, Managed, CheckMinimum
  <2>2. /\ j.op = "rollback" /\ j.image = job[p].image /\ j.receipt = receipt
        /\ j.policy = job[p].policy
    BY <1>0, <2>1 DEF Jobs
  <2>3. ~j.elsewhere
    BY <1>0, <2>1, Zenon DEF Jobs
  <2>4. job'[p] = j /\ pc'[p] = "lock"
    BY <2>1 DEF Goto, TypeOK
  <2>5. receipt.previous # Missing
    BY <2>1 DEF Describes
  <2>6. Chosen(j)
    BY <2>1, <2>2, <2>3, <2>5 DEF Chosen, Updates
  <2> QED BY <2>1, <2>2, <2>3, <2>4, <2>6 DEF files, Locks, AllOps
<1>7. CASE BeginUninstall(p)
  <2> PICK j : j = [job[p] EXCEPT !.receipt = receipt]
    OBVIOUS
  <2>1. /\ pc[p] = "begin" /\ job[p].op = "uninstall"
        /\ Goto(p, "unPrev", j) /\ UNCHANGED <<files, receipt>>
    BY <1>7 DEF BeginUninstall
  <2>2. j.op = "uninstall"
    BY <1>0, <2>1 DEF Jobs
  <2>3. job'[p] = j /\ pc'[p] = "unPrev"
    BY <2>1 DEF Goto, TypeOK
  <2> QED BY <2>1, <2>2, <2>3 DEF files, AllOps
<1>8. CASE Create(p)
  <2>1. pc[p] = "lock" /\ UNCHANGED <<files, receipt>>
    BY <1>8 DEF Create
  <2>2. CASE Goto(p, "stat", job[p])
    <3>1. job'[p] = job[p] /\ pc'[p] = "stat"
      BY <2>2 DEF Goto, TypeOK
    <3> QED BY <2>1, <3>1 DEF files
  <2>3. CASE lock.owner = Free
    <3> PICK j : j = [job[p] EXCEPT !.before = <<dest, prev>>]
      OBVIOUS
    <3>1. Goto(p, IF job[p].op = "rollback" THEN "hold" ELSE "stage", j)
      BY <1>8, <2>3 DEF Create
    <3>2. Same(job[p], j)
      BY <1>0, SameFields DEF TypeOK
    <3>3. j.before[1] = dest /\ j.before[2] = prev
      BY <1>0 DEF Jobs
    <3>4. job'[p] = j /\ pc'[p] = IF job[p].op = "rollback" THEN "hold" ELSE "stage"
      BY <3>1 DEF Goto, TypeOK
    <3>5. Chosen(j) /\ j.receipt = receipt /\ j.op = job[p].op /\ j.image = job[p].image
      BY <2>1, <3>2 DEF Chosen, Same
    <3>6. Locks(j.op)
      BY <2>1, <3>5
    <3>7. j.op \in Updates \cup {"rollback"} => dest = j.image
      BY <2>1, <3>5 DEF Chosen
    <3> QED BY <2>1, <3>3, <3>4, <3>5, <3>6, <3>7 DEF files, Locks
  <2> QED BY <1>8, <2>2, <2>3 DEF Create
<1>9. CASE Stat(p)
  <2>1. pc[p] = "stat" /\ UNCHANGED <<files, receipt>>
    BY <1>9 DEF Stat
  <2>2. CASE Goto(p, "break", job[p])
    <3>1. job'[p] = job[p] /\ pc'[p] = "break"
      BY <2>2 DEF Goto, TypeOK
    <3> QED BY <2>1, <3>1 DEF files
  <2> QED BY <1>9, <1>r, <2>1, <2>2 DEF Stat, files
<1>10. CASE Break(p)
  <2> PICK j : j = [job[p] EXCEPT !.breaks = 1]
    OBVIOUS
  <2>1. pc[p] = "break" /\ UNCHANGED <<files, receipt>> /\ (Return(p) \/ Goto(p, "lock", j))
    BY <1>10 DEF Break
  <2>2. CASE Goto(p, "lock", j)
    <3>1. job'[p] = j /\ pc'[p] = "lock"
      BY <2>2 DEF Goto, TypeOK
    <3>2. Same(job[p], j)
      BY <1>0, SameFields
    <3>3. /\ Chosen(j) /\ j.receipt = receipt /\ j.op = job[p].op /\ j.image = job[p].image
          /\ j.elsewhere = job[p].elsewhere
      BY <2>1, <3>2 DEF Chosen, Same
    <3> QED BY <2>1, <3>1, <3>3 DEF files
  <2> QED BY <1>r, <2>1, <2>2 DEF files
<1>11. CASE StartupCleanup(p)
  <2>1. pc[p] = "cleanup" /\ Goto(p, "begin", job[p]) /\ UNCHANGED <<dest, prev, receipt>>
    BY <1>11 DEF StartupCleanup
  <2>2. job'[p] = job[p] /\ pc'[p] = "begin"
    BY <2>1 DEF Goto, TypeOK
  <2> QED BY <2>1, <2>2
<1>w. ASSUME NEW s \in Working \ {"stage"}, NEW k, Goto(p, s, k), Same(job[p], k),
             k.before = job[p].before, pc[p] \in Working, Locks(job[p].op), receipt' = receipt,
             pc[p] = "stage" /\ job[p].op = "updateFrom"
               => job[p].policy.minimum <= job[p].target
      PROVE  Alone(p)'
  <2>1. job'[p] = k /\ pc'[p] = s
    BY <1>w DEF Goto, TypeOK
  <2>2. Chosen(k) /\ k.receipt = receipt /\ Locks(k.op) /\ k.op # "unmanaged"
    BY <1>w DEF Chosen, Same
  <2> QED BY <1>w, <2>1, <2>2 DEF Same, Locks, AllOps
<1>i. ASSUME NEW s \in {"swap", "swapIn", "unpark", "save"}, NEW k, Goto(p, s, k),
             Same(job[p], k), pc[p] \in Working, job[p].op = "install",
             UNCHANGED <<receipt, prev>>, s \in {"unpark", "save"} => dest' = job[p].target
      PROVE  Alone(p)'
  <2>1. job'[p] = k /\ pc'[p] = s
    BY <1>i DEF Goto, TypeOK
  <2>2. Chosen(k) /\ k.receipt = receipt /\ k.op = "install" /\ k.target = job[p].target
    BY <1>i DEF Chosen, Same
  <2> QED BY <1>i, <2>1, <2>2 DEF Locks, AllOps
<1>s. Same(job[p], job[p])
  BY DEF Same
<1>o. pc[p] \in Working => Locks(job[p].op) \/ job[p].op = "install"
  BY DEF Locks, AllOps
<1>t. pc[p] \in Swapping => tmp[p] # Missing
  <2>1. CASE job[p].op = "rollback"
    BY <2>1 DEF Undo, Swapping, Locks
  <2>2. CASE job[p].op # "rollback"
    BY <1>o, <1>v, <2>2 DEF Undo, Swapping, Chosen, Updates, Locks, Missing
  <2> QED BY <2>1, <2>2
<1>12. CASE \E force \in BOOLEAN : Stage(p, force)
  <2>1. /\ pc[p] = "stage" /\ UNCHANGED <<files, receipt>>
        /\ job[p].op = "updateFrom" => job[p].policy.minimum <= job[p].target
        /\ Goto(p, IF job[p].op = "installFrom" THEN "place" ELSE "keep", job[p])
    BY <1>12 DEF Stage, CheckMinimum
  <2>2. Locks(job[p].op)
    BY <2>1, <1>o
  <2> QED BY <1>w, <1>s, <2>1, <2>2
<1>13. CASE StageFails(p)
  <2>1. pc[p] = "stage" /\ Leave(p) /\ UNCHANGED <<files, receipt>>
    BY <1>13 DEF StageFails
  <2>2. Locks(job[p].op) /\ job[p].op # "unmanaged"
    BY <2>1, <1>o
  <2>3. Describes(receipt, dest, prev)
    BY <2>1, <2>2 DEF Undo
  <2> QED BY <1>l, <2>1, <2>2, <2>3 DEF files
<1>14. CASE Keep(p)
  <2>1. pc[p] = "keep" /\ job[p].op \in Updates
    BY <1>14 DEF Keep, Undo
  <2>2. dest # Missing /\ Locks(job[p].op)
    BY <1>0, <1>v, <2>1 DEF Undo, Updates, Locks, Missing
  <2> PICK j : j = [job[p] EXCEPT !.copied = dest]
    OBVIOUS
  <2>3. Goto(p, "keeping", j) /\ receipt' = receipt
    BY <1>14, <2>2 DEF Keep
  <2>4. Same(job[p], j) /\ j.before = job[p].before
    BY <1>0, SameFields DEF TypeOK, Jobs
  <2> QED BY <1>w, <2>1, <2>2, <2>3, <2>4
<1>15. CASE Kept(p)
  <2> PICK j : j = [job[p] EXCEPT !.copied = Missing]
    OBVIOUS
  <2>1. pc[p] = "keeping" /\ job[p].op \in Updates /\ Goto(p, "place", j) /\ receipt' = receipt
    BY <1>15 DEF Kept, Undo
  <2>2. Same(job[p], j) /\ j.before = job[p].before
    BY <1>0, SameFields DEF Jobs, Content
  <2> QED BY <1>w, <2>1, <2>2 DEF Updates, Locks
<1>16. CASE Hold(p)
  <2>1. pc[p] = "hold" /\ job[p].op = "rollback"
    BY <1>16 DEF Hold, Undo
  <2>2. dest # Missing /\ Locks(job[p].op)
    BY <1>0, <1>v, <2>1 DEF Undo, Updates, Locks, Missing
  <2>3. Goto(p, "place", job[p]) /\ receipt' = receipt
    BY <1>16, <2>2 DEF Hold
  <2> QED BY <1>w, <1>s, <2>1, <2>2, <2>3
<1>17. CASE Place(p)
  <2>0. pc[p] = "place" /\ UNCHANGED <<dest, receipt>>
    BY <1>17 DEF Place
  <2>1. CASE Locks(job[p].op)
    <3>1. job[p].op = "rollback" => prev # Missing
      BY <2>0, <2>1 DEF Undo
    <3>2. Goto(p, "swap", job[p])
      BY <1>17, <2>1, <3>1 DEF Place, Locks
    <3> QED BY <1>w, <1>s, <2>0, <2>1, <3>2
  <2>2. CASE job[p].op = "install" /\ job[p].elsewhere
    <3>1. Goto(p, "swap", job[p]) /\ UNCHANGED prev
      BY <1>17, <2>2 DEF Place
    <3> QED BY <1>i, <1>s, <2>0, <2>2, <3>1
  <2>3. CASE job[p].op = "install" /\ ~job[p].elsewhere
    <3>1. dest = job[p].image /\ dest = job[p].target
      BY <2>0, <2>3 DEF Chosen
    <3>2. Goto(p, "save", job[p]) /\ UNCHANGED prev
      BY <1>17, <1>0, <1>v, <2>3, <3>1 DEF Place, Missing
    <3> QED BY <1>i, <1>s, <2>0, <2>3, <3>1, <3>2
  <2> QED BY <1>o, <2>0, <2>1, <2>2, <2>3
<1>18. CASE Swap(p)
  <2>1. /\ pc[p] = "swap" /\ dest' = tmp[p] /\ UNCHANGED <<prev, receipt>>
        /\ Goto(p, IF job[p].op = "rollback" THEN "putBack" ELSE "save", job[p])
    BY <1>18 DEF Swap, Placed
  <2>2. CASE job[p].op = "install"
    <3>1. dest' = job[p].target
      BY <2>1, <2>2 DEF Undo, Swapping
    <3> QED BY <1>i, <1>s, <2>1, <2>2, <3>1
  <2> QED BY <1>o, <1>w, <1>s, <2>1, <2>2
<1>19. CASE SwapFails(p)
  BY <1>19, <1>t DEF SwapFails, Swapping
<1>20. CASE Park(p)
  <2> PICK j : j = [job[p] EXCEPT !.parked = dest]
    OBVIOUS
  <2>1. pc[p] = "swap" /\ UNCHANGED <<prev, receipt>> /\ Goto(p, "swapIn", j)
    BY <1>20 DEF Park
  <2>2. Same(job[p], j) /\ j.before = job[p].before
    BY <1>0, SameFields DEF TypeOK, Jobs
  <2>3. CASE job[p].op = "install"
    BY <1>i, <2>1, <2>2, <2>3
  <2>4. CASE Locks(job[p].op)
    BY <1>w, <2>1, <2>2, <2>4
  <2> QED BY <1>o, <2>1, <2>3, <2>4
<1>21. CASE SwapIn(p)
  <2>1. /\ pc[p] = "swapIn" /\ dest' = tmp[p] /\ UNCHANGED <<prev, receipt>>
        /\ Goto(p, "unpark", job[p])
    BY <1>21 DEF SwapIn
  <2>2. CASE job[p].op = "install"
    <3>1. dest' = job[p].target
      BY <2>1, <2>2 DEF Undo, Swapping
    <3> QED BY <1>i, <1>s, <2>1, <2>2, <3>1
  <2> QED BY <1>o, <1>w, <1>s, <2>1, <2>2
<1>22. CASE SwapInFails(p)
  BY <1>22, <1>t DEF SwapInFails, Swapping
<1>23. CASE Unpark(p)
  <2>1. /\ pc[p] = "unpark" /\ UNCHANGED <<dest, prev, receipt>>
        /\ Goto(p, IF job[p].op = "rollback" THEN "putBack" ELSE "save", job[p])
    BY <1>23 DEF Unpark, Placed
  <2>2. CASE job[p].op = "install"
    BY <1>i, <1>s, <2>1, <2>2
  <2> QED BY <1>o, <1>w, <1>s, <2>1, <2>2
<1>24. CASE PutBack(p)
  <2>1. pc[p] = "putBack" /\ job[p].op = "rollback"
    BY <1>24 DEF PutBack, Undo
  <2>2. hold[p] # Missing /\ Locks(job[p].op)
    BY <1>0, <1>v, <2>1 DEF Undo, Locks, Missing
  <2>3. Goto(p, "save", job[p]) /\ receipt' = receipt
    BY <1>24, <2>2 DEF PutBack
  <2> QED BY <1>w, <1>s, <2>1, <2>2, <2>3
<1>25. CASE Save(p)
  <2>1. pc[p] = "save" /\ receipt' = Written(job[p]) /\ Leave(p) /\ UNCHANGED <<dest, prev>>
    BY <1>25 DEF Save, files
  <2>2. job[p].receipt = receipt /\ Chosen(job[p])
    BY <2>1
  <2>3. CASE job[p].op \in Updates
    <3>1. dest = job[p].target /\ prev = job[p].image /\ dest \in Versions
      BY <2>1, <2>2, <2>3 DEF Undo, Updates, Locks, Chosen
    <3>2. receipt'.version = dest /\ receipt'.previous = prev
      BY <2>1, <2>3, <3>1 DEF Written, Updates
    <3>3. receipt' # NoReceipt
      BY <1>v, <3>1, <3>2 DEF NoReceipt, Missing
    <3> QED BY <1>0, <1>l, <1>v, <2>1, <2>3, <3>1, <3>2, <3>3 DEF Describes, Updates
  <2>4. CASE job[p].op = "rollback"
    <3>1. /\ dest = job[p].before[2] /\ prev = job[p].before[1] /\ dest # Missing
          /\ Describes(receipt, prev, dest)
      BY <2>1, <2>4 DEF Undo, Locks, Updates
    <3>2. receipt # NoReceipt /\ receipt.version = prev /\ receipt.previous = dest
      BY <2>2, <2>4, <3>1 DEF Describes, Chosen
    <3>3. receipt'.version = dest /\ receipt'.previous = prev
      BY <1>0, <2>1, <2>2, <2>4, <3>2 DEF Written, Receipts
    <3>4. receipt' # NoReceipt
      BY <3>1, <3>3 DEF NoReceipt
    <3> QED BY <1>l, <2>1, <2>4, <3>1, <3>3, <3>4 DEF Describes
  <2>5. CASE job[p].op \in {"install", "installFrom"}
    <3>1. dest = job[p].target /\ dest \in Versions
      BY <2>1, <2>2, <2>5 DEF Undo, Updates, Chosen
    <3>2. PICK d : Describes(receipt, d, prev)
      BY <2>1, <2>5 DEF Undo, Locks
    <3>3. prev \in MaybeVersion /\ (prev # Missing => receipt.previous = prev)
      BY <3>2 DEF Describes
    <3>4. receipt'.version = dest /\ (prev # Missing => receipt'.previous = prev)
      BY <2>1, <2>2, <2>5, <3>1, <3>3 DEF Written
    <3>5. receipt' # NoReceipt
      BY <1>v, <3>1, <3>4 DEF NoReceipt, Missing
    <3> QED BY <1>l, <1>v, <2>1, <2>5, <3>1, <3>3, <3>4, <3>5 DEF Describes
  <2> QED BY <1>o, <2>1, <2>3, <2>4, <2>5 DEF Locks, Updates
<1>26. CASE Fails(p)
  BY <1>26 DEF Fails
<1>27. CASE Drop(p)
  BY <1>27, <1>r DEF Drop, files
<1>28. CASE RemovePrev(p)
  <2>1. pc[p] = "unPrev" /\ Goto(p, "unStale", job[p]) /\ prev' = Missing
    BY <1>28 DEF RemovePrev
  <2>2. job'[p] = job[p] /\ pc'[p] = "unStale"
    BY <2>1 DEF Goto, TypeOK
  <2> QED BY <2>1, <2>2
<1>29. CASE RemoveStale(p)
  <2>1. pc[p] = "unStale" /\ Goto(p, "unReceipt", job[p]) /\ prev' = prev
    BY <1>29 DEF RemoveStale
  <2>2. job'[p] = job[p] /\ pc'[p] = "unReceipt"
    BY <2>1 DEF Goto, TypeOK
  <2> QED BY <2>1, <2>2
<1>30. CASE RemoveReceipt(p)
  <2>1. /\ pc[p] = "unReceipt" /\ Goto(p, "unBinary", job[p]) /\ prev' = prev
        /\ receipt' = NoReceipt
    BY <1>30 DEF RemoveReceipt, files
  <2>2. job'[p] = job[p] /\ pc'[p] = "unBinary"
    BY <2>1 DEF Goto, TypeOK
  <2> QED BY <2>1, <2>2
<1>31. CASE RemoveBinary(p)
  <2>1. /\ pc[p] = "unBinary" /\ Return(p) /\ dest' = Missing /\ prev' = Missing
        /\ receipt' = NoReceipt
    BY <1>31 DEF RemoveBinary
  <2> QED BY <1>r, <1>v, <2>1 DEF Describes, Missing
<1>32. CASE Crash(p)
  BY <1>32 DEF Crash, TypeOK
<1> QED BY <1>1, <1>2, <1>3, <1>4, <1>5, <1>6, <1>7, <1>8, <1>9, <1>10, <1>11, <1>12, <1>13,
           <1>14, <1>15, <1>16, <1>17, <1>18, <1>19, <1>20, <1>21, <1>22, <1>23, <1>24, <1>25,
           <1>26, <1>27, <1>28, <1>29, <1>30, <1>31, <1>32 DEF Acts, Begin, Acquire, Work

(* The invariant of a machine on which one process runs at a time.         *)
SerialInv == TypeOK /\ UndoInv /\ AloneInv

(* It holds in every state.                                                *)
LEMMA SerialAlways ==
    ASSUME NEW p, Procs = {p}, ~Faults, MaxCrashes = 0, "unmanaged" \notin Ops
    PROVE  Init /\ [][Next]_vars => []SerialInv
<1>1. Init => SerialInv
  <2> SUFFICES ASSUME Init PROVE UndoInv /\ AloneInv
    BY TypeInit DEF SerialInv
  <2>1. Describes(receipt, dest, prev)
    BY VersionAssumption DEF Init, Describes, NoReceipt, MaybeVersion, Versions, Missing
  <2> QED BY <2>1 DEF Init, UndoInv, Undo, AloneInv, Alone, Working, Swapping
<1>2. SerialInv /\ [Next]_vars => SerialInv'
  <2> SUFFICES ASSUME SerialInv, [Next]_vars PROVE SerialInv'
    OBVIOUS
  <2>0. TypeOK /\ Undo(p) /\ Alone(p) /\ TypeOK' /\ OpKept
    BY TypeStep DEF SerialInv, UndoInv, AloneInv
  <2>1. CASE Acts(p)
    <3>1. pc[p] \in {"lock", "stage", "keep", "keeping", "hold", "putBack"} => Locks(job[p].op)
      BY <2>0 DEF Alone, Undo, Updates, Locks
    <3>2. Undo(p)'
      BY <2>0, <2>1, <3>1, UndoStep DEF Acts
    <3>3. Alone(p)'
      BY <2>0, <2>1, AloneStep
    <3> QED BY <2>0, <3>2, <3>3 DEF SerialInv, UndoInv, AloneInv
  <2>2. CASE UNCHANGED <<files, receipt, pc, job>>
    BY <2>0, <2>2 DEF SerialInv, UndoInv, AloneInv, Undo, Alone, files
  <2> QED BY <2>1, <2>2 DEF Next, Acts, Age, Release, vars
<1> QED BY <1>1, <1>2, PTL

(* Operations that run one after the other leave a receipt that is true of *)
(* the binaries: its version is the one in place and previous_version that *)
(* of .prev, which is what a later update or rollback trusts.              *)
THEOREM ReceiptIsTrue ==
    ASSUME NEW p, Procs = {p}, ~Faults, MaxCrashes = 0, "unmanaged" \notin Ops
    PROVE  Spec => []ReceiptDescribesBinaries
<1>1. SerialInv => ReceiptDescribesBinaries
  BY DEF SerialInv, AloneInv, Alone, Describes, ReceiptDescribesBinaries, AtRest
<1> QED BY <1>1, SerialAlways, PTL DEF Spec

(* They never take a channel back to an older version, nor go below the    *)
(* minimum the policy enforces: rollback, which compares the version the   *)
(* receipt names, puts back that very version.                             *)
THEOREM VersionsAdmitted ==
    ASSUME NEW one, Procs = {one}, ~Faults, MaxCrashes = 0, "unmanaged" \notin Ops
    PROVE  Spec => VersionsAreAdmitted
<1>1. ASSUME SerialInv, Next, NEW q \in Procs, Places(q)
      PROVE  /\ job[q].op = "update" /\ job[q].channel # "exact" => dest' >= dest
             /\ job[q].op \in {"update", "updateFrom", "rollback"}
                  => dest' = Torn \/ CheckMinimum(job[q].policy, dest')
  <2>0. TypeOK /\ Undo(q) /\ Alone(q)
    BY <1>1 DEF SerialInv, UndoInv, AloneInv
  <2>1. Acts(q)
    BY <1>1 DEF Next, Acts, Age, Release, Places
  <2>2. dest' = tmp[q]
    <3>1. CASE \E o \in Ops, v \in Versions, pol \in Policies : Start(q, o, v, pol)
      BY <1>1, <3>1 DEF Start, Places
    <3>2. CASE Decline(q) \/ Begin(q) \/ Acquire(q) \/ Crash(q)
      BY <1>1, <3>2, ReturnType, <2>0 DEF Places, Decline, Begin, BeginUpdate, BeginInstall, BeginUpdateFrom,
         BeginRollback, BeginUninstall, Acquire, Create, Stat, Break, Crash
    <3>3. CASE Work(q)
      <4>1. Swap(q) \/ SwapFails(q) \/ Park(q) \/ SwapIn(q) \/ SwapInFails(q)
        BY <1>1, <3>3 DEF Places, Work, StartupCleanup, Stage, StageFails, Keep, Kept, Hold,
           Place, Unpark, PutBack, Save, Fails, Drop, RemovePrev, RemoveStale, RemoveReceipt,
           RemoveBinary
      <4>2. ~SwapFails(q) /\ ~SwapInFails(q) /\ ~Park(q)
        BY <1>1, <2>0, LeaveType, GotoFrame DEF Places, SwapFails, SwapInFails, Park, PlaceFailed
      <4> QED BY <4>1, <4>2 DEF Swap, SwapIn
    <3> QED BY <2>1, <3>1, <3>2, <3>3 DEF Acts
  <2>3. /\ pc[q] \in Swapping /\ pc[q] \in Working
        /\ Chosen(job[q]) /\ job[q].receipt = receipt
    BY <1>1, <2>0 DEF Places, Swapping, Alone, Working
  <2>4. ASSUME job[q].op \in Updates
        PROVE  /\ dest' = job[q].target /\ job[q].policy.minimum <= job[q].target
               /\ job[q].target \in Versions
    BY <2>0, <2>2, <2>3, <2>4 DEF Undo, Updates, Alone, Chosen, Locks, Swapping, Working
  <2>5. ASSUME job[q].op = "rollback"
        PROVE  job[q].policy.minimum <= dest'
    <3>1. dest' = job[q].before[2] /\ dest' # Missing
      BY <2>0, <2>2, <2>3, <2>5 DEF Undo, Alone, Locks
    <3>2. Describes(receipt, job[q].before[1], dest')
      BY <2>0, <2>3, <2>5, <3>1 DEF Alone, Locks
    <3>3. receipt.previous = dest'
      BY <2>3, <2>5, <3>1, <3>2 DEF Describes, Chosen
    <3> QED BY <2>3, <2>5, <3>3 DEF Chosen
  <2>6. ASSUME job[q].op = "update", job[q].channel # "exact"
        PROVE  dest' >= dest
    <3>1. job[q].image <= job[q].target /\ job[q].image \in Versions
      BY <2>0, <2>3, <2>6 DEF Chosen, TypeOK, Jobs
    <3>2. dest = job[q].image \/ dest = Missing
      BY <2>0, <2>3, <2>6 DEF Undo, Alone, Updates, Locks, Swapping
    <3> QED BY <2>4, <2>6, <3>1, <3>2 DEF Updates, Versions, Missing
  <2> QED BY <2>4, <2>5, <2>6 DEF Updates, CheckMinimum
<1>2. SerialInv /\ [Next]_vars =>
        [\A p \in Procs :
            Places(p) /\ job[p].op = "update" /\ job[p].channel # "exact" => dest' >= dest]_pc
  BY <1>1 DEF vars
<1>3. SerialInv /\ [Next]_vars =>
        [\A p \in Procs :
            Places(p) /\ job[p].op \in {"update", "updateFrom", "rollback"}
              => dest' = Torn \/ CheckMinimum(job[p].policy, dest')]_pc
  BY <1>1 DEF vars
<1>4. Init /\ [][Next]_vars => []SerialInv
  BY SerialAlways
<1>5. Spec => ChannelsNeverDowngrade
  BY <1>2, <1>4, PTL DEF Spec, ChannelsNeverDowngrade
<1>6. Spec => MinimumHeld
  BY <1>3, <1>4, PTL DEF Spec, MinimumHeld
<1> QED BY <1>5, <1>6 DEF VersionsAreAdmitted

----------------------------------------------------------------------------
(* What a binary or its parked copy is. *)
Whole == dest \in Versions \/ old \cap Versions # {}

(* A step of the only process, without rollback, keeps CopyInv and, unless *)
(* it uninstalls, a whole copy.                                            *)
LEMMA CopyStep ==
    ASSUME NEW p, Procs = {p}, "rollback" \notin Ops, TypeOK, CopyInv, Acts(p), OpKept
    PROVE  /\ CopyInv'
           /\ Whole => Whole' \/ pc[p] \in {"unStale", "unBinary"}
<1>0. /\ p \in Procs /\ job[p] \in Jobs /\ pc[p] \in Steps
      /\ job[p].op \in AllOps /\ job[p].target \in MaybeVersion
  BY DEF TypeOK, Jobs
<1>v. 0 \notin Versions /\ 0 \in MaybeVersion /\ Versions \subseteq MaybeVersion
  BY DEF Versions, MaybeVersion
<1>c. /\ dest \in MaybeVersion /\ old \subseteq Versions /\ tmp[p] \in MaybeVersion
      /\ pc[p] # "idle" => job[p].op # "rollback"
      /\ pc[p] = "cleanup" /\ ~job[p].elsewhere => dest \in Versions
      /\ pc[p] = "unpark" => dest \in Versions
  BY <1>0 DEF CopyInv
<1>k. ASSUME dest' \in MaybeVersion, old' \subseteq Versions, tmp'[p] \in MaybeVersion,
             pc[p] # "idle",
             pc'[p] = "unpark" => dest' \in Versions, pc'[p] # "cleanup"
      PROVE  CopyInv'
  BY <1>c, <1>k DEF CopyInv, OpKept
<1>1. CASE \E o \in Ops, v \in Versions, pol \in Policies : Start(p, o, v, pol)
  <2> PICK o \in Ops, v \in Versions, pol \in Policies : Start(p, o, v, pol)
    BY <1>1
  <2> PICK e \in BOOLEAN :
          /\ ~e => dest = v
          /\ Goto(p, IF Windows THEN "cleanup" ELSE "begin",
               [IdleJob EXCEPT !.op = o, !.image = v, !.elsewhere = e, !.policy = pol])
    BY DEF Start
  <2> PICK j : j = [IdleJob EXCEPT !.op = o, !.image = v, !.elsewhere = e, !.policy = pol]
    OBVIOUS
  <2>1. j.op = o
    BY IdleJobType DEF Jobs
  <2>2. j.elsewhere = e
    BY IdleJobType, Zenon DEF Jobs
  <2>3. job'[p] = j /\ pc'[p] \in {"cleanup", "begin"} /\ UNCHANGED files
    BY <1>0 DEF Goto, TypeOK, Start
  <2>4. o # "rollback" /\ (~j.elsewhere => dest \in Versions)
    BY <2>2
  <2> QED BY <1>c, <2>1, <2>3, <2>4 DEF CopyInv, files, Whole
<1>3. CASE StartupCleanup(p)
  <2>1. /\ UNCHANGED <<dest, tmp>> /\ pc[p] = "cleanup" /\ pc'[p] = "begin" /\ old' \subseteq old
        /\ job[p].elsewhere => old' = old
    BY <1>0, <1>3, GotoFrame DEF StartupCleanup
  <2> QED BY <1>c, <1>k, <2>1 DEF Whole
<1>4. CASE Place(p)
  <2>1. job[p].op # "rollback" /\ pc[p] = "place" /\ UNCHANGED <<dest, old>>
    BY <1>4, <1>c DEF Place
  <2>2. tmp'[p] \in MaybeVersion
    BY <1>0, <1>4, <1>c, <1>v, <2>1 DEF Place, PlaceFailed, TypeOK, Missing
  <2>3. pc'[p] \in {"swap", "save", "idle", "drop"}
    BY <1>0, <1>4, <2>1, GotoFrame, LeaveType DEF Place, PlaceFailed
  <2> QED BY <1>c, <1>k, <2>1, <2>2, <2>3 DEF Whole
<1>5. CASE Swap(p)
  <2>1. dest' \in Versions /\ UNCHANGED old /\ pc[p] = "swap"
    BY <1>5, <1>c DEF Swap, MaybeVersion
  <2>2. tmp'[p] = Missing
    BY <1>0, <1>5 DEF Swap, TypeOK
  <2>3. pc'[p] \in {"putBack", "save"}
    BY <1>0, <1>5, GotoFrame DEF Swap, Placed
  <2> QED BY <1>c, <1>k, <1>v, <2>1, <2>2, <2>3 DEF Whole, Missing
<1>6. CASE Park(p)
  <2>1. /\ pc[p] = "swap" /\ dest \in Versions /\ dest' = Missing /\ tmp' = tmp
        /\ old' \subseteq old \cup {dest} /\ dest \in old'
    BY <1>6, <1>c DEF Park, MaybeVersion
  <2>2. pc'[p] = "swapIn"
    BY <1>0, <1>6, GotoFrame DEF Park
  <2> QED BY <1>c, <1>k, <1>v, <2>1, <2>2 DEF Whole, Missing
<1>7. CASE SwapIn(p)
  <2>1. dest' \in Versions /\ UNCHANGED old /\ pc[p] = "swapIn"
    BY <1>7, <1>c DEF SwapIn, MaybeVersion
  <2>2. tmp'[p] = Missing
    BY <1>0, <1>7 DEF SwapIn, TypeOK
  <2>3. pc'[p] = "unpark"
    BY <1>0, <1>7, GotoFrame DEF SwapIn
  <2> QED BY <1>c, <1>k, <1>v, <2>1, <2>2, <2>3 DEF Whole, Missing
<1>8. CASE SwapFails(p)
  <2>1. UNCHANGED <<dest, old>> /\ pc[p] = "swap"
    BY <1>8 DEF SwapFails
  <2>2. tmp'[p] = Missing
    BY <1>0, <1>8 DEF SwapFails, PlaceFailed, TypeOK
  <2>3. pc'[p] \in {"idle", "drop"}
    BY <1>0, <1>8, LeaveType DEF SwapFails, PlaceFailed
  <2> QED BY <1>c, <1>k, <1>v, <2>1, <2>2, <2>3 DEF Whole, Missing
<1>9. CASE SwapInFails(p)
  <2>1. /\ pc[p] = "swapIn"
        /\ \/ job[p].parked \in old /\ dest' = job[p].parked /\ old' \subseteq old
           \/ UNCHANGED <<dest, old>>
    BY <1>9 DEF SwapInFails
  <2>2. tmp'[p] = Missing
    BY <1>0, <1>9 DEF SwapInFails, PlaceFailed, TypeOK
  <2>3. pc'[p] \in {"idle", "drop"}
    BY <1>0, <1>9, LeaveType DEF SwapInFails, PlaceFailed
  <2> QED BY <1>c, <1>k, <1>v, <2>1, <2>2, <2>3 DEF Whole, Missing
<1>10. CASE Unpark(p)
  <2>1. pc[p] = "unpark" /\ UNCHANGED <<dest, tmp>> /\ old' \subseteq old
    BY <1>10 DEF Unpark
  <2>2. pc'[p] \in {"putBack", "save"}
    BY <1>0, <1>10, GotoFrame DEF Unpark, Placed
  <2> QED BY <1>c, <1>k, <2>1, <2>2 DEF Whole
<1>11. CASE RemoveStale(p)
  <2>1. pc[p] = "unStale" /\ UNCHANGED dest /\ old' \subseteq old /\ tmp'[p] = Missing
    BY <1>0, <1>11 DEF RemoveStale
  <2>2. pc'[p] = "unReceipt"
    BY <1>0, <1>11, GotoFrame DEF RemoveStale
  <2> QED BY <1>c, <1>k, <1>v, <2>1, <2>2 DEF Missing
<1>12. CASE RemoveBinary(p)
  <2>1. pc[p] = "unBinary" /\ UNCHANGED <<old, tmp>> /\ dest' = Missing
    BY <1>12 DEF RemoveBinary
  <2>2. pc'[p] = "idle"
    BY <1>0, <1>12, ReturnType DEF RemoveBinary
  <2> QED BY <1>c, <1>k, <1>v, <2>1, <2>2 DEF Missing
<1>13. ASSUME UNCHANGED <<dest, old, tmp>>, pc[p] # "idle",
              Leave(p) \/ Return(p)
                \/ \E s \in Steps \ {"cleanup", "unpark"} : \E j : Goto(p, s, j)
       PROVE  CopyInv' /\ (Whole => Whole')
  <2>1. pc'[p] \notin {"cleanup", "unpark"}
    BY <1>0, <1>13, LeaveType, ReturnType, GotoFrame
  <2> QED BY <1>13, <1>c, <1>k, <2>1 DEF Whole
<1>14. CASE Decline(p) \/ Crash(p) \/ Fails(p) \/ Drop(p) \/ StageFails(p) \/ Save(p)
  BY <1>13, <1>14 DEF Decline, Crash, Fails, Drop, StageFails, Save, files
<1>15. CASE Begin(p)
  BY <1>13, <1>15 DEF Begin, BeginUpdate, BeginInstall, BeginUpdateFrom, BeginRollback,
     BeginUninstall, files, Steps
<1>16. CASE Acquire(p)
  BY <1>13, <1>16 DEF Acquire, Create, Stat, Break, files, Steps
<1>17. CASE Keep(p) \/ Kept(p) \/ Hold(p) \/ PutBack(p)
  BY <1>13, <1>17 DEF Keep, Kept, Hold, PutBack, Steps
<1>18. CASE (\E force \in BOOLEAN : Stage(p, force)) \/ RemovePrev(p) \/ RemoveReceipt(p)
  BY <1>13, <1>18 DEF Stage, RemovePrev, RemoveReceipt, files, Steps
<1> QED BY <1>1, <1>3, <1>4, <1>5, <1>6, <1>7, <1>8, <1>9, <1>10, <1>11, <1>12, <1>14, <1>15,
           <1>16, <1>17, <1>18 DEF Acts, Work

(* On Windows, whatever fails and whenever the process is killed, the path *)
(* may be left empty but a whole copy of the program is there, at it or    *)
(* parked, until it is uninstalled.  (A rollback places .prev, which a     *)
(* crash may have left half-written.)                                      *)
THEOREM CopySurvives ==
    ASSUME NEW one, Procs = {one}, "rollback" \notin Ops
    PROVE  Spec => WholeCopySurvives
<1>1. Init => TypeOK /\ CopyInv
  BY TypeInit, VersionAssumption DEF Init, CopyInv, MaybeVersion, Versions, Missing
<1>2. ASSUME TypeOK, CopyInv, [Next]_vars
      PROVE  /\ TypeOK' /\ CopyInv'
             /\ Whole => Whole' \/ pc[one] \in {"unStale", "unBinary"}
  <2>1. TypeOK' /\ OpKept
    BY <1>2, TypeStep
  <2>2. CASE Acts(one)
    BY <1>2, <2>1, <2>2, CopyStep
  <2>3. CASE UNCHANGED <<files, pc, job>>
    BY <1>2, <2>1, <2>3 DEF CopyInv, Whole, files
  <2> QED BY <1>2, <2>2, <2>3 DEF Next, Acts, Age, Release, vars
<1>3. TypeOK /\ CopyInv /\ [Next]_vars => (TypeOK /\ CopyInv)'
  BY <1>2
<1>4. TypeOK /\ CopyInv /\ [Next]_vars =>
        [LET whole(d, o) == d \in Versions \/ o \cap Versions # {}
         IN  whole(dest, old) => \/ whole(dest, old)'
                                 \/ \E p \in Procs : pc[p] \in {"unStale", "unBinary"}]_<<dest, old>>
  BY <1>2 DEF Whole
<1> QED BY <1>1, <1>3, <1>4, PTL DEF Spec, WholeCopySurvives

============================================================================
