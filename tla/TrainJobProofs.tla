--------------------------- MODULE TrainJobProofs ---------------------------
(***************************************************************************)
(* The type invariant of the TrainJob controller for every value of the    *)
(* bounds, that the outcome it reports is one its own JobSet reached, that *)
(* the controller follows the life of a TrainJob, and that it converges.   *)
(***************************************************************************)
EXTENDS TrainJob, TLAPS

CacheType == [trainJob: TrainJobs, jobSet: JobSets, podGroup: PodGroups,
              snapshot: Snapshots]

LEMMA NoObjectTyped ==
  /\ NoStatus \in Status /\ NoTrainJob \in TrainJobs /\ NoJobSet \in JobSets
  /\ NoPodGroup \in PodGroups /\ NoSnapshot \in Snapshots
<1>1. FALSE \in BOOLEAN
  OBVIOUS
<1>2. NoStatus \in Status
  BY <1>1 DEF NoStatus, Status, Reasons
<1>3. NoTrainJob \in TrainJobs
  BY <1>1, <1>2 DEF NoTrainJob, TrainJobs
<1> QED BY <1>1, <1>2, <1>3
  DEF NoJobSet, JobSets, NoPodGroup, PodGroups, NoSnapshot, Snapshots

(* The status computed by setTrainJobStatus and setSuspendedCondition.     *)
LEMMA StatusTyped ==
  ASSUME TypeOK, NEW job \in TrainJobs
  PROVE  /\ SetTrainJobStatus(job) \in Status
         /\ SetSuspendedCondition(job, SetTrainJobStatus(job)) \in Status
<1> DEFINE s == SetTrainJobStatus(job)
           c == job.status.complete \/ cache.jobSet.outcome = "Completed"
           f == IF cache.jobSet.outcome = "Failed"
                   /\ job.status.failed # "DeadlineExceeded"
                THEN "JobSetFailed" ELSE job.status.failed
<1>1. job.status \in Status
  BY DEF TrainJobs
<1>2. c \in BOOLEAN
  BY Zenon
<1>3. f \in Reasons
  BY <1>1 DEF Status, Reasons
<1>4. TrainJobStatus(job.status)
        = [job.status EXCEPT !.complete = c, !.failed = f]
  BY <1>1 DEF TrainJobStatus, Status
<1>5. s \in Status
  <2> HIDE DEF c, f
  <2> QED BY Zenon, <1>1, <1>2, <1>3, <1>4 DEF SetTrainJobStatus, Status
<1>6. now \in Nat
  BY DEF TypeOK
<1> HIDE DEF s
<1> DEFINE new == IF job.suspend THEN "True"
                  ELSE IF s.suspended = "True" THEN "False" ELSE s.suspended
<1>7. new \in {"Unset", "True", "False"}
  BY <1>5 DEF Status
<1>8. SetSuspendedCondition(job, s)
        = IF new = s.suspended THEN s
          ELSE [s EXCEPT !.suspended = new, !.since = now]
  BY DEF SetSuspendedCondition
<1> HIDE DEF new
<1>9. [s EXCEPT !.suspended = new, !.since = now] \in Status
  BY Zenon, <1>5, <1>6, <1>7 DEF Status
<1> QED BY <1>5, <1>8, <1>9 DEF s

LEMMA RequeueTyped ==
  ASSUME TypeOK, NEW job \in TrainJobs, NEW status \in Status
  PROVE  RequeueAt(job, status) \in Nat
<1>1. StartTime(job, status) \in Nat
  BY DEF StartTime, TrainJobs, Status
<1>2. now \in Nat /\ ActiveDeadlineSeconds \in Nat
  BY ConstantsAssumption DEF TypeOK
<1> QED BY <1>1, <1>2 DEF RequeueAt

LEMMA BuildTyped ==
  ASSUME NEW job PROVE RunComponentBuilderPlugins(job) \in Seq(Kinds)
<1> "JobSet" \in Kinds /\ "PodGroup" \in Kinds
  BY DEF Kinds
<1> <<>> \in Seq(Kinds) /\ <<"JobSet">> \in Seq(Kinds) /\ <<"PodGroup">> \in Seq(Kinds)
  OBVIOUS
<1>1. BuildJobSet(job) \in Seq(Kinds)
  BY DEF BuildJobSet
<1>2. BuildPodGroup(job) \in Seq(Kinds)
  BY DEF BuildPodGroup
<1> QED BY <1>1, <1>2 DEF RunComponentBuilderPlugins

RecType == [pc: Steps, job: TrainJobs, version: Nat, todo: Seq(Kinds),
            status: Status, err: BOOLEAN, after: Nat]
BudgetType == [uids: Nat, edits: Nat, failures: Nat, crashes: Nat]

LEMMA IdleTyped == Idle \in RecType
<1> <<>> \in Seq(Kinds) /\ FALSE \in BOOLEAN /\ "Idle" \in Steps
  BY DEF Steps
<1> QED BY NoObjectTyped DEF Idle, RecType

(* Return, the end of Reconcile, leaves the workqueue well typed.          *)
LEMMA ReturnTyped ==
  ASSUME TypeOK, NEW err, NEW after \in Nat, Return(err, after)
  PROVE  rec' \in RecType /\ queued' \in BOOLEAN /\ timer' \in Nat
<1>1. queued' \in BOOLEAN
  BY Zenon DEF Return
<1>2. timer' \in Nat
  BY DEF Return, TypeOK
<1> QED BY <1>1, <1>2, IdleTyped DEF Return

LEMMA BudgetTyped ==
  ASSUME TypeOK, budget.uids <= MaxUID, Succeed \/ Fail
  PROVE  budget' \in BudgetType /\ budget'.uids <= MaxUID
  BY SMTT(30) DEF TypeOK, Succeed, Fail, BudgetType

(* What BuildObjects and ObjectsError leave in the call in flight.         *)
LEMMA ObjectsTyped ==
  ASSUME TypeOK, NEW version \in Nat, BuildObjects(version) \/ ObjectsError
  PROVE  rec' \in RecType
<1>1. /\ "Apply" \in Steps /\ "DeleteObjects" \in Steps /\ TRUE \in BOOLEAN
      /\ <<>> \in Seq(Kinds) /\ rec \in RecType
  BY DEF Steps, TypeOK, RecType
<1>2. RunComponentBuilderPlugins(rec.job) \in Seq(Kinds)
  BY BuildTyped
<1> QED BY Zenon, <1>1, <1>2 DEF BuildObjects, ObjectsError, RecType

(* budget.uids is what is left of MaxUID, so that UIDs are positive.       *)
TypeInv == TypeOK /\ budget.uids <= MaxUID

LEMMA InitTypeInv == Init => TypeInv
<1> SUFFICES ASSUME Init PROVE TypeInv
  OBVIOUS
<1>1. queued \in BOOLEAN
  BY Zenon DEF Init
<1>2. budget \in [uids: Nat, edits: Nat, failures: Nat, crashes: Nat]
      /\ budget.uids <= MaxUID
  BY ConstantsAssumption DEF Init
<1>3. cache \in [trainJob: TrainJobs, jobSet: JobSets, podGroup: PodGroups,
                 snapshot: Snapshots]
  BY NoObjectTyped DEF Init
<1>4. rec \in [pc: Steps, job: TrainJobs, version: Nat, todo: Seq(Kinds),
               status: Status, err: BOOLEAN, after: Nat]
  BY IdleTyped DEF Init, RecType
<1> QED BY <1>1, <1>2, <1>3, <1>4, NoObjectTyped DEF Init, TypeInv, TypeOK

LEMMA ReconcileTypeInv == TypeInv /\ Reconcile => TypeInv'
<1> SUFFICES ASSUME TypeInv, Reconcile PROVE TypeInv'
  OBVIOUS
<1> USE DEF TypeInv
<1>0. rec \in RecType /\ rec.job \in TrainJobs
  BY DEF TypeOK, RecType
<1>1. CASE GetTrainJob
  <2>1. queued' \in BOOLEAN
    BY <1>1, Zenon DEF GetTrainJob
  <2>2. rec' \in RecType
    BY Zenon, <1>1, IdleTyped DEF GetTrainJob, RecType, TypeOK, Steps
  <2> QED BY <1>1, <2>1, <2>2 DEF GetTrainJob, objects, TypeOK, RecType
<1>2. CASE NewObjects
  <2>1. rec' \in RecType
    <3>1. runtime \in Nat /\ cache.snapshot.version \in Nat
      BY DEF TypeOK, Snapshots
    <3> QED BY <1>2, <3>1, ObjectsTyped DEF NewObjects, CreateRuntimeSnapshot
  <2>2. snapshot' \in Snapshots
    <3>1. snapshot' \in {snapshot, [owner |-> rec.job.uid, version |-> runtime]}
      BY <1>2 DEF NewObjects, CreateRuntimeSnapshot
    <3>2. snapshot \in Snapshots /\ runtime \in Nat /\ rec.job.uid \in Nat
      BY <1>0 DEF TypeOK, TrainJobs
    <3> QED BY <3>1, <3>2 DEF Snapshots
  <2>3. budget' \in BudgetType /\ budget'.uids <= MaxUID
    BY <1>2, BudgetTyped DEF NewObjects, CreateRuntimeSnapshot
  <2> QED BY <1>2, <2>1, <2>2, <2>3 DEF NewObjects, TypeOK, RecType, BudgetType
<1>3. CASE ApplyObject
  <2>1. rec' \in RecType
    <3>1. CASE rec' = [rec EXCEPT !.todo = Tail(@)] /\ rec.todo # <<>>
      <4>1. Tail(rec.todo) \in Seq(Kinds)
        BY <3>1, <1>0 DEF RecType
      <4> QED BY Zenon, <3>1, <4>1, <1>0 DEF RecType
    <3> QED BY Zenon, <1>3, <3>1, ObjectsTyped DEF ApplyObject
  <2>2. jobSet' \in JobSets
    <3>1. AppliedJobSet(rec.job, rec.version) \in JobSets
      BY Zenon, <1>0 DEF AppliedJobSet, JobSets, TypeOK, RecType, TrainJobs
    <3> QED BY Zenon, <1>3, <3>1 DEF ApplyObject, TypeOK
  <2>3. podGroup' \in PodGroups
    <3>1. podGroup' \in {podGroup, [owner |-> rec.job.uid, patches |-> rec.job.patches]}
      BY <1>3 DEF ApplyObject
    <3>2. podGroup \in PodGroups /\ rec.job.uid \in Nat /\ rec.job.patches \in Nat
      BY Zenon, <1>0 DEF TypeOK, TrainJobs
    <3> QED BY <3>1, <3>2 DEF PodGroups
  <2>4. budget' \in BudgetType /\ budget'.uids <= MaxUID
    BY <1>3, BudgetTyped DEF ApplyObject
  <2> QED BY <1>3, <2>1, <2>2, <2>3, <2>4 DEF ApplyObject, TypeOK, RecType, BudgetType
<1>4. CASE DeleteObjects
  <2>1. rec' \in RecType
    <3>1. "Status" \in Steps /\ TRUE \in BOOLEAN
      BY DEF Steps
    <3> QED BY Zenon, <1>4, <1>0, <3>1 DEF DeleteObjects, RecType
  <2>2. podGroup' \in PodGroups
    BY Zenon, <1>4, NoObjectTyped DEF DeleteObjects, TypeOK
  <2>3. budget' \in BudgetType /\ budget'.uids <= MaxUID
    BY <1>4, BudgetTyped DEF DeleteObjects
  <2> QED BY <1>4, <2>1, <2>2, <2>3 DEF DeleteObjects, TypeOK, RecType, BudgetType
<1>5. CASE SetStatus
  <2> DEFINE status == SetSuspendedCondition(rec.job, SetTrainJobStatus(rec.job))
             exceeded == DeadlineExceeded(rec.job, status)
             final == IF exceeded THEN [status EXCEPT !.failed = "DeadlineExceeded"]
                                  ELSE status
             err == rec.err \/ StatusError(rec.job)
             after == RequeueAt(rec.job, status)
  <2>1. status \in Status
    BY <1>0, StatusTyped
  <2>2. after \in Nat
    BY <1>0, <2>1, RequeueTyped
  <2>3. final \in Status
    <3> HIDE DEF status
    <3> QED BY <2>1 DEF Status, Reasons
  <2>4. err \in BOOLEAN
    BY Zenon
  <2>5. /\ jobSet' \in {NoJobSet, jobSet}
        /\ Succeed \/ Fail
        /\ \/ Return(err, after)
           \/ /\ rec' = [rec EXCEPT !.pc = "Patch", !.status = final,
                                     !.err = err, !.after = after]
              /\ UNCHANGED <<queued, timer>>
        /\ UNCHANGED <<trainJob, podGroup, snapshot, runtime, cache, now, ran>>
    BY <1>5 DEF SetStatus
  <2> HIDE DEF status, exceeded, final, err, after
  <2>6. "Patch" \in Steps
    BY DEF Steps
  <2>7. rec' \in RecType /\ queued' \in BOOLEAN /\ timer' \in Nat
    <3>1. CASE Return(err, after)
      BY <3>1, <2>2, ReturnTyped
    <3>2. CASE ~Return(err, after)
      BY Zenon, <3>2, <2>5, <2>6, <2>2, <2>3, <2>4, <1>0 DEF RecType, TypeOK
    <3> QED BY <3>1, <3>2
  <2>8. jobSet' \in JobSets
    BY Zenon, <2>5, NoObjectTyped DEF TypeOK
  <2> QED BY Zenon, <2>5, <2>7, <2>8, BudgetTyped DEF TypeOK, RecType, BudgetType
<1>6. CASE PatchStatus
  <2>1. rec.after \in Nat /\ rec.status \in Status
    BY <1>0 DEF RecType
  <2>2. rec' \in RecType /\ queued' \in BOOLEAN /\ timer' \in Nat
    BY Zenon, <1>6, <2>1, ReturnTyped DEF PatchStatus
  <2>3. trainJob' \in TrainJobs
    <3>1. trainJob' \in {trainJob, [trainJob EXCEPT !.status = rec.status]}
      BY Zenon, <1>6 DEF PatchStatus
    <3>2. trainJob \in TrainJobs
      BY DEF TypeOK
    <3> QED BY <2>1, <3>1, <3>2 DEF TrainJobs
  <2>4. budget' \in BudgetType /\ budget'.uids <= MaxUID
    BY Zenon, <1>6, BudgetTyped DEF PatchStatus
  <2> QED BY <1>6, <2>2, <2>3, <2>4 DEF PatchStatus, TypeOK, RecType, BudgetType
<1> QED BY <1>1, <1>2, <1>3, <1>4, <1>5, <1>6 DEF Reconcile

LEMMA NextTypeInv == TypeInv /\ [Next]_vars => TypeInv'
<1> SUFFICES ASSUME TypeInv, [Next]_vars PROVE TypeInv'
  OBVIOUS
<1> USE DEF TypeInv, objects
<1>0. /\ budget \in BudgetType /\ budget.uids <= MaxUID /\ MaxUID \in Nat
      /\ trainJob \in TrainJobs /\ jobSet \in JobSets
  BY ConstantsAssumption DEF TypeOK, BudgetType
<1>1. CASE Reconcile
  BY <1>1, ReconcileTypeInv
<1>2. CASE SyncTrainJob \/ SyncJobSet \/ SyncPodGroup \/ SyncSnapshot
  <2>1. cache' \in CacheType
    BY SMTT(30), <1>2 DEF SyncTrainJob, SyncJobSet, SyncPodGroup, SyncSnapshot, Sync,
                CacheType, TypeOK
  <2>2. queued' \in BOOLEAN
    BY <1>2, Zenon DEF SyncTrainJob, SyncJobSet, SyncPodGroup, SyncSnapshot, Sync
  <2> QED BY <1>2, <2>1, <2>2 DEF SyncTrainJob, SyncJobSet, SyncPodGroup,
             SyncSnapshot, Sync, CacheType, TypeOK
<1>3. CASE TimerFires
  BY <1>3 DEF TimerFires, TypeOK
<1>4. CASE Crash
  <2>1. queued' \in BOOLEAN
    BY <1>4, Zenon DEF Crash
  <2>2. cache' \in CacheType
    BY <1>4 DEF Crash, CacheType, TypeOK
  <2>3. budget' \in BudgetType /\ budget'.uids <= MaxUID
    BY <1>4, <1>0 DEF Crash, BudgetType
  <2> QED BY <1>4, <2>1, <2>2, <2>3, IdleTyped
          DEF Crash, TypeOK, RecType, BudgetType, CacheType
<1>5. ASSUME NEW suspend \in BOOLEAN, CreateTrainJob(suspend) PROVE TypeInv'
  <2>1. MaxUID - budget.uids + 1 \in Nat /\ now \in Nat
    BY ConstantsAssumption DEF TypeOK
  <2>2. trainJob' \in TrainJobs
    BY Zenon, <1>5, <2>1, NoObjectTyped DEF CreateTrainJob, TrainJobs
  <2>3. budget' \in BudgetType /\ budget'.uids <= MaxUID
    BY <1>5, <1>0 DEF CreateTrainJob, BudgetType
  <2> QED BY <1>5, <2>2, <2>3 DEF CreateTrainJob, TypeOK, BudgetType
<1>6. ASSUME NEW suspend \in BOOLEAN, NEW patches \in 0 .. MaxPatches,
             UpdateTrainJob(suspend, patches)
      PROVE  TypeInv'
  <2>1. trainJob' \in TrainJobs
    <3>1. patches \in Nat
      BY ConstantsAssumption
    <3> QED BY Zenon, <1>6, <1>0, <3>1 DEF UpdateTrainJob, TrainJobs
  <2>2. budget' \in BudgetType /\ budget'.uids <= MaxUID
    BY <1>6, <1>0 DEF UpdateTrainJob, BudgetType
  <2> QED BY <1>6, <2>1, <2>2 DEF UpdateTrainJob, TypeOK, BudgetType
<1>7. CASE DeleteTrainJob
  BY <1>7, NoObjectTyped DEF DeleteTrainJob, TypeOK
<1>8. CASE EditRuntime
  BY <1>8 DEF EditRuntime, TypeOK
<1>9. CASE JobSetController
  <2>1. jobSet' \in JobSets
    <3>1. CASE JobSetStarts \/ JobSetStops
      BY Zenon, <3>1, <1>0 DEF JobSetStarts, JobSetStops, JobSets
    <3>2. CASE JobSetFinishes
      BY Zenon, <3>2, <1>0 DEF JobSetFinishes, JobSets
    <3>3. CASE JobSetExpires
      BY <3>3, NoObjectTyped DEF JobSetExpires
    <3> QED BY <1>9, <3>1, <3>2, <3>3 DEF JobSetController
  <2>2. ran' \subseteq (Nat \X {"Completed", "Failed"})
    <3>1. ran \subseteq (Nat \X {"Completed", "Failed"}) /\ jobSet.owner \in Nat
      BY DEF TypeOK, JobSets
    <3>2. \/ ran' = ran
          \/ \E outcome \in {"Completed", "Failed"} :
               ran' = ran \union {<<jobSet.owner, outcome>>}
      BY Zenon, <1>9 DEF JobSetController, JobSetStarts, JobSetStops, JobSetFinishes,
         JobSetExpires
    <3> QED BY <3>1, <3>2
  <2> QED BY <1>9, <2>1, <2>2 DEF JobSetController, TypeOK
<1>10. CASE CollectGarbage
  BY <1>10, NoObjectTyped DEF CollectGarbage, TypeOK
<1>11. CASE Tick
  BY <1>11 DEF Tick, TypeOK
<1>12. CASE UNCHANGED vars
  BY <1>12 DEF vars, TypeOK
<1> QED BY <1>1, <1>2, <1>3, <1>4, <1>5, <1>6, <1>7, <1>8, <1>9, <1>10, <1>11,
           <1>12 DEF Next, User

(* Every object, the cache's copies and the call in flight keep their      *)
(* types, whatever the bounds on the clock, edits, failures and crashes.   *)
THEOREM TrainJobTypeOK == Spec => []TypeOK
<1>1. TypeInv => TypeOK
  BY DEF TypeInv
<1> QED BY InitTypeInv, NextTypeInv, <1>1, PTL DEF Spec

-----------------------------------------------------------------------------
(***************************************************************************)
(* The outcome a TrainJob reports travels from the JobSet through the      *)
(* cache, the call in flight and the status patch.  As long as one         *)
(* TrainJob has the name, every copy on that way is backed by ran.         *)
(***************************************************************************)
Backed(status) ==
  /\ status.complete => <<1, "Completed">> \in ran
  /\ status.failed = "JobSetFailed" => <<1, "Failed">> \in ran

BackedJobSet(js) ==
  /\ js.owner \in {0, 1} /\ (js.active => js.owner = 1)
  /\ js.outcome = "Completed" => <<1, "Completed">> \in ran
  /\ js.outcome = "Failed" => <<1, "Failed">> \in ran

OwnInv ==
  /\ trainJob.uid \in {0, 1} /\ cache.trainJob.uid \in {0, 1}
  /\ rec.pc # "Idle" => rec.job.uid = 1
  /\ Backed(trainJob.status) /\ Backed(cache.trainJob.status)
  /\ Backed(rec.job.status) /\ Backed(rec.status)
  /\ BackedJobSet(jobSet) /\ BackedJobSet(cache.jobSet)

LEMMA InitOwnInv == Init => OwnInv
<1> SUFFICES ASSUME Init PROVE OwnInv
  OBVIOUS
<1>1. Backed(NoStatus) /\ BackedJobSet(NoJobSet)
  BY DEF Backed, BackedJobSet, NoStatus, NoJobSet
<1> QED BY <1>1 DEF Init, OwnInv, NoTrainJob, Idle

(* Status of the JobSet plugin, then setSuspendedCondition.                *)
LEMMA StatusBacked ==
  ASSUME TypeOK, NEW job \in TrainJobs, Backed(job.status), BackedJobSet(cache.jobSet)
  PROVE  Backed(SetSuspendedCondition(job, SetTrainJobStatus(job)))
<1> DEFINE s == SetTrainJobStatus(job)
<1>1. job.status \in Status
  BY DEF TrainJobs
<1>2. Backed(s)
  BY <1>1 DEF SetTrainJobStatus, TrainJobStatus, Backed, BackedJobSet, Status
<1>3. s \in Status
  BY StatusTyped
<1> HIDE DEF s
<1> QED BY <1>2, <1>3 DEF SetSuspendedCondition, Backed, Status, s

LEMMA ReconcileOwnInv == TypeInv /\ OwnInv /\ Reconcile => OwnInv'
<1> SUFFICES ASSUME TypeInv, OwnInv, Reconcile PROVE OwnInv'
  OBVIOUS
<1>0. /\ rec \in RecType /\ rec.job \in TrainJobs /\ rec.status \in Status
      /\ trainJob \in TrainJobs /\ jobSet \in JobSets /\ TypeOK
  BY DEF TypeOK, RecType, TypeInv
<1>a. Backed(Idle.job.status) /\ Backed(Idle.status) /\ Idle.pc = "Idle"
  BY DEF Backed, Idle, NoTrainJob, NoStatus
<1>1. CASE GetTrainJob
  <2>1. \/ rec' = Idle
        \/ /\ cache.trainJob.uid = 1 /\ rec'.job = cache.trainJob
           /\ rec'.status = Idle.status
    BY Zenon, <1>1 DEF GetTrainJob, OwnInv, Idle
  <2> QED BY <1>1, <2>1, <1>a DEF GetTrainJob, OwnInv, Backed, BackedJobSet, objects
<1>2. CASE NewObjects
  <2>1. rec'.job = rec.job /\ rec'.status = rec.status /\ rec.pc # "Idle"
    BY Zenon, <1>2, <1>0 DEF NewObjects, CreateRuntimeSnapshot, BuildObjects,
       ObjectsError, RecType
  <2> QED BY <1>2, <2>1 DEF NewObjects, OwnInv, Backed, BackedJobSet
<1>3. CASE ApplyObject
  <2>1. rec'.job = rec.job /\ rec'.status = rec.status /\ rec.pc # "Idle"
    BY Zenon, <1>3, <1>0 DEF ApplyObject, ObjectsError, RecType
  <2>2. jobSet' \in {jobSet, AppliedJobSet(rec.job, rec.version)}
    BY <1>3 DEF ApplyObject
  <2>3. rec.job.uid = 1
    BY <2>1 DEF OwnInv
  <2>4. jobSet'.owner \in {jobSet.owner, 1} /\ jobSet'.outcome = jobSet.outcome
        /\ (jobSet'.active => jobSet.active)
    BY Zenon, <2>2, <2>3, <1>0 DEF AppliedJobSet, JobSets
  <2>5. BackedJobSet(jobSet)'
    BY Zenon, <1>3, <2>2, <2>3, <2>4, <1>0 DEF ApplyObject, OwnInv, BackedJobSet, AppliedJobSet, JobSets
  <2> QED BY <1>3, <2>1, <2>5 DEF ApplyObject, OwnInv, Backed, BackedJobSet
<1>4. CASE DeleteObjects
  <2>1. rec'.job = rec.job /\ rec'.status = rec.status /\ rec.pc # "Idle"
    BY Zenon, <1>4, <1>0 DEF DeleteObjects, RecType
  <2> QED BY <1>4, <2>1 DEF DeleteObjects, OwnInv, Backed, BackedJobSet
<1>5. CASE SetStatus
  <2> DEFINE status == SetSuspendedCondition(rec.job, SetTrainJobStatus(rec.job))
             final == IF DeadlineExceeded(rec.job, status)
                      THEN [status EXCEPT !.failed = "DeadlineExceeded"]
                      ELSE status
  <2>1. status \in Status /\ Backed(status)
    BY <1>0, StatusTyped, StatusBacked DEF OwnInv
  <2>2. Backed(final)
    <3> HIDE DEF status
    <3> QED BY <2>1 DEF Backed, Status
  <2>3. /\ jobSet' \in {NoJobSet, jobSet}
        /\ \/ rec' = Idle
           \/ /\ rec'.job = rec.job /\ rec'.status = final
              /\ rec.pc # "Idle"
        /\ UNCHANGED <<trainJob, cache, ran>>
    BY Zenon, <1>5, <1>0 DEF SetStatus, Return, RecType
  <2>4. BackedJobSet(NoJobSet)
    BY DEF BackedJobSet, NoJobSet
  <2> HIDE DEF final
  <2> QED BY <2>2, <2>3, <2>4, <1>a DEF OwnInv, Backed, BackedJobSet
<1>6. CASE PatchStatus
  <2>1. rec' = Idle
    BY <1>6 DEF PatchStatus, Return
  <2>2. /\ trainJob' \in {trainJob, [trainJob EXCEPT !.status = rec.status]}
        /\ UNCHANGED <<jobSet, cache, ran>>
    BY Zenon, <1>6 DEF PatchStatus
  <2>3. trainJob'.uid = trainJob.uid /\ trainJob'.status \in {trainJob.status, rec.status}
    BY <2>2, <1>0 DEF TrainJobs
  <2> QED BY <2>1, <2>2, <2>3, <1>a DEF OwnInv, Backed, BackedJobSet
<1> QED BY <1>1, <1>2, <1>3, <1>4, <1>5, <1>6 DEF Reconcile

LEMMA NextOwnInv ==
  ASSUME MaxUID = 1, TypeInv, OwnInv, [Next]_vars
  PROVE  OwnInv'
<1>0. /\ trainJob \in TrainJobs /\ jobSet \in JobSets
      /\ cache \in CacheType /\ budget.uids \in Nat /\ budget.uids <= MaxUID
  BY Zenon DEF TypeInv, TypeOK, CacheType
<1>a. /\ Backed(NoTrainJob.status) /\ NoTrainJob.uid = 0
      /\ BackedJobSet(NoJobSet)
      /\ Backed(Idle.job.status) /\ Backed(Idle.status) /\ Idle.pc = "Idle"
  BY DEF Backed, BackedJobSet, Idle, NoTrainJob, NoStatus, NoJobSet
<1> USE DEF objects
<1>1. CASE Reconcile
  BY Zenon, <1>1, ReconcileOwnInv
<1>2. CASE SyncTrainJob \/ SyncJobSet \/ SyncPodGroup \/ SyncSnapshot
  <2>1. /\ cache'.trainJob \in {trainJob, cache.trainJob}
        /\ cache'.jobSet \in {jobSet, cache.jobSet}
        /\ UNCHANGED <<trainJob, jobSet, rec, ran>>
    BY Zenon, <1>2, <1>0 DEF SyncTrainJob, SyncJobSet, SyncPodGroup, SyncSnapshot, Sync,
                CacheType
  <2> QED BY <2>1 DEF OwnInv, Backed, BackedJobSet
<1>3. CASE TimerFires
  BY <1>3 DEF TimerFires, OwnInv, Backed, BackedJobSet
<1>4. CASE Crash
  BY <1>4, <1>a DEF Crash, OwnInv, Backed, BackedJobSet
<1>5. ASSUME NEW suspend \in BOOLEAN, CreateTrainJob(suspend) PROVE OwnInv'
  <2>1. trainJob'.uid = 1 /\ trainJob'.status = NoTrainJob.status
    BY <1>5, <1>0, NoObjectTyped DEF CreateTrainJob, TrainJobs
  <2> QED BY <1>5, <2>1, <1>a DEF CreateTrainJob, OwnInv, Backed, BackedJobSet
<1>6. ASSUME NEW suspend \in BOOLEAN, NEW patches \in 0 .. MaxPatches,
             UpdateTrainJob(suspend, patches)
      PROVE  OwnInv'
  <2>1. trainJob'.uid = trainJob.uid /\ trainJob'.status = trainJob.status
    BY Zenon, <1>6, <1>0 DEF UpdateTrainJob, TrainJobs
  <2> QED BY <1>6, <2>1 DEF UpdateTrainJob, OwnInv, Backed, BackedJobSet
<1>7. CASE DeleteTrainJob
  BY <1>7, <1>a DEF DeleteTrainJob, OwnInv, Backed, BackedJobSet
<1>8. CASE EditRuntime
  BY <1>8 DEF EditRuntime, OwnInv, Backed, BackedJobSet
<1>9. CASE JobSetController
  <2>1. ran \subseteq ran' /\ UNCHANGED <<trainJob, cache, rec>>
    BY Zenon, <1>9 DEF JobSetController, JobSetStarts, JobSetStops, JobSetFinishes,
       JobSetExpires
  <2>2. BackedJobSet(jobSet)'
    <3> USE DEF OwnInv, BackedJobSet
    <3>1. CASE JobSetStarts \/ JobSetStops
      BY <3>1, <1>0 DEF JobSetStarts, JobSetStops, JobSets
    <3>2. CASE JobSetFinishes
      BY Zenon, <3>2, <1>0 DEF JobSetFinishes, JobSets
    <3>3. CASE JobSetExpires
      BY Zenon, <3>3, <1>a DEF JobSetExpires
    <3> QED BY <1>9, <3>1, <3>2, <3>3 DEF JobSetController
  <2> QED BY <2>1, <2>2 DEF OwnInv, Backed, BackedJobSet
<1>10. CASE CollectGarbage
  BY <1>10, <1>a DEF CollectGarbage, OwnInv, Backed, BackedJobSet
<1>11. CASE Tick
  BY <1>11 DEF Tick, OwnInv, Backed, BackedJobSet
<1>12. CASE UNCHANGED vars
  BY <1>12 DEF vars, OwnInv, Backed, BackedJobSet
<1> QED BY Zenon, <1>1, <1>2, <1>3, <1>4, <1>5, <1>6, <1>7, <1>8, <1>9, <1>10, <1>11,
           <1>12 DEF Next, User

-----------------------------------------------------------------------------
(***************************************************************************)
(* The TrainJob controller follows the life of a TrainJob: every step of   *)
(* TrainJob is a step of TrainJobLifecycle, or changes nothing in it.  It  *)
(* is shown for one TrainJob per name, in the two cases in which it holds: *)
(* every Reconcile starts from the current TrainJob, or reads may be stale *)
(* but no deadline and no time to live ever deletes the JobSet.            *)
(***************************************************************************)
(* The verdicts a status patch may bring: those it finds, and at most one  *)
(* more.                                                                   *)
Grows(old, new) ==
  \/ new.complete = old.complete /\ new.failed = old.failed
  \/ ~old.complete /\ new.complete /\ new.failed = old.failed
  \/ /\ old.failed = "None" /\ new.failed = "JobSetFailed"
     /\ new.complete = old.complete
  \/ /\ ActiveDeadlineSeconds # 0
     /\ ~IsTrainJobFinished(old) /\ new.failed = "DeadlineExceeded"
     /\ new.complete = old.complete

(* Before the TrainJob is created nothing has happened, and once it is     *)
(* there it stays.                                                         *)
BornInv ==
  /\ trainJob.uid = 0 => /\ trainJob = NoTrainJob /\ cache.trainJob.uid = 0
                         /\ rec = Idle /\ jobSet = NoJobSet /\ ran = {}
  /\ trainJob.uid # 0 => budget.uids = 0

(* Reads are fresh: what the call in flight read of the verdicts is what   *)
(* is stored, since only its own patch changes them.                       *)
FreshInv ==
  /\ rec.pc # "Idle" => rec.job.status = trainJob.status
  /\ rec.pc = "Patch" => Grows(trainJob.status, rec.status)

(* Reads are stale, but a JobSet that ended stays: every verdict, however  *)
(* old the copy, is the outcome that the cached JobSet shows.              *)
Shown(status) ==
  /\ status.complete => cache.jobSet.outcome = "Completed"
  /\ status.failed # "None" => /\ status.failed = "JobSetFailed"
                               /\ cache.jobSet.outcome = "Failed"

Ended(js) ==
  /\ js.active => js.outcome = "None"
  /\ js.outcome # "None" => js.owner = 1

StaleInv ==
  /\ Ended(jobSet) /\ Ended(cache.jobSet)
  /\ cache.jobSet.outcome # "None" => jobSet.outcome = cache.jobSet.outcome
  /\ Shown(trainJob.status) /\ Shown(cache.trainJob.status)
  /\ rec.pc # "Idle" => Shown(rec.job.status)
  /\ rec.pc = "Patch" => /\ Shown(rec.status)
                         /\ Grows(trainJob.status, rec.status)

LifeInv == BornInv /\ (StaleReads => StaleInv) /\ (~StaleReads => FreshInv)

LEMMA InitLifeInv == Init => LifeInv
<1> SUFFICES ASSUME Init PROVE LifeInv
  BY Zenon
<1>1. Shown(NoStatus) /\ Ended(NoJobSet)
  BY DEF Shown, Ended, NoStatus, NoJobSet
<1> QED BY <1>1 DEF Init, LifeInv, BornInv, StaleInv, FreshInv, NoTrainJob, Idle,
           NoJobSet

-----------------------------------------------------------------------------
(* setSuspendedCondition leaves the verdicts alone.                        *)
LEMMA SuspendedKeepsVerdicts ==
  ASSUME NEW job, NEW status \in Status
  PROVE  /\ SetSuspendedCondition(job, status).complete = status.complete
         /\ SetSuspendedCondition(job, status).failed = status.failed
  BY DEF SetSuspendedCondition, Status

(* setTrainJobStatus: the verdicts copied from the cached JobSet.          *)
LEMMA CopiedVerdicts ==
  ASSUME TypeOK, NEW job \in TrainJobs
  PROVE  LET s == SetTrainJobStatus(job)
         IN IF cache.jobSet.owner = 0 THEN s = job.status
            ELSE /\ s.complete = (job.status.complete
                                  \/ cache.jobSet.outcome = "Completed")
                 /\ s.failed = IF cache.jobSet.outcome = "Failed"
                                  /\ job.status.failed # "DeadlineExceeded"
                               THEN "JobSetFailed" ELSE job.status.failed
<1>1. job.status \in Status
  BY DEF TrainJobs
<1> QED BY <1>1 DEF SetTrainJobStatus, TrainJobStatus, Status

(* What SetStatus computes before it patches.                              *)
Copied(job) == SetSuspendedCondition(job, SetTrainJobStatus(job))

Final(job) == IF DeadlineExceeded(job, Copied(job))
              THEN [Copied(job) EXCEPT !.failed = "DeadlineExceeded"]
              ELSE Copied(job)

LEMMA SetStatusGives ==
  ASSUME TypeInv, SetStatus
  PROVE  /\ jobSet' = jobSet \/ (jobSet' = NoJobSet /\ ActiveDeadlineSeconds # 0)
         /\ \/ rec' = Idle
            \/ /\ rec'.pc = "Patch" /\ rec'.job = rec.job
               /\ rec'.status = Final(rec.job)
         /\ rec.pc = "Status"
         /\ UNCHANGED <<trainJob, cache, ran>> /\ budget'.uids = budget.uids
<1>1. rec \in RecType /\ budget \in BudgetType
  BY DEF TypeInv, TypeOK, RecType, BudgetType
<1>2. budget'.uids = budget.uids
  BY <1>1 DEF SetStatus, Succeed, Fail, BudgetType
<1>3. \/ rec' = Idle
      \/ /\ rec'.pc = "Patch" /\ rec'.job = rec.job
         /\ rec'.status = Final(rec.job)
  <2> DEFINE err == rec.err \/ StatusError(rec.job)
             after == RequeueAt(rec.job, Copied(rec.job))
             final == Final(rec.job)
  <2>1. \/ rec' = Idle
        \/ rec' = [rec EXCEPT !.pc = "Patch", !.status = final,
                               !.err = err, !.after = after]
    BY DEF SetStatus, Return, Final, Copied
  <2> HIDE DEF err, after, final
  <2>2. \/ rec' = Idle
        \/ /\ rec'.pc = "Patch" /\ rec'.job = rec.job
           /\ rec'.status = final
    BY Zenon, <1>1, <2>1 DEF RecType
  <2> QED BY <2>2 DEF final
<1>4. jobSet' = jobSet \/ (jobSet' = NoJobSet /\ ActiveDeadlineSeconds # 0)
  BY DEF SetStatus, DeadlineExceeded, HasDeadline
<1> QED BY Zenon, <1>2, <1>3, <1>4 DEF SetStatus

(* From a current copy of the TrainJob: at most one verdict is added.      *)
LEMMA FinalGrows ==
  ASSUME TypeOK, NEW job \in TrainJobs
  PROVE  Grows(job.status, Final(job))
<1> DEFINE s == SetTrainJobStatus(job)
           c == Copied(job)
<1>1. job.status \in Status /\ s \in Status /\ c \in Status
  BY StatusTyped DEF TrainJobs, Copied
<1>2. c.complete = s.complete /\ c.failed = s.failed
  BY <1>1, SuspendedKeepsVerdicts DEF Copied
<1>3. cache.jobSet.owner = 0 => s = job.status
  BY Zenon, CopiedVerdicts
<1>4. cache.jobSet.owner # 0 =>
        /\ s.complete = (job.status.complete \/ cache.jobSet.outcome = "Completed")
        /\ s.failed = IF cache.jobSet.outcome = "Failed"
                         /\ job.status.failed # "DeadlineExceeded"
                      THEN "JobSetFailed" ELSE job.status.failed
  BY CopiedVerdicts
<1>5. /\ Final(job).complete = c.complete
      /\ Final(job).failed = IF DeadlineExceeded(job, c)
                             THEN "DeadlineExceeded" ELSE c.failed
  <2> HIDE DEF c
  <2>1. Copied(job) \in Status
    BY <1>1 DEF c
  <2> QED BY <2>1 DEF Final, Status, c
<1>6. DeadlineExceeded(job, c) =>
        ActiveDeadlineSeconds # 0 /\ ~c.complete /\ c.failed = "None"
  BY DEF DeadlineExceeded, HasDeadline, IsTrainJobFinished
<1> HIDE DEF s, c
<1>7. /\ job.status.complete \in BOOLEAN /\ s.complete \in BOOLEAN
      /\ job.status.failed \in Reasons
  BY Zenon, <1>1 DEF Status
<1>8. CASE DeadlineExceeded(job, c)
  <2>1. ~s.complete /\ s.failed = "None"
    BY Zenon, <1>8, <1>6, <1>2
  <2>2. ~job.status.complete /\ job.status.failed = "None"
    BY Zenon, <2>1, <1>3, <1>4, <1>7 DEF Reasons
  <2>3. /\ Final(job).complete = job.status.complete
        /\ Final(job).failed = "DeadlineExceeded"
    BY Zenon, <1>8, <1>5, <1>2, <2>1, <2>2, <1>7
  <2> QED BY <1>8, <1>6, <2>2, <2>3 DEF Grows, IsTrainJobFinished
<1>9. CASE ~DeadlineExceeded(job, c)
  <2>1. Final(job).complete = s.complete /\ Final(job).failed = s.failed
    BY Zenon, <1>9, <1>5, <1>2
  <2>2. CASE cache.jobSet.owner = 0
    BY Zenon, <2>1, <2>2, <1>3 DEF Grows
  <2>3. CASE cache.jobSet.owner # 0 /\ cache.jobSet.outcome = "Failed"
    <3>1. s.complete = job.status.complete
      BY <2>3, <1>4, <1>7
    <3>2. \/ s.failed = job.status.failed
          \/ job.status.failed = "None" /\ s.failed = "JobSetFailed"
      <4>1. job.status.failed \in {"None", "JobSetFailed", "DeadlineExceeded"}
        BY <1>7 DEF Reasons
      <4>2. job.status.failed # "DeadlineExceeded" => s.failed = "JobSetFailed"
        BY <2>3, <1>4
      <4>3. job.status.failed = "DeadlineExceeded" => s.failed = job.status.failed
        BY Zenon, <2>3, <1>4
      <4> QED BY <4>1, <4>2, <4>3
    <3> QED BY Zenon, <2>1, <3>1, <3>2 DEF Grows
  <2>4. CASE cache.jobSet.owner # 0 /\ cache.jobSet.outcome # "Failed"
    <3>1. s.failed = job.status.failed
      BY <2>4, <1>4
    <3>2. s.complete = job.status.complete \/ (~job.status.complete /\ s.complete)
      BY Zenon, <2>4, <1>4, <1>7
    <3> QED BY <2>1, <3>1, <3>2 DEF Grows
  <2> QED BY Zenon, <2>2, <2>3, <2>4
<1> QED BY <1>8, <1>9

(* From a copy that may be old, without deadlines: every verdict stored,   *)
(* read or computed is the outcome of the cached JobSet.                   *)
LEMMA FinalShown ==
  ASSUME TypeOK, NEW job \in TrainJobs, ActiveDeadlineSeconds = 0,
         StaleInv, Shown(job.status)
  PROVE  Shown(Final(job)) /\ Grows(trainJob.status, Final(job))
<1> DEFINE s == SetTrainJobStatus(job)
           final == Final(job)
           outcome == cache.jobSet.outcome
<1>1. job.status \in Status /\ s \in Status /\ trainJob.status \in Status
  BY Zenon, StatusTyped DEF TrainJobs, TypeOK
<1>2. final = Copied(job)
  BY DEF Final, DeadlineExceeded, HasDeadline
<1>3. final.complete = s.complete /\ final.failed = s.failed
  BY <1>1, <1>2, SuspendedKeepsVerdicts DEF Copied
<1>4. outcome # "None" => cache.jobSet.owner # 0
  BY DEF StaleInv, Ended
<1>5. outcome = "None" => s.complete = job.status.complete
                          /\ s.failed = job.status.failed
  BY <1>1, CopiedVerdicts DEF Status
<1>6. outcome = "Completed" => s.complete /\ s.failed = job.status.failed
  BY Zenon, <1>4, CopiedVerdicts
<1>7. outcome = "Failed" => /\ s.complete = job.status.complete
                            /\ s.failed = "JobSetFailed"
  <2> SUFFICES ASSUME outcome = "Failed" PROVE s.complete = job.status.complete
                                               /\ s.failed = "JobSetFailed"
    OBVIOUS
  <2>1. job.status.failed # "DeadlineExceeded"
    BY DEF Shown
  <2>2. s.failed = "JobSetFailed"
    BY Zenon, <1>4, <2>1, CopiedVerdicts
  <2>3. s.complete = (job.status.complete \/ FALSE)
    BY Zenon, <1>4, CopiedVerdicts
  <2> QED BY Zenon, <2>2, <2>3, <1>1 DEF Status
<1>8. outcome \in {"None", "Completed", "Failed"}
  BY Zenon DEF TypeOK, JobSets
<1>9. Shown(trainJob.status)
  BY Zenon DEF StaleInv
<1> HIDE DEF s, final
<1>10. /\ trainJob.status.complete \in BOOLEAN /\ job.status.complete \in BOOLEAN
       /\ s.complete \in BOOLEAN
  BY Zenon, <1>1 DEF Status
<1>11. CASE outcome = "None"
  <2>1. /\ ~trainJob.status.complete /\ trainJob.status.failed = "None"
        /\ ~job.status.complete /\ job.status.failed = "None"
    BY Zenon, <1>9, <1>11 DEF Shown
  <2>2. ~final.complete /\ final.failed = "None"
    BY Zenon, <2>1, <1>3, <1>5, <1>11
  <2>3. final.complete = trainJob.status.complete
    BY <2>1, <2>2, <1>10, <1>3
  <2> QED BY Zenon, <2>1, <2>2, <2>3 DEF Shown, Grows, final
<1>12. CASE outcome = "Completed"
  <2>1. trainJob.status.failed = "None" /\ job.status.failed = "None"
    BY <1>9, <1>12 DEF Shown
  <2>2. final.complete /\ final.failed = "None"
    BY <2>1, <1>3, <1>6, <1>12
  <2>3. final.complete = trainJob.status.complete \/ ~trainJob.status.complete
    BY Zenon, <2>2, <1>10, <1>3
  <2> QED BY Zenon, <1>12, <2>1, <2>2, <2>3 DEF Shown, Grows, final
<1>13. CASE outcome = "Failed"
  <2>1. /\ ~trainJob.status.complete /\ ~job.status.complete
        /\ trainJob.status.failed \in {"None", "JobSetFailed"}
    BY <1>9, <1>13 DEF Shown
  <2>2. ~final.complete /\ final.failed = "JobSetFailed"
    BY Zenon, <2>1, <1>3, <1>7, <1>13
  <2>3. final.complete = trainJob.status.complete
    BY <2>1, <2>2, <1>10, <1>3
  <2> QED BY <1>13, <2>1, <2>2, <2>3 DEF Shown, Grows, final
<1> QED BY <1>8, <1>11, <1>12, <1>13

-----------------------------------------------------------------------------
(* The steps of Reconcile: read, build and apply, compute, patch.          *)
LEMMA ReconcileLifeInv ==
  ASSUME MaxUID = 1, StaleReads => ~TTL /\ ActiveDeadlineSeconds = 0,
         TypeInv, OwnInv, LifeInv, Reconcile
  PROVE  LifeInv'
<1>0. /\ rec \in RecType /\ rec.job \in TrainJobs /\ rec.status \in Status
      /\ trainJob \in TrainJobs /\ jobSet \in JobSets /\ TypeOK
      /\ cache \in CacheType /\ budget \in BudgetType /\ StaleReads \in BOOLEAN
  BY Zenon, ConstantsAssumption DEF TypeOK, RecType, TypeInv, CacheType, BudgetType
<1>a. Idle.pc = "Idle"
  BY Zenon DEF Idle
<1>1. CASE GetTrainJob
  <2>1. /\ UNCHANGED <<trainJob, jobSet, cache, ran, budget>>
        /\ rec' = Idle \/ /\ rec'.job = cache.trainJob /\ rec'.pc # "Patch"
                          /\ cache.trainJob.uid # 0
        /\ StaleReads \/ cache.trainJob = trainJob
    BY SMTT(30), <1>1 DEF GetTrainJob, objects, Idle
  <2> QED BY SMTT(30), <2>1, <1>a DEF LifeInv, BornInv, StaleInv, FreshInv, Shown, Ended, Grows
<1>2. ASSUME NewObjects \/ ApplyObject \/ DeleteObjects PROVE LifeInv'
  <2>1. /\ rec'.job = rec.job /\ rec'.pc # "Patch" /\ rec.pc # "Idle"
        /\ UNCHANGED <<trainJob, cache, ran>>
    BY Zenon, <1>2, <1>0 DEF NewObjects, CreateRuntimeSnapshot, BuildObjects,
       ObjectsError, ApplyObject, DeleteObjects, RecType
  <2>2. budget'.uids = budget.uids
    BY Zenon, <1>2, <1>0 DEF NewObjects, CreateRuntimeSnapshot, ApplyObject,
       DeleteObjects, Succeed, Fail, BudgetType
  <2>3. jobSet' \in {jobSet, AppliedJobSet(rec.job, rec.version)}
    BY Zenon, <1>2 DEF NewObjects, ApplyObject, DeleteObjects
  <2>4. rec.job.uid = 1
    BY <2>1 DEF OwnInv
  <2>5. /\ jobSet'.outcome = jobSet.outcome /\ jobSet'.active = jobSet.active
        /\ jobSet'.owner \in {jobSet.owner, 1}
    BY Zenon, <2>3, <2>4, <1>0 DEF AppliedJobSet, JobSets
  <2>6. trainJob.uid # 0
    BY <2>1, <1>a DEF LifeInv, BornInv
  <2> QED BY SMTT(30), <2>1, <2>2, <2>5, <2>6
          DEF LifeInv, BornInv, StaleInv, FreshInv, Shown, Ended
<1>3. CASE SetStatus
  <2>1. /\ jobSet' = jobSet \/ (jobSet' = NoJobSet /\ ActiveDeadlineSeconds # 0)
        /\ \/ rec' = Idle
           \/ /\ rec'.pc = "Patch" /\ rec'.job = rec.job
              /\ rec'.status = Final(rec.job)
        /\ rec.pc = "Status"
        /\ UNCHANGED <<trainJob, cache, ran>> /\ budget'.uids = budget.uids
    BY Zenon, <1>3, SetStatusGives
  <2>2. trainJob.uid # 0
    BY Zenon, <2>1, <1>a DEF LifeInv, BornInv
  <2>3. ~StaleReads => Grows(trainJob.status, Final(rec.job))
    <3>1. Grows(rec.job.status, Final(rec.job))
      BY Zenon, <1>0, FinalGrows
    <3> QED BY <3>1, <2>1 DEF LifeInv, FreshInv
  <2>4. StaleReads => Shown(Final(rec.job)) /\ Grows(trainJob.status, Final(rec.job))
    BY Zenon, <1>0, <2>1, FinalShown DEF LifeInv, StaleInv
  <2>5. BornInv'
    BY Zenon, <2>1, <2>2 DEF LifeInv, BornInv
  <2>6. StaleReads => StaleInv'
    BY SMTT(30), <2>1, <2>4, <1>a DEF LifeInv, StaleInv, Shown, Ended, Grows
  <2>7. ~StaleReads => FreshInv'
    BY Zenon, <2>1, <2>3, <1>a DEF LifeInv, FreshInv, Grows
  <2> QED BY Zenon, <2>5, <2>6, <2>7 DEF LifeInv
<1>4. CASE PatchStatus
  <2>1. /\ rec' = Idle /\ rec.pc = "Patch"
        /\ trainJob' \in {trainJob, [trainJob EXCEPT !.status = rec.status]}
        /\ UNCHANGED <<jobSet, cache, ran>>
    BY <1>4 DEF PatchStatus, Return
  <2>2. /\ trainJob'.uid = trainJob.uid
        /\ trainJob'.status \in {trainJob.status, rec.status}
    BY <2>1, <1>0 DEF TrainJobs
  <2>3. budget'.uids = budget.uids
    BY ZenonT(30), <1>4, <1>0 DEF PatchStatus, Succeed, Fail, BudgetType
  <2>4. trainJob.uid # 0
    BY Zenon, <2>1, <1>a DEF LifeInv, BornInv
  <2> QED BY <2>1, <2>2, <2>3, <2>4, <1>a
          DEF LifeInv, BornInv, StaleInv, FreshInv, Shown, Ended
<1> QED BY Zenon, <1>1, <1>2, <1>3, <1>4 DEF Reconcile

LEMMA NextLifeInv ==
  ASSUME MaxUID = 1, StaleReads => ~TTL /\ ActiveDeadlineSeconds = 0,
         TypeInv, OwnInv, LifeInv, [Next]_vars
  PROVE  LifeInv'
<1>0. /\ trainJob \in TrainJobs /\ jobSet \in JobSets /\ cache \in CacheType
      /\ budget \in BudgetType /\ budget.uids <= MaxUID /\ StaleReads \in BOOLEAN
  BY Zenon, ConstantsAssumption DEF TypeInv, TypeOK, CacheType, BudgetType
<1>a. /\ Idle.pc = "Idle" /\ NoJobSet.owner = 0 /\ NoTrainJob.uid = 0
      /\ NoJobSet.outcome = "None" /\ ~NoJobSet.active
      /\ NoTrainJob.status = NoStatus /\ Shown(NoStatus)'
  BY Zenon DEF Idle, NoJobSet, NoTrainJob, NoStatus, Shown
<1> USE DEF objects
<1>1. CASE Reconcile
  BY Zenon, <1>1, ReconcileLifeInv
<1>2. CASE SyncTrainJob \/ SyncJobSet \/ SyncPodGroup \/ SyncSnapshot
  <2>1. /\ cache'.trainJob \in {trainJob, cache.trainJob}
        /\ cache'.jobSet \in {jobSet, cache.jobSet}
        /\ UNCHANGED <<trainJob, jobSet, rec, ran, budget>>
    BY SMTT(30), <1>2, <1>0 DEF SyncTrainJob, SyncJobSet, SyncPodGroup, SyncSnapshot, Sync,
                CacheType
  <2> QED BY SMTT(30), <2>1 DEF LifeInv, BornInv, StaleInv, FreshInv, Shown, Ended, Grows
<1>3. CASE TimerFires \/ EditRuntime \/ Tick \/ UNCHANGED vars
  <2>1. UNCHANGED <<trainJob, jobSet, cache, rec, ran, budget>>
    BY <1>3 DEF TimerFires, EditRuntime, Tick, vars
  <2> QED BY ZenonT(30), <2>1 DEF LifeInv, BornInv, StaleInv, FreshInv, Shown, Ended, Grows
<1>4. CASE Crash
  <2>1. /\ rec' = Idle /\ cache'.trainJob = trainJob /\ cache'.jobSet = jobSet
        /\ UNCHANGED <<trainJob, jobSet, ran>>
    BY <1>4 DEF Crash
  <2>2. budget'.uids = budget.uids
    BY SMTT(30), <1>4, <1>0 DEF Crash, BudgetType
  <2> QED BY SMTT(30), <2>1, <2>2, <1>a
          DEF LifeInv, BornInv, StaleInv, FreshInv, Shown, Ended
<1>5. ASSUME NEW suspend \in BOOLEAN, CreateTrainJob(suspend) PROVE LifeInv'
  <2>1. trainJob'.uid = 1 /\ trainJob'.status = NoStatus /\ budget'.uids = 0
    BY <1>5, <1>0, <1>a, NoObjectTyped DEF CreateTrainJob, TrainJobs, BudgetType
  <2>2. rec = Idle /\ UNCHANGED <<jobSet, cache, rec>>
    BY Zenon, <1>5 DEF CreateTrainJob, LifeInv, BornInv
  <2> QED BY SMTT(30), <2>1, <2>2, <1>a
          DEF LifeInv, BornInv, StaleInv, FreshInv, Shown, Ended
<1>6. ASSUME NEW suspend \in BOOLEAN, NEW patches \in 0 .. MaxPatches,
             UpdateTrainJob(suspend, patches)
      PROVE  LifeInv'
  <2>1. /\ trainJob'.uid = trainJob.uid /\ trainJob'.status = trainJob.status
        /\ budget'.uids = budget.uids /\ trainJob.uid # 0
    BY Zenon, <1>6, <1>0 DEF UpdateTrainJob, TrainJobs, BudgetType
  <2> QED BY <1>6, <2>1 DEF UpdateTrainJob, LifeInv, BornInv, StaleInv, FreshInv,
             Shown, Ended, Grows
<1>7. CASE DeleteTrainJob
  BY SMTT(30), <1>7, <1>0 DEF DeleteTrainJob, LifeInv, BornInv, BudgetType
<1>8. CASE JobSetController
  <2>1. UNCHANGED <<trainJob, cache, rec, budget>>
    BY <1>8 DEF JobSetController
  <2>2. jobSet # NoJobSet
    BY <1>8, <1>a DEF JobSetController, JobSetStarts, JobSetStops, JobSetFinishes,
       JobSetExpires
  <2>3. StaleReads => /\ Ended(jobSet')
                      /\ jobSet.outcome # "None" => jobSet'.outcome = jobSet.outcome
    <3> SUFFICES ASSUME StaleReads
                 PROVE  /\ Ended(jobSet')
                        /\ jobSet.outcome # "None" => jobSet'.outcome = jobSet.outcome
      BY Zenon
    <3>1. Ended(jobSet) /\ (jobSet.active => jobSet.owner = 1) /\ jobSet.owner \in {0, 1}
      BY DEF LifeInv, StaleInv, OwnInv, BackedJobSet
    <3>2. CASE JobSetStarts
      BY <3>2, <3>1, <1>0 DEF JobSetStarts, Ended, JobSets
    <3>3. CASE JobSetStops
      BY <3>3, <3>1, <1>0 DEF JobSetStops, Ended, JobSets
    <3>4. CASE JobSetFinishes
      BY Zenon, <3>4, <3>1, <1>0 DEF JobSetFinishes, Ended, JobSets
    <3> QED BY <1>8, <3>2, <3>3, <3>4 DEF JobSetController, JobSetExpires
  <2> QED BY SMTT(30), <2>1, <2>2, <2>3
          DEF LifeInv, BornInv, StaleInv, FreshInv, Shown, Ended, Grows
<1>9. CASE CollectGarbage
  <2>1. UNCHANGED <<trainJob, cache, rec, ran, budget>>
    BY <1>9 DEF CollectGarbage
  <2>2. jobSet' = jobSet
    BY Zenon, <1>9, <1>a DEF CollectGarbage, LifeInv, BornInv, OwnInv, BackedJobSet
  <2> QED BY SMTT(30), <2>1, <2>2 DEF LifeInv, BornInv, StaleInv, FreshInv, Shown, Ended, Grows
<1> QED BY Zenon, <1>1, <1>2, <1>3, <1>4, <1>5, <1>6, <1>7, <1>8, <1>9 DEF Next, User

-----------------------------------------------------------------------------
(* The outcomes that the refinement mapping takes from ran.                *)
Reached == {outcome \in {"Completed", "Failed"} : <<trainJob.uid, outcome>> \in ran}

(* A step that leaves the five mapped values alone is a stuttering step.   *)
LEMMA Stutters ==
  ASSUME trainJob'.uid = trainJob.uid, trainJob'.suspend = trainJob.suspend,
         trainJob'.status = trainJob.status, ran' = ran
  PROVE  UNCHANGED Lifecycle!vars
  BY Zenon DEF Lifecycle!vars

LEMMA InitLifecycle == Init => Lifecycle!Init
<1> SUFFICES ASSUME Init PROVE Lifecycle!Init
  BY Zenon
<1>1. Reached = {}
  BY Zenon DEF Init, Reached
<1> QED BY <1>1 DEF Init, Lifecycle!Init, Reached, NoTrainJob, NoStatus

LEMMA NextLifecycle ==
  ASSUME MaxUID = 1, TypeInv, OwnInv, LifeInv, [Next]_vars
  PROVE  [Lifecycle!Next]_(Lifecycle!vars)
<1>0. /\ trainJob \in TrainJobs /\ jobSet \in JobSets /\ rec \in RecType
      /\ budget \in BudgetType /\ budget.uids <= MaxUID /\ StaleReads \in BOOLEAN
  BY ConstantsAssumption DEF TypeInv, TypeOK, RecType, BudgetType
<1> USE DEF objects
<1>1. ASSUME \/ GetTrainJob \/ NewObjects \/ ApplyObject \/ DeleteObjects
             \/ SetStatus \/ SyncTrainJob \/ SyncJobSet \/ SyncPodGroup
             \/ SyncSnapshot \/ TimerFires \/ Crash \/ EditRuntime
             \/ CollectGarbage \/ Tick \/ UNCHANGED vars
      PROVE  UNCHANGED Lifecycle!vars
  <2>1. UNCHANGED <<trainJob, ran>>
    BY Zenon, <1>1 DEF GetTrainJob, NewObjects, ApplyObject, DeleteObjects, SetStatus,
       SyncTrainJob, SyncJobSet, SyncPodGroup, SyncSnapshot, Sync, TimerFires,
       Crash, EditRuntime, CollectGarbage, Tick, vars
  <2> QED BY Zenon, <2>1, Stutters
<1>2. ASSUME PatchStatus PROVE [Lifecycle!Next]_(Lifecycle!vars)
  <2>1. rec.pc = "Patch" /\ UNCHANGED ran
    BY <1>2 DEF PatchStatus
  <2>2. trainJob' = trainJob \/ trainJob' = [trainJob EXCEPT !.status = rec.status]
    BY Zenon, <1>2 DEF PatchStatus
  <2>3. CASE trainJob' = trainJob
    BY Zenon, <2>1, <2>3, Stutters
  <2>4. CASE trainJob' = [trainJob EXCEPT !.status = rec.status]
    <3> DEFINE old == trainJob.status
               new == rec.status
    <3>1. /\ trainJob'.uid = trainJob.uid /\ trainJob'.suspend = trainJob.suspend
          /\ trainJob'.status = new
      BY Zenon, <2>4, <1>0 DEF TrainJobs
    <3>2. trainJob.uid = 1
      BY <2>1 DEF LifeInv, BornInv, OwnInv, Idle
    <3>3. Grows(old, new)
      BY Zenon, <2>1, <1>0 DEF LifeInv, StaleInv, FreshInv
    <3>4. Backed(new)
      BY DEF OwnInv
    <3>5. Reached' = Reached
      BY Zenon, <2>1, <3>1 DEF Reached
    <3>6. /\ (new.complete => "Completed" \in Reached)
          /\ (new.failed = "JobSetFailed" => "Failed" \in Reached)
      BY Zenon, <3>2, <3>4 DEF Backed, Reached
    <3>7. CASE new.complete = old.complete /\ new.failed = old.failed
      BY <3>1, <3>5, <3>7 DEF Lifecycle!vars, Reached
    <3>8. CASE ~old.complete /\ new.complete /\ new.failed = old.failed
      <4>1. Lifecycle!ReportComplete
        BY <3>1, <3>5, <3>6, <3>8 DEF Lifecycle!ReportComplete, Reached
      <4> QED BY Zenon, <4>1 DEF Lifecycle!Next
    <3>9. CASE /\ old.failed = "None" /\ new.failed = "JobSetFailed"
               /\ new.complete = old.complete
      <4>1. Lifecycle!ReportFailed
        BY <3>1, <3>5, <3>6, <3>9 DEF Lifecycle!ReportFailed, Reached
      <4> QED BY Zenon, <4>1 DEF Lifecycle!Next
    <3>10. CASE /\ ActiveDeadlineSeconds # 0
                /\ ~IsTrainJobFinished(old) /\ new.failed = "DeadlineExceeded"
                /\ new.complete = old.complete
      <4>1. Lifecycle!Expire
        BY <3>1, <3>2, <3>5, <3>10 DEF Lifecycle!Expire, Lifecycle!Finished,
           IsTrainJobFinished, Reached
      <4> QED BY Zenon, <4>1 DEF Lifecycle!Next
    <3> QED BY <3>3, <3>7, <3>8, <3>9, <3>10 DEF Grows
  <2> QED BY <2>2, <2>3, <2>4
<1>3. ASSUME NEW suspend \in BOOLEAN, CreateTrainJob(suspend)
      PROVE  Lifecycle!Create
  <2>1. /\ trainJob'.uid = 1 /\ trainJob'.status = NoStatus
        /\ trainJob'.suspend = suspend
    BY <1>3, <1>0, NoObjectTyped DEF CreateTrainJob, TrainJobs, BudgetType, NoTrainJob
  <2>2. trainJob.uid = 0 /\ trainJob.status = NoStatus /\ ran = {} /\ ran' = ran
    BY <1>3 DEF CreateTrainJob, LifeInv, BornInv, NoTrainJob
  <2>3. Reached = {} /\ Reached' = {}
    BY <2>2 DEF Reached
  <2> QED BY <2>1, <2>2, <2>3 DEF Lifecycle!Create, Reached
<1>4. ASSUME NEW suspend \in BOOLEAN, NEW patches \in 0 .. MaxPatches,
             UpdateTrainJob(suspend, patches)
      PROVE  [Lifecycle!Next]_(Lifecycle!vars)
  <2>1. /\ trainJob'.uid = trainJob.uid /\ trainJob'.status = trainJob.status
        /\ trainJob'.suspend = suspend /\ trainJob.uid # 0 /\ ran' = ran
        /\ trainJob.suspend \in BOOLEAN
    BY Zenon, <1>4, <1>0 DEF UpdateTrainJob, TrainJobs
  <2>2. CASE suspend = trainJob.suspend
    BY <2>1, <2>2, Stutters
  <2>3. CASE suspend # trainJob.suspend
    <3>1. trainJob'.suspend = ~trainJob.suspend
      BY Zenon, <2>1, <2>3
    <3>2. Reached' = Reached
      BY Zenon, <2>1 DEF Reached
    <3>3. Lifecycle!Hold
      BY Zenon, <2>1, <3>1, <3>2 DEF Lifecycle!Hold, Reached
    <3> QED BY Zenon, <3>3 DEF Lifecycle!Next
  <2> QED BY <2>2, <2>3
<1>5. ~DeleteTrainJob
  BY <1>0 DEF DeleteTrainJob, LifeInv, BornInv
<1>6. ASSUME JobSetController PROVE [Lifecycle!Next]_(Lifecycle!vars)
  <2>1. trainJob' = trainJob
    BY <1>6 DEF JobSetController
  <2>2. CASE ran' = ran
    BY <2>1, <2>2, Stutters
  <2>3. ASSUME NEW outcome \in {"Completed", "Failed"}, jobSet.active,
               ran' = ran \union {<<jobSet.owner, outcome>>}
        PROVE  [Lifecycle!Next]_(Lifecycle!vars)
    <3>1. jobSet.owner = 1 /\ trainJob.uid = 1
      BY SMTT(30), <2>3 DEF LifeInv, BornInv, OwnInv, BackedJobSet, NoJobSet
    <3>2. Reached' = Reached \union {outcome}
      BY <2>1, <2>3, <3>1 DEF Reached
    <3>3. CASE outcome \in Reached
      BY <2>1, <3>2, <3>3 DEF Lifecycle!vars, Reached
    <3>4. CASE outcome \notin Reached
      <4>1. Lifecycle!Reach(outcome)
        BY <2>1, <3>1, <3>2, <3>4 DEF Lifecycle!Reach, Reached
      <4> QED BY <4>1 DEF Lifecycle!Next
    <3> QED BY Zenon, <3>3, <3>4
  <2> QED BY Zenon, <1>6, <2>2, <2>3 DEF JobSetController, JobSetStarts, JobSetStops,
             JobSetFinishes, JobSetExpires
<1> QED BY Zenon, <1>1, <1>2, <1>3, <1>4, <1>5, <1>6 DEF Next, User, Reconcile, Lifecycle!Next

(* The controller implements the life of a TrainJob: whatever the          *)
(* interleaving of edits, failed requests, restarts, expiry and deadlines, *)
(* verdicts follow what the JobSet reached, come one at a time and stay,   *)
(* if each Reconcile starts from the current TrainJob, or if nothing       *)
(* deletes the JobSet of a TrainJob (one TrainJob per name).               *)
THEOREM TrainJobFollowsLifecycle ==
  ASSUME MaxUID = 1, StaleReads => ~TTL /\ ActiveDeadlineSeconds = 0
  PROVE  Spec => FollowsLifecycle
<1>1. OwnInv /\ TypeInv /\ [Next]_vars => OwnInv'
  BY NextOwnInv
<1>2. LifeInv /\ OwnInv /\ TypeInv /\ [Next]_vars => LifeInv'
  BY NextLifeInv
<1>3. LifeInv /\ OwnInv /\ TypeInv /\ [Next]_vars
        => [Lifecycle!Next]_(Lifecycle!vars)
  BY Zenon, NextLifecycle
<1> QED BY InitTypeInv, NextTypeInv, InitOwnInv, InitLifeInv, InitLifecycle,
           <1>1, <1>2, <1>3, PTL DEF Spec, FollowsLifecycle, Lifecycle!Safe

-----------------------------------------------------------------------------
(***************************************************************************)
(* Level-triggered convergence, for any number of TrainJobs of the name,   *)
(* stale reads, failed requests and restarts: whatever the controller has  *)
(* left undone when it rests, some cache still differs from the API        *)
(* server, and its event will bring the key back.                          *)
(***************************************************************************)
(* UIDs are never used again: a cache that holds a TrainJob of another UID *)
(* stays behind until its informer catches up.                             *)
UidInv ==
  /\ trainJob.uid <= MaxUID - budget.uids
  /\ cache.trainJob.uid <= MaxUID - budget.uids

(* The key being out of the queue, no event has come since the call in     *)
(* flight started: the caches are as it found them.                        *)
ReadInv ==
  rec.pc # "Idle" =>
    /\ rec.job.uid # 0
    /\ ~queued => rec.job = cache.trainJob
    /\ rec.pc \in {"NewObjects", "Apply"}
         => ~rec.err /\ ~IsTrainJobFinished(rec.job.status)
    /\ rec.pc = "Patch" => rec.status # rec.job.status

(* What a call that read job has seen to, or has changed such that it      *)
(* stays different from the cache until an event comes.                    *)
JobSetBuilt(job) ==
  cache.jobSet.owner # 0 =>
    \/ cache.jobSet.suspend = job.suspend
    \/ jobSet.owner = 0
    \/ jobSet.suspend # cache.jobSet.suspend

PodGroupBuilt(job) ==
  Gang # "None" /\ ~job.suspend =>
    \/ cache.podGroup.owner # 0
    \/ podGroup.owner = job.uid
    \/ trainJob.uid # job.uid

PodGroupGone(job) ==
  Gang = "Volcano" /\ (IsTrainJobFinished(job.status) \/ job.suspend) =>
    cache.podGroup.owner # job.uid \/ podGroup.owner = 0

Overtaken(job) == trainJob.uid # job.uid \/ trainJob.status # job.status

Agrees(job) == job.suspend = (job.status.suspended = "True")

Armed(job) ==
  ActiveDeadlineSeconds # 0 /\ ~job.suspend =>
    /\ timer # 0
    /\ timer <= StartTime(job, job.status) + ActiveDeadlineSeconds + 1

ToApply(kind) == \E i \in 1 .. Len(rec.todo) : rec.todo[i] = kind

PassInv ==
  ~queued /\ ~rec.err =>
    /\ rec.pc = "Apply" => /\ ToApply("JobSet") \/ JobSetBuilt(rec.job)
                           /\ ToApply("PodGroup") \/ PodGroupBuilt(rec.job)
    /\ rec.pc \in {"DeleteObjects", "Status", "Patch"} =>
         \/ IsTrainJobFinished(rec.job.status)
         \/ JobSetBuilt(rec.job) /\ PodGroupBuilt(rec.job)
    /\ rec.pc \in {"Status", "Patch"} => PodGroupGone(rec.job)
    /\ rec.pc = "Patch" =>
         IsTrainJobFinished(rec.job.status) \/ cache.jobSet.owner # 0

AtRestInv ==
  ~queued /\ rec.pc = "Idle" /\ cache.trainJob.uid # 0 =>
    /\ PodGroupGone(cache.trainJob)
    /\ ~IsTrainJobFinished(cache.trainJob.status) =>
         /\ cache.jobSet.owner # 0
         /\ JobSetBuilt(cache.trainJob) /\ PodGroupBuilt(cache.trainJob)
         /\ \/ Overtaken(cache.trainJob)
            \/ Agrees(cache.trainJob) /\ Armed(cache.trainJob)

ConvergenceInv == UidInv /\ ReadInv /\ PassInv /\ AtRestInv

-----------------------------------------------------------------------------
LEMMA InitConvergence == Init => ConvergenceInv
<1> SUFFICES ASSUME Init PROVE ConvergenceInv
  BY Zenon
<1>1. cache.trainJob.uid = 0 /\ trainJob.uid = 0 /\ rec.pc = "Idle"
  BY Zenon DEF Init, NoTrainJob, Idle
<1>2. UidInv
  BY SMTT(30), <1>1, ConstantsAssumption DEF Init, UidInv
<1> QED BY <1>1, <1>2 DEF ConvergenceInv, ReadInv, PassInv, AtRestInv

(* A key in the queue will be reconciled: nothing need be said of it.      *)
LEMMA QueuedIsEnough ==
  ASSUME queued', UidInv', ReadInv' PROVE ConvergenceInv'
  BY Zenon DEF ConvergenceInv, PassInv, AtRestInv

(* Nobody but the controller undoes what it changed so that it equals the  *)
(* cache again: a JobSet is suspended and resumed by it alone, a PodGroup  *)
(* only goes with its owner, and a TrainJob that is gone is gone.          *)
Untouched ==
  /\ UNCHANGED <<cache, queued, timer, rec>>
  /\ \/ jobSet' = jobSet
     \/ jobSet'.owner = 0
     \/ jobSet'.suspend = jobSet.suspend /\ jobSet.owner # 0
  /\ \/ podGroup' = podGroup
     \/ podGroup'.owner = 0 /\ podGroup.owner # trainJob.uid /\ trainJob' = trainJob
  /\ \/ trainJob'.uid = trainJob.uid /\ trainJob'.status = trainJob.status
     \/ trainJob'.uid = 0
     \/ trainJob'.uid > MaxUID - budget.uids

LEMMA UntouchedKeeps ==
  ASSUME TypeInv, Untouched, NEW job \in TrainJobs, job.uid # 0,
         job.uid <= MaxUID - budget.uids
  PROVE  /\ JobSetBuilt(job) => JobSetBuilt(job)'
         /\ PodGroupBuilt(job) => PodGroupBuilt(job)'
         /\ PodGroupGone(job) => PodGroupGone(job)'
         /\ Overtaken(job) => Overtaken(job)'
<1>0. job.uid \in Nat /\ MaxUID - budget.uids \in Int
  <2>1. budget \in BudgetType
    BY Zenon DEF TypeInv, TypeOK, BudgetType
  <2> QED BY <2>1, ConstantsAssumption DEF TrainJobs, BudgetType
<1>1. trainJob.uid # job.uid => trainJob'.uid # job.uid
  BY <1>0 DEF Untouched
<1>2. JobSetBuilt(job) => JobSetBuilt(job)'
  BY Zenon DEF Untouched, JobSetBuilt
<1>3. PodGroupBuilt(job) => PodGroupBuilt(job)'
  BY Zenon, <1>1 DEF Untouched, PodGroupBuilt
<1>4. PodGroupGone(job) => PodGroupGone(job)'
  BY Zenon DEF Untouched, PodGroupGone
<1>5. Overtaken(job) => Overtaken(job)'
  <2> SUFFICES ASSUME Overtaken(job) PROVE Overtaken(job)'
    BY Zenon
  <2>1. CASE trainJob'.uid = trainJob.uid /\ trainJob'.status = trainJob.status
    BY Zenon, <2>1 DEF Overtaken
  <2>2. CASE trainJob'.uid # job.uid
    BY <2>2 DEF Overtaken
  <2> QED BY <1>0, <2>1, <2>2 DEF Untouched
<1> QED BY Zenon, <1>2, <1>3, <1>4, <1>5

LEMMA UntouchedStep ==
  ASSUME TypeInv, ConvergenceInv, Untouched, UidInv' PROVE ConvergenceInv'
<1>0. /\ rec \in RecType /\ rec.job \in TrainJobs
      /\ cache \in CacheType /\ cache.trainJob \in TrainJobs
  BY Zenon DEF TypeInv, TypeOK, RecType, CacheType
<1>1. rec' = rec /\ cache' = cache /\ queued' = queued /\ timer' = timer
  BY Zenon DEF Untouched
<1>2. ReadInv'
  BY Zenon, <1>1 DEF ConvergenceInv, ReadInv
<1>3. PassInv'
  <2> SUFFICES ASSUME ~queued, ~rec.err, rec.pc # "Idle" PROVE PassInv'
    BY Zenon, <1>1 DEF PassInv
  <2>1. PICK job \in TrainJobs : job = rec.job
    BY Zenon, <1>0
  <2>2. job.uid # 0 /\ job.uid <= MaxUID - budget.uids
    BY Zenon, <2>1 DEF ConvergenceInv, ReadInv, UidInv
  <2>3. /\ JobSetBuilt(job) => JobSetBuilt(job)'
        /\ PodGroupBuilt(job) => PodGroupBuilt(job)'
        /\ PodGroupGone(job) => PodGroupGone(job)'
    BY Zenon, <2>2, UntouchedKeeps
  <2>4. ToApply("JobSet")' = ToApply("JobSet") /\ ToApply("PodGroup")' = ToApply("PodGroup")
    BY SMTT(30), <1>1 DEF ToApply
  <2> QED BY Zenon, <1>1, <2>1, <2>3, <2>4 DEF ConvergenceInv, PassInv
<1>4. AtRestInv'
  <2> SUFFICES ASSUME ~queued, rec.pc = "Idle", cache.trainJob.uid # 0
               PROVE  AtRestInv'
    BY Zenon, <1>1 DEF AtRestInv
  <2>1. PICK job \in TrainJobs : job = cache.trainJob
    BY Zenon, <1>0
  <2>2. job.uid # 0 /\ job.uid <= MaxUID - budget.uids
    BY Zenon, <2>1 DEF ConvergenceInv, UidInv
  <2>3. /\ JobSetBuilt(job) => JobSetBuilt(job)'
        /\ PodGroupBuilt(job) => PodGroupBuilt(job)'
        /\ PodGroupGone(job) => PodGroupGone(job)'
        /\ Overtaken(job) => Overtaken(job)'
    BY Zenon, <2>2, UntouchedKeeps
  <2>4. Armed(job)' = Armed(job)
    BY Zenon, <1>1 DEF Armed
  <2> QED BY ZenonT(30), <1>1, <2>1, <2>3, <2>4 DEF ConvergenceInv, AtRestInv
<1> QED BY Zenon, <1>2, <1>3, <1>4 DEF ConvergenceInv

-----------------------------------------------------------------------------
(***************************************************************************)
(* The steps of Reconcile.                                                 *)
(***************************************************************************)
(* The UIDs do not change in a Reconcile.                                  *)
LEMMA ReconcileUids ==
  ASSUME TypeInv, UidInv, Reconcile PROVE UidInv'
<1>1. budget \in BudgetType /\ trainJob \in TrainJobs
  BY DEF TypeInv, TypeOK, BudgetType
<1>2. cache' = cache
  BY Zenon DEF Reconcile, GetTrainJob, NewObjects, ApplyObject, DeleteObjects,
         SetStatus, PatchStatus
<1>3. budget'.uids = budget.uids
  BY Zenon, <1>1 DEF Reconcile, GetTrainJob, NewObjects, CreateRuntimeSnapshot, ApplyObject,
         DeleteObjects, SetStatus, PatchStatus, Succeed, Fail, BudgetType
<1>4. trainJob'.uid = trainJob.uid
  BY Zenon, <1>1 DEF Reconcile, GetTrainJob, NewObjects, ApplyObject, DeleteObjects,
         SetStatus, PatchStatus, TrainJobs, objects
<1> QED BY Zenon, <1>2, <1>3, <1>4 DEF UidInv

LEMMA GetTrainJobConverges ==
  ASSUME TypeInv, ConvergenceInv, GetTrainJob PROVE ConvergenceInv'
<1>1. UidInv'
  BY ReconcileUids DEF ConvergenceInv, Reconcile
<1>2. ~queued' /\ cache' = cache
  BY DEF GetTrainJob
<1>3. CASE cache.trainJob.uid = 0
  <2>1. rec'.pc = "Idle"
    BY SMTT(30), <1>3 DEF GetTrainJob, Idle
  <2> QED BY Zenon, <1>1, <1>2, <1>3, <2>1 DEF ConvergenceInv, ReadInv, PassInv, AtRestInv
<1>4. CASE cache.trainJob.uid # 0
  <2>1. /\ rec'.job = cache.trainJob /\ rec'.err = FALSE
        /\ rec'.pc = IF IsTrainJobFinished(cache.trainJob.status)
                     THEN "DeleteObjects" ELSE "NewObjects"
    BY Zenon, <1>4 DEF GetTrainJob, Idle
  <2> QED BY Zenon, <1>1, <1>2, <1>4, <2>1 DEF ConvergenceInv, ReadInv, PassInv, AtRestInv
<1> QED BY <1>3, <1>4

(* The plugins build what is missing.                                      *)
LEMMA BuiltOrToApply ==
  ASSUME NEW job, NEW todo, todo = RunComponentBuilderPlugins(job)
  PROVE  /\ \/ \E i \in 1 .. Len(todo) : todo[i] = "JobSet"
            \/ cache.jobSet.owner # 0 /\ ~job.suspend /\ ~cache.jobSet.suspend
         /\ \/ \E i \in 1 .. Len(todo) : todo[i] = "PodGroup"
            \/ Gang = "None"
            \/ Gang = "Volcano" /\ job.suspend
            \/ cache.podGroup.owner # 0
<1> DEFINE js == BuildJobSet(job)
           pg == BuildPodGroup(job)
<1>1. \/ js = <<"JobSet">>
      \/ js = <<>> /\ cache.jobSet.owner # 0 /\ ~job.suspend /\ ~cache.jobSet.suspend
  BY Zenon DEF BuildJobSet
<1>2. \/ pg = <<"PodGroup">>
      \/ /\ pg = <<>>
         /\ \/ Gang = "None"
            \/ Gang = "Volcano" /\ job.suspend
            \/ cache.podGroup.owner # 0
  BY DEF BuildPodGroup
<1>3. todo = pg \o js \/ todo = js \o pg
  BY Zenon DEF RunComponentBuilderPlugins
<1> HIDE DEF js, pg
<1>4. CASE js = <<"JobSet">> /\ pg = <<"PodGroup">>
  <2>1. todo = <<"PodGroup", "JobSet">> \/ todo = <<"JobSet", "PodGroup">>
    BY <1>3, <1>4
  <2>2. /\ Len(todo) = 2 /\ 1 \in 1 .. 2 /\ 2 \in 1 .. 2
        /\ \/ todo[1] = "PodGroup" /\ todo[2] = "JobSet"
           \/ todo[2] = "PodGroup" /\ todo[1] = "JobSet"
    BY <2>1
  <2> QED BY <2>2
<1>5. CASE js = <<"JobSet">> /\ pg = <<>>
  <2>1. todo = <<"JobSet">>
    BY <1>3, <1>5
  <2>2. Len(todo) = 1 /\ 1 \in 1 .. 1 /\ todo[1] = "JobSet"
    BY <2>1
  <2> QED BY <2>2, <1>5, <1>2
<1>6. CASE js = <<>> /\ pg = <<"PodGroup">>
  <2>1. todo = <<"PodGroup">>
    BY <1>3, <1>6
  <2>2. Len(todo) = 1 /\ 1 \in 1 .. 1 /\ todo[1] = "PodGroup"
    BY <2>1
  <2> QED BY <2>2, <1>6, <1>1
<1>7. CASE js = <<>> /\ pg = <<>>
  BY Zenon, <1>7, <1>1, <1>2
<1> QED BY Zenon, <1>1, <1>2, <1>4, <1>5, <1>6, <1>7

(* An error of any step brings the key back.                               *)
LEMMA FailedPass ==
  ASSUME ReadInv, ObjectsError, rec \in RecType, rec.pc # "Idle", cache' = cache,
         queued' = queued, UidInv'
  PROVE  ConvergenceInv'
<1>1. rec'.pc = "DeleteObjects" /\ rec'.err = TRUE /\ rec'.job = rec.job
  BY Zenon DEF ObjectsError, RecType
<1> QED BY Zenon, <1>1 DEF ConvergenceInv, ReadInv, PassInv, AtRestInv

LEMMA NewObjectsConverges ==
  ASSUME TypeInv, ConvergenceInv, NewObjects PROVE ConvergenceInv'
<1>0. rec \in RecType /\ rec.pc = "NewObjects" /\ cache' = cache /\ queued' = queued
  BY Zenon DEF TypeInv, TypeOK, RecType, NewObjects
<1>1. UidInv'
  BY Zenon, ReconcileUids DEF ConvergenceInv, Reconcile
<1>2. CASE ObjectsError
  BY SMTT(30), <1>0, <1>1, <1>2, FailedPass DEF ConvergenceInv
<1>3. ASSUME NEW version, BuildObjects(version) PROVE ConvergenceInv'
  <2>1. /\ rec'.pc = "Apply" /\ rec'.job = rec.job /\ rec'.err = rec.err
        /\ rec'.todo = RunComponentBuilderPlugins(rec.job)
    BY <1>3, <1>0 DEF BuildObjects, RecType
  <2>2. /\ ToApply("JobSet")' \/ JobSetBuilt(rec.job)'
        /\ ToApply("PodGroup")' \/ PodGroupBuilt(rec.job)'
    <3>1. PICK todo : todo = rec'.todo
      BY SMTT(30)
    <3>2. /\ \/ \E i \in 1 .. Len(todo) : todo[i] = "JobSet"
             \/ cache.jobSet.owner # 0 /\ ~rec.job.suspend /\ ~cache.jobSet.suspend
          /\ \/ \E i \in 1 .. Len(todo) : todo[i] = "PodGroup"
             \/ Gang = "None"
             \/ Gang = "Volcano" /\ rec.job.suspend
             \/ cache.podGroup.owner # 0
      BY Zenon, <2>1, <3>1, BuiltOrToApply
    <3>3. /\ rec.job \in TrainJobs /\ rec.job.suspend \in BOOLEAN
          /\ cache.jobSet.suspend \in BOOLEAN
      BY Zenon DEF TypeInv, TypeOK, TrainJobs, JobSets
    <3>4. ToApply("JobSet")' \/ JobSetBuilt(rec.job)'
      BY Zenon, <1>0, <2>1, <3>1, <3>2, <3>3 DEF ToApply, JobSetBuilt
    <3>5. ToApply("PodGroup")' \/ PodGroupBuilt(rec.job)'
      BY Zenon, <1>0, <2>1, <3>1, <3>2 DEF ToApply, PodGroupBuilt
    <3> QED BY <3>4, <3>5
  <2> QED BY Zenon, <1>0, <1>1, <2>1, <2>2 DEF ConvergenceInv, ReadInv, PassInv, AtRestInv
<1> QED BY Zenon, <1>2, <1>3 DEF NewObjects, CreateRuntimeSnapshot

(* What is not applied first is still to be applied.                       *)
LEMMA StillToApply ==
  ASSUME NEW S, NEW todo \in Seq(S), NEW kind, todo # <<>>, Head(todo) # kind,
         \E i \in 1 .. Len(todo) : todo[i] = kind
  PROVE  \E i \in 1 .. Len(Tail(todo)) : Tail(todo)[i] = kind
<1>1. PICK i \in 1 .. Len(todo) : todo[i] = kind
  OBVIOUS
<1>2. i # 1
  BY <1>1
<1>3. i - 1 \in 1 .. Len(Tail(todo)) /\ Tail(todo)[i - 1] = todo[i]
  BY <1>1, <1>2
<1> QED BY Zenon, <1>1, <1>3

LEMMA ApplyObjectConverges ==
  ASSUME TypeInv, ConvergenceInv, ApplyObject PROVE ConvergenceInv'
<1>0. /\ rec \in RecType /\ rec.pc = "Apply" /\ rec.todo # <<>>
      /\ rec.todo \in Seq(Kinds) /\ rec.job \in TrainJobs
      /\ cache' = cache /\ queued' = queued /\ trainJob' = trainJob
      /\ jobSet \in JobSets
  BY DEF TypeInv, TypeOK, RecType, ApplyObject
<1>1. UidInv'
  BY Zenon, ReconcileUids DEF ConvergenceInv, Reconcile
<1>2. CASE ObjectsError
  BY SMTT(30), <1>0, <1>1, <1>2, FailedPass DEF ConvergenceInv
<1>3. CASE ~ObjectsError
  <2> DEFINE kind == Head(rec.todo)
             job == rec.job
  <2>1. /\ rec' = [rec EXCEPT !.todo = Tail(@)]
        /\ jobSet' = IF kind = "JobSet"
                     THEN AppliedJobSet(rec.job, rec.version) ELSE jobSet
        /\ podGroup' = IF kind = "PodGroup"
                       THEN [owner |-> rec.job.uid, patches |-> rec.job.patches]
                       ELSE podGroup
    BY <1>3 DEF ApplyObject
  <2>2. /\ rec'.pc = "Apply" /\ rec'.job = rec.job /\ rec'.err = rec.err
        /\ rec'.todo = Tail(rec.todo)
    BY Zenon, <1>0, <2>1 DEF RecType
  <2>3. ASSUME NEW k, ToApply(k), k # kind PROVE ToApply(k)'
    <3>1. \E i \in 1 .. Len(rec.todo) : rec.todo[i] = k
      BY Zenon, <2>3 DEF ToApply
    <3>2. \E i \in 1 .. Len(Tail(rec.todo)) : Tail(rec.todo)[i] = k
      BY Zenon, <1>0, <2>3, <3>1, StillToApply
    <3> QED BY Zenon, <2>2, <3>2 DEF ToApply
  <2>4. ASSUME ToApply("JobSet") \/ JobSetBuilt(rec.job)
        PROVE  ToApply("JobSet")' \/ JobSetBuilt(rec.job)'
    <3>1. CASE kind = "JobSet"
      <4>1. jobSet'.suspend = rec.job.suspend
        BY <1>0, <2>1, <3>1 DEF AppliedJobSet, JobSets
      <4> QED BY <4>1, <1>0, <2>2 DEF JobSetBuilt
    <3>2. CASE kind # "JobSet"
      <4>1. JobSetBuilt(rec.job) => JobSetBuilt(rec.job)'
        BY <2>1, <2>2, <1>0, <3>2 DEF JobSetBuilt
      <4> QED BY <4>1, <2>3, <2>4, <3>2
    <3> QED BY <3>1, <3>2
  <2>5. ASSUME ToApply("PodGroup") \/ PodGroupBuilt(rec.job)
        PROVE  ToApply("PodGroup")' \/ PodGroupBuilt(rec.job)'
    <3>1. CASE kind = "PodGroup"
      <4>1. podGroup'.owner = rec.job.uid
        BY Zenon, <2>1, <3>1
      <4> QED BY <4>1, <2>2 DEF PodGroupBuilt
    <3>2. CASE kind # "PodGroup"
      <4>1. PodGroupBuilt(rec.job) => PodGroupBuilt(rec.job)'
        BY SMTT(30), <2>1, <2>2, <1>0, <3>2 DEF PodGroupBuilt
      <4> QED BY <4>1, <2>3, <2>5, <3>2
    <3> QED BY <3>1, <3>2
  <2> QED BY Zenon, <1>0, <1>1, <2>2, <2>4, <2>5
          DEF ConvergenceInv, ReadInv, PassInv, AtRestInv
<1> QED BY <1>2, <1>3

LEMMA DeleteObjectsConverges ==
  ASSUME TypeInv, ConvergenceInv, DeleteObjects PROVE ConvergenceInv'
<1>0. /\ rec \in RecType /\ cache' = cache /\ queued' = queued
      /\ trainJob' = trainJob /\ jobSet' = jobSet
  BY DEF TypeInv, TypeOK, RecType, DeleteObjects
<1>1. UidInv'
  BY ReconcileUids DEF ConvergenceInv, Reconcile
<1>2. /\ rec'.pc = "Status" /\ rec'.job = rec.job
      /\ rec'.err = rec.err \/ rec'.err = TRUE
  BY ZenonT(30), <1>0 DEF DeleteObjects, RecType
<1>3. ReadInv'
  BY <1>0, <1>2 DEF DeleteObjects, ConvergenceInv, ReadInv
<1>4. PassInv'
  <2> SUFFICES ASSUME ~queued, ~rec'.err PROVE PassInv'
    BY <1>0 DEF PassInv
  <2>1. /\ ~rec.err
        /\ podGroup' = IF DeletePodGroup(rec.job) THEN NoPodGroup ELSE podGroup
    BY Zenon, <1>0, <1>2 DEF DeleteObjects, RecType
  <2>2. \/ IsTrainJobFinished(rec.job.status)
        \/ JobSetBuilt(rec.job) /\ PodGroupBuilt(rec.job)
    <3>1. CASE rec.pc = "DeleteObjects"
      BY Zenon, <3>1, <2>1 DEF ConvergenceInv, PassInv
    <3>2. CASE rec.pc = "Apply" /\ rec.todo = <<>>
      <4>1. ~ToApply("JobSet") /\ ~ToApply("PodGroup")
        BY <3>2 DEF ToApply
      <4> QED BY Zenon, <3>2, <4>1, <2>1 DEF ConvergenceInv, PassInv
    <3> QED BY Zenon, <3>1, <3>2 DEF DeleteObjects
  <2>3. JobSetBuilt(rec.job) => JobSetBuilt(rec.job)'
    BY Zenon, <1>0, <1>2 DEF JobSetBuilt
  <2>4. IsTrainJobFinished(rec.job.status) \/ (PodGroupBuilt(rec.job) => PodGroupBuilt(rec.job)')
    BY Zenon, <1>0, <1>2, <2>1 DEF PodGroupBuilt, DeletePodGroup
  <2>5. PodGroupGone(rec.job)'
    BY Zenon, <1>0, <1>2, <2>1 DEF PodGroupGone, DeletePodGroup, NoPodGroup
  <2> QED BY Zenon, <1>2, <2>2, <2>3, <2>4, <2>5 DEF PassInv
<1> QED BY Zenon, <1>1, <1>2, <1>3, <1>4 DEF ConvergenceInv, AtRestInv

(* A status that needs no patch agrees with the spec, and the requeue for  *)
(* its deadline is due at most a second after it.                          *)
LEMMA NothingToPatch ==
  ASSUME TypeOK, NEW job \in TrainJobs, ~IsTrainJobFinished(job.status),
         Final(job) = job.status
  PROVE  /\ Agrees(job)
         /\ ActiveDeadlineSeconds # 0 /\ ~job.suspend =>
              LET after == RequeueAt(job, Copied(job))
              IN after # 0 /\ after <= StartTime(job, job.status) + ActiveDeadlineSeconds + 1
<1> DEFINE s == SetTrainJobStatus(job)
           c == Copied(job)
<1>0. job.status \in Status /\ s \in Status /\ c \in Status
  BY Zenon, StatusTyped DEF TrainJobs, Copied
<1>1. ~DeadlineExceeded(job, c)
  <2> HIDE DEF c
  <2> SUFFICES ASSUME DeadlineExceeded(job, c) PROVE FALSE
    OBVIOUS
  <2>1. Final(job).failed = "DeadlineExceeded"
    BY <1>0 DEF Final, c, Status
  <2> QED BY <2>1 DEF IsTrainJobFinished
<1>2. c = job.status
  BY <1>1 DEF Final
<1>3. s.suspended = job.status.suspended
  BY Zenon, <1>0 DEF SetTrainJobStatus, TrainJobStatus, Status
<1>4. Agrees(job)
  <2>1. c.suspended = IF job.suspend THEN "True"
                      ELSE IF s.suspended = "True" THEN "False" ELSE s.suspended
    <3> HIDE DEF s
    <3> QED BY <1>0 DEF c, Copied, s, SetSuspendedCondition, Status
  <2>2. job.suspend \in BOOLEAN
    BY Zenon DEF TrainJobs
  <2> QED BY <2>1, <2>2, <1>2, <1>3 DEF Agrees
<1>5. ASSUME ActiveDeadlineSeconds # 0, ~job.suspend
      PROVE  LET after == RequeueAt(job, c)
             IN after # 0 /\ after <= StartTime(job, job.status) + ActiveDeadlineSeconds + 1
  <2>1. HasDeadline(job, job.status)
    BY Zenon, <1>5 DEF HasDeadline
  <2>2. StartTime(job, job.status) \in Nat /\ now \in Nat /\ ActiveDeadlineSeconds \in Nat
    BY Zenon, <1>0, ConstantsAssumption DEF StartTime, TrainJobs, Status, TypeOK
  <2>3. now <= StartTime(job, job.status) + ActiveDeadlineSeconds
    BY <1>1, <1>2, <2>1, <2>2 DEF DeadlineExceeded
  <2> QED BY <1>2, <1>5, <2>1, <2>2, <2>3 DEF RequeueAt
<1> QED BY <1>4, <1>5

LEMMA SetStatusConverges ==
  ASSUME TypeInv, ConvergenceInv, SetStatus PROVE ConvergenceInv'
<1> DEFINE final == Final(rec.job)
           err == rec.err \/ StatusError(rec.job)
           after == RequeueAt(rec.job, Copied(rec.job))
<1>0. /\ rec \in RecType /\ rec.job \in TrainJobs /\ cache' = cache
      /\ trainJob' = trainJob /\ podGroup' = podGroup /\ rec.pc = "Status"
      /\ TypeOK /\ timer \in Nat
  BY DEF TypeInv, TypeOK, RecType, SetStatus
<1>1. UidInv'
  BY ReconcileUids DEF ConvergenceInv, Reconcile
<1>2. /\ jobSet' = jobSet \/ jobSet' = NoJobSet
      /\ IF final = rec.job.status
         THEN Return(err, after)
         ELSE /\ rec' = [rec EXCEPT !.pc = "Patch", !.status = final,
                                    !.err = err, !.after = after]
              /\ UNCHANGED <<queued, timer>>
  BY Zenon DEF SetStatus, Final, Copied
<1>3. after \in Nat
  BY <1>0, StatusTyped, RequeueTyped DEF Copied
<1> HIDE DEF final, err, after
<1>4. JobSetBuilt(rec.job) => (rec'.job = rec.job => JobSetBuilt(rec.job)')
  BY SMTT(30), <1>0, <1>2 DEF JobSetBuilt, NoJobSet
<1>5. CASE final # rec.job.status
  <2>1. /\ rec'.pc = "Patch" /\ rec'.job = rec.job /\ rec'.err = err
        /\ rec'.status = final /\ queued' = queued
    BY ZenonT(30), <1>0, <1>2, <1>5 DEF RecType
  <2>2. ReadInv'
    BY Zenon, <1>0, <1>5, <2>1 DEF ConvergenceInv, ReadInv
  <2>3. PassInv'
    <3> SUFFICES ASSUME ~queued, ~err PROVE PassInv'
      BY Zenon, <2>1 DEF PassInv
    <3>1. ~rec.err /\ ~StatusError(rec.job)
      BY Zenon DEF err
    <3>2. IsTrainJobFinished(rec.job.status) \/ cache.jobSet.owner # 0
      BY Zenon, <3>1 DEF StatusError
    <3>3. \/ IsTrainJobFinished(rec.job.status)
          \/ JobSetBuilt(rec.job)' /\ PodGroupBuilt(rec.job)'
      BY Zenon, <1>0, <1>4, <2>1, <3>1 DEF ConvergenceInv, PassInv, PodGroupBuilt
    <3>4. PodGroupGone(rec.job)'
      BY Zenon, <1>0, <2>1, <3>1 DEF ConvergenceInv, PassInv, PodGroupGone
    <3> QED BY Zenon, <1>0, <2>1, <3>2, <3>3, <3>4 DEF PassInv
  <2> QED BY Zenon, <1>1, <2>1, <2>2, <2>3 DEF ConvergenceInv, AtRestInv
<1>6. CASE final = rec.job.status
  <2>1. /\ rec'.pc = "Idle" /\ queued' = (queued \/ err)
        /\ timer' = IF err \/ after = 0 THEN timer
                    ELSE IF timer = 0 \/ after < timer THEN after ELSE timer
    BY SMTT(30), <1>2, <1>6 DEF Return, Idle
  <2>2. ReadInv' /\ PassInv'
    BY Zenon, <2>1 DEF ReadInv, PassInv
  <2>3. AtRestInv'
    <3> SUFFICES ASSUME ~queued' PROVE AtRestInv'
      BY Zenon DEF AtRestInv
    <3>1. ~queued /\ ~err
      BY <2>1, Zenon
    <3>2. ~rec.err /\ ~StatusError(rec.job)
      BY Zenon, <3>1 DEF err
    <3>3. cache.trainJob = rec.job
      BY Zenon, <1>0, <3>1 DEF ConvergenceInv, ReadInv
    <3>4. PodGroupGone(cache.trainJob)'
      BY Zenon, <1>0, <3>1, <3>2, <3>3 DEF ConvergenceInv, PassInv, PodGroupGone
    <3>5. ASSUME ~IsTrainJobFinished(rec.job.status)
          PROVE  /\ cache.jobSet.owner # 0 /\ JobSetBuilt(cache.trainJob)'
                 /\ PodGroupBuilt(cache.trainJob)'
                 /\ Agrees(rec.job) /\ Armed(cache.trainJob)'
      <4>1. cache.jobSet.owner # 0
        BY SMTT(30), <3>2, <3>5 DEF StatusError
      <4>2. JobSetBuilt(rec.job) /\ PodGroupBuilt(rec.job)
        BY Zenon, <1>0, <3>1, <3>2, <3>5 DEF ConvergenceInv, PassInv
      <4>3. JobSetBuilt(cache.trainJob)'
        BY <1>0, <1>2, <3>3, <4>2 DEF JobSetBuilt, NoJobSet
      <4>4. PodGroupBuilt(cache.trainJob)'
        BY Zenon, <1>0, <3>3, <4>2 DEF PodGroupBuilt
      <4>5. /\ Agrees(rec.job)
            /\ ActiveDeadlineSeconds # 0 /\ ~rec.job.suspend =>
                 /\ after # 0
                 /\ after <= StartTime(rec.job, rec.job.status) + ActiveDeadlineSeconds + 1
        BY Zenon, <1>0, <1>6, <3>5, NothingToPatch DEF final, after
      <4>6. StartTime(rec.job, rec.job.status) \in Nat /\ ActiveDeadlineSeconds \in Nat
        BY Zenon, <1>0, ConstantsAssumption DEF StartTime, TrainJobs, Status
      <4>7. Armed(cache.trainJob)'
        <5>1. /\ (cache.trainJob)' = rec.job
              /\ StartTime(cache.trainJob, cache.trainJob.status)'
                   = StartTime(rec.job, rec.job.status)
          BY <1>0, <3>3 DEF StartTime
        <5> QED BY <5>1, <4>5, <4>6, <1>0, <1>3, <2>1, <3>1 DEF Armed
      <4> QED BY Zenon, <4>1, <4>3, <4>4, <4>5, <4>7
    <3>6. Agrees(cache.trainJob)' = Agrees(rec.job)
      BY <1>0, <3>3 DEF Agrees
    <3> QED BY Zenon, <1>0, <3>3, <3>4, <3>5, <3>6 DEF AtRestInv
  <2> QED BY <1>1, <2>2, <2>3 DEF ConvergenceInv
<1> QED BY <1>5, <1>6

LEMMA PatchStatusConverges ==
  ASSUME TypeInv, ConvergenceInv, PatchStatus PROVE ConvergenceInv'
<1>0. /\ rec \in RecType /\ rec.job \in TrainJobs /\ cache' = cache /\ jobSet' = jobSet
      /\ podGroup' = podGroup /\ rec.pc = "Patch" /\ trainJob \in TrainJobs
  BY DEF TypeInv, TypeOK, RecType, PatchStatus
<1>1. UidInv'
  BY ReconcileUids DEF ConvergenceInv, Reconcile
<1>2. rec'.pc = "Idle"
  BY DEF PatchStatus, Return, Idle
<1>3. ReadInv' /\ PassInv'
  BY Zenon, <1>2 DEF ReadInv, PassInv
<1>4. AtRestInv'
  <2> SUFFICES ASSUME ~queued' PROVE AtRestInv'
    BY DEF AtRestInv
  <2>1. ~Return(TRUE, rec.after)
    BY Zenon DEF Return
  <2>2. /\ trainJob' = [trainJob EXCEPT !.status = rec.status]
        /\ Return(rec.err, rec.after)
    BY ZenonT(30), <2>1 DEF PatchStatus
  <2>3. ~queued /\ ~rec.err
    BY <2>2, Zenon DEF Return
  <2>4. trainJob'.status = rec.status /\ trainJob'.uid = trainJob.uid
    BY Zenon, <1>0, <2>2 DEF TrainJobs
  <2>5. cache.trainJob = rec.job /\ rec.status # rec.job.status
    BY Zenon, <1>0, <2>3 DEF ConvergenceInv, ReadInv
  <2>6. Overtaken(cache.trainJob)'
    BY Zenon, <1>0, <2>4, <2>5 DEF Overtaken
  <2>7. PodGroupGone(cache.trainJob)'
    BY Zenon, <1>0, <2>3, <2>5 DEF ConvergenceInv, PassInv, PodGroupGone
  <2>8. \/ IsTrainJobFinished(rec.job.status)
        \/ JobSetBuilt(cache.trainJob)' /\ PodGroupBuilt(cache.trainJob)'
    BY Zenon, <1>0, <2>3, <2>4, <2>5 DEF ConvergenceInv, PassInv, JobSetBuilt, PodGroupBuilt
  <2>9. IsTrainJobFinished(rec.job.status) \/ cache.jobSet.owner # 0
    BY <1>0, <2>3 DEF ConvergenceInv, PassInv
  <2> QED BY Zenon, <1>0, <2>5, <2>6, <2>7, <2>8, <2>9 DEF AtRestInv
<1> QED BY <1>1, <1>3, <1>4 DEF ConvergenceInv

-----------------------------------------------------------------------------
LEMMA NextConvergence ==
  ASSUME TypeInv, ConvergenceInv, [Next]_vars PROVE ConvergenceInv'
<1>0. /\ budget \in BudgetType /\ budget.uids <= MaxUID /\ MaxUID \in Nat
      /\ trainJob \in TrainJobs /\ jobSet \in JobSets /\ cache \in CacheType
  BY ConstantsAssumption DEF TypeInv, TypeOK, BudgetType, CacheType
<1>u. trainJob.uid \in Nat /\ budget.uids \in Nat
  BY <1>0 DEF TrainJobs, BudgetType
<1>1. CASE Reconcile
  BY <1>1, GetTrainJobConverges, NewObjectsConverges, ApplyObjectConverges,
     DeleteObjectsConverges, SetStatusConverges, PatchStatusConverges DEF Reconcile
<1>2. CASE SyncTrainJob \/ SyncJobSet \/ SyncPodGroup \/ SyncSnapshot
  <2>1. queued' /\ rec' = rec /\ budget' = budget /\ trainJob' = trainJob
    BY Zenon, <1>2 DEF SyncTrainJob, SyncJobSet, SyncPodGroup, SyncSnapshot, Sync, objects
  <2>2. cache'.trainJob \in {cache.trainJob, trainJob}
    BY SMTT(30), <1>0, <1>2 DEF SyncTrainJob, SyncJobSet, SyncPodGroup, SyncSnapshot, Sync, CacheType
  <2>3. UidInv' /\ ReadInv'
    BY Zenon, <2>1, <2>2 DEF ConvergenceInv, UidInv, ReadInv
  <2> QED BY Zenon, <2>1, <2>3, QueuedIsEnough
<1>3. CASE TimerFires
  <2>1. queued' /\ UidInv' /\ ReadInv'
    BY SMTT(30), <1>3 DEF TimerFires, objects, ConvergenceInv, UidInv, ReadInv
  <2> QED BY Zenon, <2>1, QueuedIsEnough
<1>4. CASE Crash
  <2>1. /\ rec'.pc = "Idle" /\ cache'.trainJob = trainJob /\ trainJob' = trainJob
        /\ budget'.uids = budget.uids
    BY <1>0, <1>4 DEF Crash, Idle, objects, BudgetType
  <2>2. queued' \/ cache'.trainJob.uid = 0
    BY <1>4, <2>1, Zenon DEF Crash
  <2>3. UidInv'
    BY <2>1 DEF ConvergenceInv, UidInv
  <2> QED BY Zenon, <2>1, <2>2, <2>3 DEF ConvergenceInv, ReadInv, PassInv, AtRestInv
<1>5. ASSUME NEW suspend \in BOOLEAN, CreateTrainJob(suspend) PROVE ConvergenceInv'
  <2>1. /\ trainJob'.uid = MaxUID - budget.uids + 1 /\ budget'.uids = budget.uids - 1
        /\ UNCHANGED <<jobSet, podGroup, cache, queued, timer, rec>>
    BY Zenon, <1>5, <1>0 DEF CreateTrainJob, NoTrainJob, BudgetType
  <2>2. Untouched
    BY <1>u, <1>0, <2>1 DEF Untouched
  <2>3. UidInv'
    <3>1. cache.trainJob.uid \in Nat
      BY ZenonT(30), <1>0 DEF CacheType, TrainJobs
    <3> QED BY <1>u, <1>0, <2>1, <3>1 DEF ConvergenceInv, UidInv
  <2> QED BY <2>2, <2>3, UntouchedStep
<1>6. ASSUME NEW suspend \in BOOLEAN, NEW patches \in 0 .. MaxPatches,
             UpdateTrainJob(suspend, patches)
      PROVE  ConvergenceInv'
  <2>1. /\ trainJob'.uid = trainJob.uid /\ trainJob'.status = trainJob.status
        /\ budget'.uids = budget.uids
        /\ UNCHANGED <<jobSet, podGroup, cache, queued, timer, rec>>
    BY <1>6, <1>0 DEF UpdateTrainJob, TrainJobs, BudgetType
  <2> QED BY <2>1, UntouchedStep DEF Untouched, ConvergenceInv, UidInv
<1>7. CASE DeleteTrainJob
  <2>1. /\ trainJob'.uid = 0 /\ budget' = budget
        /\ UNCHANGED <<jobSet, podGroup, cache, queued, timer, rec>>
    BY Zenon, <1>7 DEF DeleteTrainJob, NoTrainJob
  <2>2. UidInv'
    BY SMTT(30), <1>u, <1>0, <2>1 DEF ConvergenceInv, UidInv
  <2> QED BY Zenon, <2>1, <2>2, UntouchedStep DEF Untouched
<1>8. CASE JobSetController
  <2>1. UNCHANGED <<trainJob, podGroup, cache, queued, timer, rec, budget>>
    BY Zenon, <1>8 DEF JobSetController
  <2>2. jobSet'.owner = 0 \/ (jobSet'.suspend = jobSet.suspend /\ jobSet'.owner = jobSet.owner)
    <3>1. CASE JobSetStarts \/ JobSetStops
      BY <3>1, <1>0 DEF JobSetStarts, JobSetStops, JobSets
    <3>2. CASE JobSetFinishes
      BY Zenon, <3>2, <1>0 DEF JobSetFinishes, JobSets
    <3>3. CASE JobSetExpires
      BY Zenon, <3>3 DEF JobSetExpires, NoJobSet
    <3> QED BY <1>8, <3>1, <3>2, <3>3 DEF JobSetController
  <2> QED BY <2>1, <2>2, UntouchedStep DEF Untouched, ConvergenceInv, UidInv
<1>9. CASE CollectGarbage
  <2>1. /\ UNCHANGED <<trainJob, cache, queued, timer, rec, budget>>
        /\ jobSet' = jobSet \/ jobSet'.owner = 0
        /\ podGroup' = podGroup
           \/ (podGroup'.owner = 0 /\ podGroup.owner # trainJob.uid)
    BY SMTT(30), <1>9 DEF CollectGarbage, NoJobSet, NoPodGroup
  <2> QED BY Zenon, <2>1, UntouchedStep DEF Untouched, ConvergenceInv, UidInv
<1>10. CASE EditRuntime \/ Tick \/ UNCHANGED vars
  <2>1. UNCHANGED <<trainJob, jobSet, podGroup, cache, queued, timer, rec, budget>>
    BY <1>10 DEF EditRuntime, Tick, vars, objects
  <2> QED BY Zenon, <2>1, UntouchedStep DEF Untouched, ConvergenceInv, UidInv
<1> QED BY Zenon, <1>1, <1>2, <1>3, <1>4, <1>5, <1>6, <1>7, <1>8, <1>9, <1>10 DEF Next, User

LEMMA ConvergenceHolds == Spec => [](TypeInv /\ ConvergenceInv)
<1>1. TypeInv /\ ConvergenceInv /\ [Next]_vars => (TypeInv /\ ConvergenceInv)'
  BY Zenon, NextTypeInv, NextConvergence
<1> QED BY InitTypeInv, InitConvergence, <1>1, PTL DEF Spec

(* At rest the caches are the API server's, so that nothing can be waiting *)
(* for an event.                                                           *)
LEMMA SettledIsDone ==
  ASSUME TypeInv, ConvergenceInv, Settled, trainJob.uid # 0
  PROVE  /\ cache.trainJob = trainJob /\ cache.jobSet = jobSet
         /\ cache.podGroup = podGroup
         /\ jobSet.owner \in {0, trainJob.uid} /\ podGroup.owner \in {0, trainJob.uid}
         /\ PodGroupGone(trainJob)
         /\ Running => /\ jobSet.owner # 0
                       /\ JobSetBuilt(trainJob) /\ PodGroupBuilt(trainJob)
                       /\ Agrees(trainJob) /\ Armed(trainJob)
<1>1. /\ cache.trainJob = trainJob /\ cache.jobSet = jobSet
      /\ cache.podGroup = podGroup /\ rec.pc = "Idle" /\ ~queued
      /\ jobSet.owner \in {0, trainJob.uid} /\ podGroup.owner \in {0, trainJob.uid}
  BY DEF Settled
<1>2. ~Overtaken(trainJob)
  BY DEF Overtaken
<1> QED BY Zenon, <1>1, <1>2 DEF ConvergenceInv, AtRestInv, Running

(* Whatever was read stale, failed, crashed or recreated on the way: once  *)
(* the controller rests, an unfinished TrainJob has its JobSet, suspended  *)
(* as the spec asks, and a Suspended condition that agrees with it.        *)
THEOREM SuspendAlwaysConverges == Spec => []SuspendConverges
<1>1. TypeInv /\ ConvergenceInv => SuspendConverges
  <2> SUFFICES ASSUME TypeInv, ConvergenceInv, Settled, Running
               PROVE  /\ jobSet.owner = trainJob.uid
                      /\ jobSet.suspend = trainJob.suspend
                      /\ trainJob.suspend = (trainJob.status.suspended = "True")
    BY DEF SuspendConverges
  <2>1. trainJob.uid # 0
    BY DEF Running
  <2> QED BY Zenon, <2>1, SettledIsDone DEF JobSetBuilt, Agrees
<1> QED BY <1>1, ConvergenceHolds, PTL

(* Once the controller rests, a TrainJob that may run Pods has its         *)
(* PodGroup, and no Volcano PodGroup outlives the run of its TrainJob.     *)
THEOREM PodGroupAlwaysConverges == Spec => []PodGroupConverges
<1>1. TypeInv /\ ConvergenceInv => PodGroupConverges
  <2> SUFFICES ASSUME TypeInv, ConvergenceInv, Settled, trainJob.uid # 0
               PROVE  /\ Gang # "None" /\ Running /\ ~trainJob.suspend
                           => podGroup.owner = trainJob.uid
                      /\ Gang = "Volcano" /\ ~(Running /\ ~trainJob.suspend)
                           => podGroup.owner = 0
    BY DEF PodGroupConverges
  <2> QED BY SettledIsDone DEF PodGroupBuilt, PodGroupGone, Running
<1> QED BY <1>1, ConvergenceHolds, PTL

(* While a deadline runs, a resting controller has armed a requeue that    *)
(* fires at most a second after it.                                        *)
THEOREM DeadlineAlwaysArmed == Spec => []DeadlineArmed
<1>1. TypeInv /\ ConvergenceInv => DeadlineArmed
  <2> SUFFICES ASSUME TypeInv, ConvergenceInv, Settled, Running, ~trainJob.suspend,
                      ActiveDeadlineSeconds # 0
               PROVE  timer # 0 /\ timer <= Deadline + 1
    BY Zenon DEF DeadlineArmed
  <2>1. Armed(trainJob)
    BY Zenon, SettledIsDone DEF Running
  <2>2. /\ trainJob.created \in Nat /\ trainJob.status.since \in Nat
        /\ ActiveDeadlineSeconds \in Nat
    BY Zenon, ConstantsAssumption DEF TypeInv, TypeOK, TrainJobs, Status
  <2>3. Deadline = StartTime(trainJob, trainJob.status) + ActiveDeadlineSeconds
    BY <2>2 DEF Deadline, StartTime
  <2> QED BY <2>1, <2>3 DEF Armed
<1> QED BY <1>1, ConvergenceHolds, PTL

-----------------------------------------------------------------------------
(***************************************************************************)
(* A deadline is not called early, when every Reconcile starts from the    *)
(* current TrainJob and one TrainJob has the name.                         *)
(***************************************************************************)
PastDeadline(job) ==
  /\ job.status.suspended # "True"
  /\ now > StartTime(job, job.status) + ActiveDeadlineSeconds

LateInv ==
  /\ rec.pc # "Idle" => rec.job.created = trainJob.created
  /\ /\ rec.pc = "Patch" /\ rec.status.failed = "DeadlineExceeded"
     /\ rec.job.status.failed # "DeadlineExceeded"
     => PastDeadline(rec.job)

(* The verdict that SetStatus computes: a TrainJob that resumes in this    *)
(* very step starts its deadline anew, so that it cannot be exceeded.      *)
LEMMA VerdictIsLate ==
  ASSUME TypeOK, NEW job \in TrainJobs, job.status.failed # "DeadlineExceeded",
         Final(job).failed = "DeadlineExceeded"
  PROVE  PastDeadline(job)
<1> DEFINE s == SetTrainJobStatus(job)
           c == Copied(job)
<1>0. /\ job.status \in Status /\ s \in Status /\ c \in Status /\ now \in Nat
      /\ ActiveDeadlineSeconds \in Nat
  BY Zenon, StatusTyped, ConstantsAssumption DEF TrainJobs, Copied, TypeOK
<1>1. /\ s.suspended = job.status.suspended /\ s.since = job.status.since
      /\ s.failed # "DeadlineExceeded"
  BY SMTT(30), <1>0 DEF SetTrainJobStatus, TrainJobStatus, Status
<1>2. c = SetSuspendedCondition(job, s)
  BY Zenon DEF Copied
<1> HIDE DEF s, c
<1>3. c.failed # "DeadlineExceeded"
  BY <1>0, <1>1, <1>2, SuspendedKeepsVerdicts
<1>4. DeadlineExceeded(job, c)
  BY Zenon, <1>3 DEF Final, c
<1>5. ~job.suspend /\ now > StartTime(job, c) + ActiveDeadlineSeconds
  BY <1>4 DEF DeadlineExceeded, HasDeadline
<1>6. CASE s.suspended = "True"
  <2>1. c.suspended = "False" /\ c.since = now
    BY <1>0, <1>2, <1>5, <1>6 DEF SetSuspendedCondition, Status
  <2> QED BY <1>0, <1>5, <2>1 DEF StartTime
<1>7. CASE s.suspended # "True"
  <2>1. c = s
    BY Zenon, <1>2, <1>5, <1>7 DEF SetSuspendedCondition
  <2> QED BY <1>1, <1>5, <1>7, <2>1 DEF PastDeadline, StartTime
<1> QED BY SMTT(30), <1>6, <1>7

LEMMA InitLateInv == Init => LateInv
<1>1. Idle.pc = "Idle"
  BY DEF Idle
<1>2. Init => rec = Idle
  BY Zenon DEF Init
<1> QED BY Zenon, <1>1, <1>2 DEF LateInv

LEMMA NextLateInv ==
  ASSUME MaxUID = 1, ~StaleReads, TypeInv, LifeInv, LateInv, [Next]_vars
  PROVE  LateInv'
<1>0. /\ rec \in RecType /\ rec.job \in TrainJobs /\ trainJob \in TrainJobs
      /\ budget \in BudgetType /\ now \in Nat /\ TypeOK
  BY Zenon DEF TypeInv, TypeOK, RecType, BudgetType
<1>k. ASSUME UNCHANGED rec, rec.pc # "Idle" => trainJob'.created = trainJob.created,
             now' = now \/ now' = now + 1
      PROVE  LateInv'
  <2>1. StartTime(rec.job, rec.job.status) + ActiveDeadlineSeconds \in Nat
    BY <1>0, ConstantsAssumption DEF StartTime, TrainJobs, Status
  <2>2. PastDeadline(rec.job) => PastDeadline(rec.job)'
    BY SMTT(30), <1>0, <1>k, <2>1 DEF PastDeadline, StartTime
  <2> QED BY <1>k, <2>2 DEF LateInv
<1>r. ASSUME rec' = Idle PROVE LateInv'
  BY <1>r DEF LateInv, Idle
<1>1. CASE GetTrainJob
  <2>1. CASE cache.trainJob.uid = 0
    BY Zenon, <1>1, <1>r, <2>1 DEF GetTrainJob
  <2>2. CASE cache.trainJob.uid # 0
    <3>1. rec'.job = trainJob /\ rec'.pc # "Patch" /\ trainJob' = trainJob
      BY Zenon, <1>1, <2>2 DEF GetTrainJob, Idle, objects
    <3> QED BY <3>1 DEF LateInv
  <2> QED BY <2>1, <2>2
<1>2. CASE NewObjects \/ ApplyObject \/ DeleteObjects
  <2>1. /\ rec'.job = rec.job /\ rec'.pc # "Patch" /\ trainJob' = trainJob
        /\ rec.pc # "Idle"
    <3>1. CASE NewObjects
      BY Zenon, <1>0, <3>1 DEF NewObjects, CreateRuntimeSnapshot, BuildObjects, ObjectsError,
                        RecType
    <3>2. CASE ApplyObject
      BY Zenon, <1>0, <3>2 DEF ApplyObject, ObjectsError, RecType
    <3>3. CASE DeleteObjects
      BY ZenonT(30), <1>0, <3>3 DEF DeleteObjects, RecType
    <3> QED BY <1>2, <3>1, <3>2, <3>3
  <2> QED BY <2>1 DEF LateInv
<1>3. CASE SetStatus
  <2>1. /\ trainJob' = trainJob /\ rec.pc = "Status" /\ now' = now
        /\ \/ rec' = Idle
           \/ /\ rec'.pc = "Patch" /\ rec'.job = rec.job
              /\ rec'.status = Final(rec.job)
    BY Zenon, <1>3, SetStatusGives DEF SetStatus
  <2>2. CASE rec'.pc = "Patch" /\ rec'.job = rec.job /\ rec'.status = Final(rec.job)
    <3>1. ASSUME Final(rec.job).failed = "DeadlineExceeded",
                 rec.job.status.failed # "DeadlineExceeded"
          PROVE  PastDeadline(rec.job)'
      <4>1. PastDeadline(rec.job)
        BY <1>0, <3>1, VerdictIsLate
      <4> QED BY Zenon, <4>1, <2>1, <2>2 DEF PastDeadline, StartTime
    <3> QED BY Zenon, <2>1, <2>2, <3>1 DEF LateInv
  <2> QED BY <1>r, <2>1, <2>2
<1>4. CASE PatchStatus \/ Crash
  BY Zenon, <1>4, <1>r DEF PatchStatus, Return, Crash
<1>5. CASE SyncTrainJob \/ SyncJobSet \/ SyncPodGroup \/ SyncSnapshot \/ TimerFires
  BY <1>5, <1>k DEF SyncTrainJob, SyncJobSet, SyncPodGroup, SyncSnapshot, Sync,
     TimerFires, objects
<1>6. ASSUME NEW suspend \in BOOLEAN, CreateTrainJob(suspend) PROVE LateInv'
  <2>1. rec' = Idle
    BY <1>6 DEF CreateTrainJob, LifeInv, BornInv
  <2> QED BY <2>1, <1>r
<1>7. ASSUME NEW suspend \in BOOLEAN, NEW patches \in 0 .. MaxPatches,
             UpdateTrainJob(suspend, patches)
      PROVE  LateInv'
  <2>1. trainJob'.created = trainJob.created /\ rec' = rec /\ now' = now
    BY ZenonT(30), <1>0, <1>7 DEF UpdateTrainJob, TrainJobs
  <2> QED BY <2>1, <1>k
<1>8. CASE DeleteTrainJob
  BY <1>0, <1>8 DEF DeleteTrainJob, LifeInv, BornInv, BudgetType
<1>9. CASE EditRuntime \/ JobSetController \/ CollectGarbage \/ Tick \/ UNCHANGED vars
  <2>1. rec' = rec /\ trainJob' = trainJob /\ (now' = now \/ now' = now + 1)
    BY <1>9 DEF EditRuntime, JobSetController, CollectGarbage, Tick, vars, objects
  <2> QED BY Zenon, <2>1, <1>k
<1> QED BY Zenon, <1>1, <1>2, <1>3, <1>4, <1>5, <1>6, <1>7, <1>8, <1>9
        DEF Next, Reconcile, User

(* A TrainJob fails with DeadlineExceeded only in a status patch, and then *)
(* activeDeadlineSeconds have passed since its creation or the resume that *)
(* its status records.  It needs reads that are fresh: a call that started *)
(* from an older copy would count from an older resume.                    *)
THEOREM DeadlineIsNotEarly ==
  ASSUME MaxUID = 1, ~StaleReads PROVE Spec => DeadlineNotEarly
<1> DEFINE Inv == TypeInv /\ OwnInv /\ LifeInv /\ LateInv
           Early == trainJob.status.failed # "DeadlineExceeded"
                    /\ trainJob'.status.failed = "DeadlineExceeded"
           Late == trainJob.status.suspended # "True" /\ now > Deadline
<1>1. Init => Inv
  BY InitTypeInv, InitOwnInv, InitLifeInv, InitLateInv
<1>2. Inv /\ [Next]_vars => Inv'
  BY SMTT(30), NextTypeInv, NextOwnInv, NextLifeInv, NextLateInv
<1>3. Inv /\ [Next]_vars => [Early => Late]_vars
  <2> SUFFICES ASSUME Inv, [Next]_vars, Early PROVE Late
    BY Zenon
  <2>0. trainJob \in TrainJobs /\ rec \in RecType
    BY Zenon DEF TypeInv, TypeOK, RecType
  <2>1. CASE PatchStatus
    <3>1. /\ rec.pc = "Patch" /\ rec.status.failed = "DeadlineExceeded"
      BY Zenon, <2>0, <2>1 DEF PatchStatus, TrainJobs
    <3>2. rec.job.status = trainJob.status /\ rec.job.created = trainJob.created
      BY Zenon, <3>1 DEF LifeInv, FreshInv, LateInv
    <3>3. PastDeadline(rec.job)
      BY Zenon, <3>1, <3>2 DEF LateInv
    <3>4. StartTime(rec.job, rec.job.status) + ActiveDeadlineSeconds = Deadline
      <4>1. /\ trainJob.created \in Nat /\ trainJob.status.since \in Nat
            /\ ActiveDeadlineSeconds \in Nat
        BY <2>0, ConstantsAssumption DEF TrainJobs, Status
      <4> QED BY <3>2, <4>1 DEF StartTime, Deadline
    <3> QED BY <3>2, <3>3, <3>4 DEF PastDeadline
  <2>2. ASSUME NEW suspend \in BOOLEAN, CreateTrainJob(suspend) PROVE Late
    BY <2>2 DEF CreateTrainJob, NoTrainJob, NoStatus
  <2>3. ASSUME NEW suspend \in BOOLEAN, NEW patches \in 0 .. MaxPatches,
               UpdateTrainJob(suspend, patches)
        PROVE  Late
    BY ZenonT(30), <2>0, <2>3 DEF UpdateTrainJob, TrainJobs
  <2>4. CASE DeleteTrainJob
    BY <2>4 DEF DeleteTrainJob, NoTrainJob, NoStatus
  <2>5. CASE UNCHANGED trainJob
    BY <2>5
  <2> QED BY ZenonT(30), <2>1, <2>2, <2>3, <2>4, <2>5
          DEF Next, Reconcile, GetTrainJob, NewObjects, ApplyObject, DeleteObjects,
              SetStatus, SyncTrainJob, SyncJobSet, SyncPodGroup, SyncSnapshot, Sync,
              TimerFires, Crash, User, EditRuntime, JobSetController, CollectGarbage,
              Tick, vars, objects
<1>4. DeadlineNotEarly <=> [][Early => Late]_vars
  BY PTL DEF DeadlineNotEarly
<1> HIDE DEF Inv, Early, Late
<1> QED BY <1>1, <1>2, <1>3, <1>4, PTL DEF Spec
=============================================================================
