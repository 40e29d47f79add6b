------------------------------ MODULE TrainJob ------------------------------
(***************************************************************************)
(* The TrainJob controller (pkg/controller/trainjob_controller.go), with   *)
(* the parts of the runtime framework it calls: the runtime snapshot       *)
(* (pkg/runtime/core), the JobSet plugin, and the gang-scheduling plugins. *)
(*                                                                         *)
(* One TrainJob name is followed.  The API server holds the TrainJob and   *)
(* the objects built for it; the controller reads them through an informer *)
(* cache that lags, and writes them one request at a time.  Every request  *)
(* may fail, the controller may crash between two requests, and the user,  *)
(* the platform admin, the JobSet controller, the garbage collector and    *)
(* the clock act in between.  The TrainJob is one this controller manages, *)
(* with a runtime it has registered: another is left alone, or fails with  *)
(* RuntimeNotSupported, before any of this.  status.jobsStatus, a copy of  *)
(* the JobSet's counters that nothing reads, is left out.                  *)
(***************************************************************************)
EXTENDS Integers, Sequences

CONSTANTS
  ActiveDeadlineSeconds,  \* spec.activeDeadlineSeconds; 0 when unset
  Gang,          \* the PodGroupPolicy of the runtime
  StaleReads,    \* a Reconcile may start before the cache has the last TrainJob
  TTL,           \* the runtime's JobSet template sets ttlSecondsAfterFinished
  MaxTime,       \* bound on the clock
  MaxEdits,      \* bound on updates of the TrainJob spec
  MaxPatches,    \* versions of spec.runtimePatches
  MaxRuntimes,   \* versions of the referenced runtime
  MaxUID,        \* how often a TrainJob of this name is created
  MaxFailures,   \* bound on failed API requests
  MaxCrashes     \* bound on controller restarts

ASSUME ConstantsAssumption ==
  /\ ActiveDeadlineSeconds \in Nat
  /\ Gang \in {"None", "Volcano", "Coscheduling"}
  /\ StaleReads \in BOOLEAN /\ TTL \in BOOLEAN
  /\ MaxTime \in Nat /\ MaxEdits \in Nat /\ MaxPatches \in Nat
  /\ MaxRuntimes \in Nat \ {0} /\ MaxUID \in Nat \ {0}
  /\ MaxFailures \in Nat /\ MaxCrashes \in Nat

VARIABLES
  trainJob, jobSet, podGroup, snapshot,   \* the objects in the API server
  runtime,      \* version of the live (Cluster)TrainingRuntime, 0 when deleted
  cache,        \* the informer cache's copy of the four objects
  queued,       \* the key is in the workqueue
  timer,        \* when the delayed requeue fires, 0 when there is none
  rec,          \* the Reconcile call in flight
  now,          \* the clock, in seconds
  ran,          \* the outcomes JobSets reached, with their owner's UID
  budget        \* what is left of MaxUID, MaxEdits, MaxFailures, MaxCrashes

objects == <<trainJob, jobSet, podGroup, snapshot>>
vars == <<objects, runtime, cache, queued, timer, rec, now, ran,
          budget>>

(***************************************************************************)
(* Objects.  An object whose owner (or, for the TrainJob, UID) is 0 does   *)
(* not exist.                                                              *)
(***************************************************************************)
Reasons == {"None", "JobSetFailed", "DeadlineExceeded"}
Status == [complete: BOOLEAN, failed: Reasons,
           suspended: {"Unset", "True", "False"}, since: Nat]
TrainJobs == [uid: Nat, created: Nat, suspend: BOOLEAN, patches: Nat,
              status: Status]
JobSets == [owner: Nat, suspend: BOOLEAN, version: Nat, patches: Nat,
            active: BOOLEAN, outcome: {"None", "Completed", "Failed"}]
PodGroups == [owner: Nat, patches: Nat]
Snapshots == [owner: Nat, version: Nat]

NoStatus == [complete |-> FALSE, failed |-> "None",
             suspended |-> "Unset", since |-> 0]
NoTrainJob == [uid |-> 0, created |-> 0, suspend |-> FALSE, patches |-> 0,
               status |-> NoStatus]
NoJobSet == [owner |-> 0, suspend |-> FALSE, version |-> 0, patches |-> 0,
             active |-> FALSE, outcome |-> "None"]
NoPodGroup == [owner |-> 0, patches |-> 0]
NoSnapshot == [owner |-> 0, version |-> 0]

Kinds == {"JobSet", "PodGroup"}
Steps == {"Idle", "NewObjects", "Apply", "DeleteObjects", "Status", "Patch"}
Idle == [pc |-> "Idle", job |-> NoTrainJob, version |-> 0, todo |-> <<>>,
         status |-> NoStatus, err |-> FALSE, after |-> 0]

IsTrainJobFinished(status) == status.complete \/ status.failed # "None"

(***************************************************************************)
(* A write fails because the server refuses it, or for a transient reason. *)
(***************************************************************************)
Succeed == budget' = budget
Fail == /\ budget.failures > 0
        /\ budget' = [budget EXCEPT !.failures = @ - 1]

\* The workqueue takes a failed key back at once (its backoff only delays the
\* retry); otherwise a RequeueAfter is armed, and of two armed delays of one
\* key the earlier one is kept.
Return(err, after) ==
  /\ rec' = Idle
  /\ queued' = (queued \/ err)
  /\ timer' = IF err \/ after = 0 THEN timer
              ELSE IF timer = 0 \/ after < timer THEN after ELSE timer

-----------------------------------------------------------------------------
(***************************************************************************)
(* Reconcile.                                                              *)
(***************************************************************************)
GetTrainJob ==
  /\ rec.pc = "Idle" /\ queued
  /\ StaleReads \/ cache.trainJob = trainJob
  /\ queued' = FALSE
  /\ rec' = IF cache.trainJob.uid = 0 THEN Idle
            ELSE [Idle EXCEPT !.job = cache.trainJob,
                              !.pc = IF IsTrainJobFinished(cache.trainJob.status)
                                     THEN "DeleteObjects" ELSE "NewObjects"]
  /\ UNCHANGED <<objects, runtime, cache, timer, now, ran, budget>>

\* What each ComponentBuilderPlugin returns for the TrainJob it was given, from
\* the objects it finds in the cache.
BuildJobSetUnlessRunning(job) ==
  IF cache.jobSet.owner # 0 /\ ~cache.jobSet.suspend THEN <<>> ELSE <<"JobSet">>

BuildJobSet(job) ==
  IF cache.jobSet.owner # 0 /\ ~job.suspend /\ ~cache.jobSet.suspend
  THEN <<>> ELSE <<"JobSet">>

BuildPodGroup(job) ==
  LET exists == cache.podGroup.owner # 0
      skip == \/ Gang = "None"
              \/ Gang = "Volcano" /\ (job.suspend \/ exists)
              \/ Gang = "Coscheduling" /\ exists /\ ~job.suspend
  IN IF skip THEN <<>> ELSE <<"PodGroup">>

\* Plugins run in the order of their names, CoScheduling < JobSet < Volcano.
RunComponentBuilderPlugins(job) ==
  IF Gang = "Coscheduling" THEN BuildPodGroup(job) \o BuildJobSet(job)
                           ELSE BuildJobSet(job) \o BuildPodGroup(job)

BuildObjects(version) ==
  rec' = [rec EXCEPT !.pc = "Apply", !.version = version,
                     !.todo = RunComponentBuilderPlugins(rec.job)]

ObjectsError ==
  rec' = [rec EXCEPT !.pc = "DeleteObjects", !.todo = <<>>, !.err = TRUE]

\* createRuntimeSnapshot applies with forced ownership, so an existing snapshot
\* of the same TrainJob is overwritten; a second controlling owner is refused.
CreateRuntimeSnapshot ==
  \/ /\ snapshot.owner \in {0, rec.job.uid} /\ Succeed
     /\ snapshot' = [owner |-> rec.job.uid, version |-> runtime]
     /\ BuildObjects(runtime)
  \/ /\ IF snapshot.owner \in {0, rec.job.uid} THEN Fail ELSE Succeed
     /\ ObjectsError /\ UNCHANGED snapshot

NewObjects ==
  /\ rec.pc = "NewObjects"
  /\ \/ cache.snapshot.owner = 0 /\ runtime # 0 /\ CreateRuntimeSnapshot
     \/ /\ cache.snapshot.owner = rec.job.uid
        /\ BuildObjects(cache.snapshot.version)
        /\ Succeed /\ UNCHANGED snapshot
     \/ /\ \/ cache.snapshot.owner = 0 /\ runtime = 0
           \/ cache.snapshot.owner \notin {0, rec.job.uid}
        /\ ObjectsError /\ Succeed /\ UNCHANGED snapshot
  /\ UNCHANGED <<trainJob, jobSet, podGroup, runtime, cache, queued, timer,
                 now, ran>>

\* What the API server makes of the apply of a JobSet.  JobSet's own admission
\* webhook lets the Pod templates change only while, or when, it is suspended.
JobSetAccepts(job, version) ==
  \/ jobSet.owner = 0
  \/ /\ jobSet.owner = job.uid
     /\ \/ jobSet.suspend \/ job.suspend
        \/ jobSet.version = version /\ jobSet.patches = job.patches

AppliedJobSet(job, version) ==
  [jobSet EXCEPT !.owner = job.uid, !.suspend = job.suspend,
                 !.version = version, !.patches = job.patches]

Accepts(kind) ==
  IF kind = "JobSet" THEN JobSetAccepts(rec.job, rec.version)
                     ELSE podGroup.owner \in {0, rec.job.uid}

\* The loop over the built objects: one request each, left at the first error.
ApplyObject ==
  /\ rec.pc = "Apply" /\ rec.todo # <<>>
  /\ LET kind == Head(rec.todo) IN
     \/ /\ Accepts(kind) /\ Succeed
        /\ rec' = [rec EXCEPT !.todo = Tail(@)]
        /\ jobSet' = IF kind = "JobSet"
                     THEN AppliedJobSet(rec.job, rec.version) ELSE jobSet
        /\ podGroup' = IF kind = "PodGroup"
                       THEN [owner |-> rec.job.uid, patches |-> rec.job.patches]
                       ELSE podGroup
     \/ /\ IF Accepts(kind) THEN Fail ELSE Succeed
        /\ ObjectsError /\ UNCHANGED <<jobSet, podGroup>>
  /\ UNCHANGED <<trainJob, snapshot, runtime, cache, queued, timer, now,
                 ran>>

\* The Volcano plugin is the only ComponentDeleterPlugin.
DeletePodGroupOfFinished(job) ==
  /\ Gang = "Volcano" /\ IsTrainJobFinished(job.status)
  /\ cache.podGroup.owner = job.uid

DeletePodGroup(job) ==
  /\ Gang = "Volcano"
  /\ IsTrainJobFinished(job.status) \/ job.suspend
  /\ cache.podGroup.owner = job.uid

DeleteObjects ==
  /\ rec.pc = "DeleteObjects" \/ (rec.pc = "Apply" /\ rec.todo = <<>>)
  /\ \/ /\ podGroup' = IF DeletePodGroup(rec.job) THEN NoPodGroup ELSE podGroup
        /\ rec' = [rec EXCEPT !.pc = "Status"]
        /\ Succeed
     \/ /\ DeletePodGroup(rec.job) /\ Fail
        /\ rec' = [rec EXCEPT !.pc = "Status", !.err = TRUE]
        /\ UNCHANGED podGroup
  /\ UNCHANGED <<trainJob, jobSet, snapshot, runtime, cache, queued, timer,
                 now, ran>>

\* The JobSet plugin's Status, and the DeadlineExceeded condition kept over the
\* one copied from the JobSet.  With no JobSet in the cache, Status returns an
\* error unless the TrainJob is finished.
TrainJobStatusCopied(status) ==
  [status EXCEPT
     !.complete = @ \/ cache.jobSet.outcome = "Completed",
     !.failed = IF cache.jobSet.outcome = "Failed" THEN "JobSetFailed" ELSE @]

TrainJobStatus(status) ==
  [status EXCEPT
     !.complete = @ \/ cache.jobSet.outcome = "Completed",
     !.failed = IF cache.jobSet.outcome = "Failed" /\ @ # "DeadlineExceeded"
                THEN "JobSetFailed" ELSE @]

StatusErrorWhenNotFound(job) == cache.jobSet.owner = 0

StatusError(job) == cache.jobSet.owner = 0 /\ ~IsTrainJobFinished(job.status)

SetTrainJobStatus(job) ==
  IF cache.jobSet.owner = 0 THEN job.status ELSE TrainJobStatus(job.status)

\* meta.SetStatusCondition moves LastTransitionTime only when the status flips.
SetResumedUnknown(job, status) ==
  IF job.suspend THEN [status EXCEPT !.suspended = "True"]
  ELSE IF status.suspended = "True" THEN [status EXCEPT !.suspended = "Unknown"]
  ELSE status

SetOnlySuspendedCondition(job, status) ==
  IF job.suspend THEN [NoStatus EXCEPT !.suspended = "True", !.since = now]
  ELSE status

SetSuspendedCondition(job, status) ==
  LET new == IF job.suspend THEN "True"
             ELSE IF status.suspended = "True" THEN "False" ELSE status.suspended
  IN IF new = status.suspended THEN status
     ELSE [status EXCEPT !.suspended = new, !.since = now]

StartTimeAtCreation(job, status) == job.created

StartTime(job, status) ==
  IF status.suspended = "False" THEN status.since ELSE job.created

HasDeadline(job, status) ==
  ActiveDeadlineSeconds # 0 /\ ~IsTrainJobFinished(status) /\ ~job.suspend

DeadlineExceeded(job, status) ==
  /\ HasDeadline(job, status)
  /\ now > StartTime(job, status) + ActiveDeadlineSeconds

RequeueAtBeforeDeadline(job, status) ==
  LET deadline == StartTime(job, status) + ActiveDeadlineSeconds
  IN IF ~HasDeadline(job, status) \/ now >= deadline THEN 0 ELSE deadline

RequeueAt(job, status) ==
  LET deadline == StartTime(job, status) + ActiveDeadlineSeconds
  IN IF ~HasDeadline(job, status) \/ now > deadline THEN 0
     ELSE IF deadline = now THEN now + 1 ELSE deadline

\* setTrainJobStatus, setSuspendedCondition and reconcileDeadline.  When the
\* deadline has passed the JobSet is deleted, and a failed delete is ignored.
\* With nothing to patch, Reconcile returns.
SetStatus ==
  /\ rec.pc = "Status"
  /\ LET job == rec.job
         status == SetSuspendedCondition(job, SetTrainJobStatus(job))
         exceeded == DeadlineExceeded(job, status)
         final == IF exceeded THEN [status EXCEPT !.failed = "DeadlineExceeded"]
                              ELSE status
         err == rec.err \/ StatusError(job)
         after == RequeueAt(job, status)
     IN /\ \/ /\ jobSet' = IF exceeded THEN NoJobSet ELSE jobSet
              /\ Succeed
           \/ exceeded /\ Fail /\ UNCHANGED jobSet
        /\ IF final = job.status
           THEN Return(err, after)
           ELSE /\ rec' = [rec EXCEPT !.pc = "Patch", !.status = final,
                                      !.err = err, !.after = after]
                /\ UNCHANGED <<queued, timer>>
  /\ UNCHANGED <<trainJob, podGroup, snapshot, runtime, cache, now, ran>>

\* A JSON merge patch against the TrainJob of that name: it carries neither a
\* UID nor a resource version, and it replaces the conditions as a whole.
PatchStatus ==
  /\ rec.pc = "Patch"
  /\ \/ /\ trainJob.uid # 0 /\ Succeed
        /\ trainJob' = [trainJob EXCEPT !.status = rec.status]
        /\ Return(rec.err, rec.after)
     \/ /\ IF trainJob.uid # 0 THEN Fail ELSE Succeed
        /\ Return(TRUE, rec.after)
        /\ UNCHANGED trainJob
  /\ UNCHANGED <<jobSet, podGroup, snapshot, runtime, cache, now, ran>>

Reconcile == \/ GetTrainJob \/ NewObjects \/ ApplyObject \/ DeleteObjects
             \/ SetStatus \/ PatchStatus

-----------------------------------------------------------------------------
(***************************************************************************)
(* The workqueue and the informers.                                        *)
(***************************************************************************)
\* An informer catches up with one kind of object; its event enqueues the
\* TrainJob (the object itself, or the controlling owner).
SyncWithoutOwnedWatches(kind, object) ==
  /\ cache[kind] # object
  /\ cache' = [cache EXCEPT ![kind] = object]
  /\ queued' = (queued \/ kind = "trainJob")
  /\ UNCHANGED <<objects, runtime, timer, rec, now, ran, budget>>

Sync(kind, object) ==
  /\ cache[kind] # object
  /\ cache' = [cache EXCEPT ![kind] = object]
  /\ queued' = TRUE
  /\ UNCHANGED <<objects, runtime, timer, rec, now, ran, budget>>

SyncTrainJob == Sync("trainJob", trainJob)
SyncJobSet == Sync("jobSet", jobSet)
SyncPodGroupUnwatched ==
  /\ cache.podGroup # podGroup
  /\ cache' = [cache EXCEPT !.podGroup = podGroup]
  /\ UNCHANGED <<objects, runtime, queued, timer, rec, now, ran, budget>>

SyncPodGroup == Sync("podGroup", podGroup)
SyncSnapshot == Sync("snapshot", snapshot)

TimerFires ==
  /\ timer # 0 /\ timer <= now
  /\ timer' = 0 /\ queued' = TRUE
  /\ UNCHANGED <<objects, runtime, cache, rec, now, ran, budget>>

\* The manager restarts: the call in flight and the timers are lost, the caches
\* are listed anew, and every TrainJob found is enqueued.
Crash ==
  /\ budget.crashes > 0
  /\ budget' = [budget EXCEPT !.crashes = @ - 1]
  /\ rec' = Idle /\ timer' = 0 /\ queued' = (trainJob.uid # 0)
  /\ cache' = [trainJob |-> trainJob, jobSet |-> jobSet,
               podGroup |-> podGroup, snapshot |-> snapshot]
  /\ UNCHANGED <<objects, runtime, now, ran>>

-----------------------------------------------------------------------------
(***************************************************************************)
(* The user, through the validating webhook, and the platform admin.       *)
(***************************************************************************)
\* ValidateObjects resolves the runtime from the snapshot, or from the live
\* runtime when the cache holds no snapshot.
ValidateObjects(uid) ==
  \/ cache.snapshot.owner = uid
  \/ cache.snapshot.owner = 0 /\ runtime # 0

CreateTrainJob(suspend) ==
  /\ trainJob.uid = 0 /\ budget.uids > 0
  /\ LET uid == MaxUID - budget.uids + 1 IN
     /\ ValidateObjects(uid)
     /\ trainJob' = [NoTrainJob EXCEPT !.uid = uid, !.created = now,
                                       !.suspend = suspend]
  /\ budget' = [budget EXCEPT !.uids = @ - 1]
  /\ UNCHANGED <<jobSet, podGroup, snapshot, runtime, cache, queued, timer,
                 rec, now, ran>>

CheckRuntimePatchesImmutability(suspend, patches) ==
  \/ patches = trainJob.patches
  \/ /\ trainJob.suspend \/ suspend
     /\ ~cache.jobSet.active

UpdateTrainJob(suspend, patches) ==
  /\ trainJob.uid # 0 /\ budget.edits > 0
  /\ <<suspend, patches>> # <<trainJob.suspend, trainJob.patches>>
  /\ ValidateObjects(trainJob.uid)
  /\ CheckRuntimePatchesImmutability(suspend, patches)
  /\ trainJob' = [trainJob EXCEPT !.suspend = suspend, !.patches = patches]
  /\ budget' = [budget EXCEPT !.edits = @ - 1]
  /\ UNCHANGED <<jobSet, podGroup, snapshot, runtime, cache, queued, timer,
                 rec, now, ran>>

DeleteTrainJob ==
  /\ trainJob.uid # 0 /\ budget.uids > 0
  /\ trainJob' = NoTrainJob
  /\ UNCHANGED <<jobSet, podGroup, snapshot, runtime, cache, queued, timer,
                 rec, now, ran, budget>>

EditRuntime ==
  /\ runtime # 0 /\ runtime < MaxRuntimes
  /\ runtime' \in {0, runtime + 1}
  /\ UNCHANGED <<objects, cache, queued, timer, rec, now, ran, budget>>

-----------------------------------------------------------------------------
(***************************************************************************)
(* The JobSet controller, the garbage collector and the clock.             *)
(***************************************************************************)
JobSetStarts ==
  /\ jobSet.owner # 0 /\ ~jobSet.suspend /\ ~jobSet.active
  /\ jobSet.outcome = "None"
  /\ jobSet' = [jobSet EXCEPT !.active = TRUE]
  /\ UNCHANGED ran

JobSetStops ==
  /\ jobSet.active /\ jobSet.suspend
  /\ jobSet' = [jobSet EXCEPT !.active = FALSE]
  /\ UNCHANGED ran

JobSetFinishes ==
  /\ jobSet.active /\ ~jobSet.suspend
  /\ \E outcome \in {"Completed", "Failed"} :
       /\ jobSet' = [jobSet EXCEPT !.active = FALSE, !.outcome = outcome]
       /\ ran' = ran \union {<<jobSet.owner, outcome>>}

JobSetExpires ==
  /\ TTL /\ jobSet.outcome # "None"
  /\ jobSet' = NoJobSet
  /\ UNCHANGED ran

JobSetController ==
  /\ JobSetStarts \/ JobSetStops \/ JobSetFinishes \/ JobSetExpires
  /\ UNCHANGED <<trainJob, podGroup, snapshot, runtime, cache, queued, timer,
                 rec, now, budget>>

\* Objects whose owner is gone are deleted, in any order.
CollectGarbage ==
  /\ \/ /\ jobSet.owner \notin {0, trainJob.uid}
        /\ jobSet' = NoJobSet /\ UNCHANGED <<podGroup, snapshot>>
     \/ /\ podGroup.owner \notin {0, trainJob.uid}
        /\ podGroup' = NoPodGroup /\ UNCHANGED <<jobSet, snapshot>>
     \/ /\ snapshot.owner \notin {0, trainJob.uid}
        /\ snapshot' = NoSnapshot /\ UNCHANGED <<jobSet, podGroup>>
  /\ UNCHANGED <<trainJob, runtime, cache, queued, timer, rec, now, ran,
                 budget>>

Tick ==
  /\ now < MaxTime
  /\ now' = now + 1
  /\ UNCHANGED <<objects, runtime, cache, queued, timer, rec, ran, budget>>

-----------------------------------------------------------------------------
Init ==
  /\ trainJob = NoTrainJob /\ jobSet = NoJobSet
  /\ podGroup = NoPodGroup /\ snapshot = NoSnapshot
  /\ runtime = 1
  /\ cache = [trainJob |-> NoTrainJob, jobSet |-> NoJobSet,
              podGroup |-> NoPodGroup, snapshot |-> NoSnapshot]
  /\ queued = FALSE /\ timer = 0 /\ rec = Idle
  /\ now = 1 /\ ran = {}
  /\ budget = [uids |-> MaxUID, edits |-> MaxEdits,
               failures |-> MaxFailures, crashes |-> MaxCrashes]

User == \/ \E suspend \in BOOLEAN : CreateTrainJob(suspend)
        \/ \E suspend \in BOOLEAN, patches \in 0 .. MaxPatches :
             UpdateTrainJob(suspend, patches)
        \/ DeleteTrainJob \/ EditRuntime

Next == \/ Reconcile \/ SyncTrainJob \/ SyncJobSet \/ SyncPodGroup
        \/ SyncSnapshot \/ TimerFires \/ Crash \/ User
        \/ JobSetController \/ CollectGarbage \/ Tick

Spec == Init /\ [][Next]_vars

\* The workqueue hands every key to a worker, watches deliver, time passes and
\* the garbage collector runs.  The user and the JobSet owe nothing.
FairSpec == /\ Spec /\ WF_vars(Reconcile)
            /\ WF_vars(SyncTrainJob) /\ WF_vars(SyncJobSet)
            /\ WF_vars(SyncPodGroup) /\ WF_vars(SyncSnapshot)
            /\ WF_vars(TimerFires) /\ WF_vars(Tick) /\ WF_vars(CollectGarbage)

-----------------------------------------------------------------------------
(***************************************************************************)
(* Properties.                                                             *)
(***************************************************************************)
\* Every variable keeps its type.
TypeOK ==
  /\ trainJob \in TrainJobs /\ jobSet \in JobSets
  /\ podGroup \in PodGroups /\ snapshot \in Snapshots
  /\ runtime \in Nat /\ now \in Nat /\ timer \in Nat
  /\ queued \in BOOLEAN
  /\ cache \in [trainJob: TrainJobs, jobSet: JobSets, podGroup: PodGroups,
                 snapshot: Snapshots]
  /\ rec \in [pc: Steps, job: TrainJobs, version: Nat, todo: Seq(Kinds),
               status: Status, err: BOOLEAN, after: Nat]
  /\ ran \subseteq (Nat \X {"Completed", "Failed"})
  /\ budget \in [uids: Nat, edits: Nat, failures: Nat, crashes: Nat]

\* The system is at rest: no call in flight, nothing queued, no object of an
\* earlier TrainJob left to collect, and the caches have caught up.
Settled ==
  /\ rec.pc = "Idle" /\ ~queued
  /\ \A o \in {jobSet.owner, podGroup.owner, snapshot.owner} : o \in {0, trainJob.uid}
  /\ cache = [trainJob |-> trainJob, jobSet |-> jobSet,
              podGroup |-> podGroup, snapshot |-> snapshot]

Running == trainJob.uid # 0 /\ ~IsTrainJobFinished(trainJob.status)

\* Level-triggered convergence: whatever happened on the way, once the controller
\* rests an unfinished TrainJob has its JobSet, suspended exactly when the spec
\* asks for it, and the Suspended condition agrees (Build, setSuspendedCondition).
SuspendConverges ==
  Settled /\ Running =>
    /\ jobSet.owner = trainJob.uid
    /\ jobSet.suspend = trainJob.suspend
    /\ trainJob.suspend = (trainJob.status.suspended = "True")

\* Once the controller rests, a TrainJob that may run Pods has its PodGroup; and a
\* Volcano PodGroup, which keeps queue capacity, is never left behind by a
\* finished or suspended TrainJob (Build of both gang plugins, Volcano Delete).
PodGroupConverges ==
  Settled /\ trainJob.uid # 0 =>
    /\ Gang # "None" /\ Running /\ ~trainJob.suspend
         => podGroup.owner = trainJob.uid
    /\ Gang = "Volcano" /\ ~(Running /\ ~trainJob.suspend)
         => podGroup.owner = 0

\* When the deadline of a running TrainJob passes: counted from its creation, or
\* from the resume its status records.
Deadline ==
  ActiveDeadlineSeconds + (IF trainJob.status.suspended = "False"
                           THEN trainJob.status.since ELSE trainJob.created)

\* While a deadline runs, a resting controller has armed a requeue that fires
\* no later than a second after it: the deadline is never forgotten across
\* suspends, resumes, failed requests and restarts (reconcileDeadline).
DeadlineArmed ==
  Settled /\ Running /\ ~trainJob.suspend /\ ActiveDeadlineSeconds # 0 =>
    timer # 0 /\ timer <= Deadline + 1

\* A TrainJob fails with DeadlineExceeded only when activeDeadlineSeconds have
\* passed since its creation and since its last recorded resume, and never while
\* it is recorded as suspended (reconcileDeadline runs after
\* setSuspendedCondition, on a status that no other write has overtaken).
DeadlineNotEarly ==
  [][ trainJob.status.failed # "DeadlineExceeded"
      /\ trainJob'.status.failed = "DeadlineExceeded"
      => trainJob.status.suspended # "True" /\ now > Deadline ]_vars

\* "Once reached, all running Pods are terminated": when the controller rests, no
\* JobSet is left of a TrainJob that failed on its deadline.
DeadlineStopsJobSet ==
  Settled /\ trainJob.status.failed = "DeadlineExceeded" => jobSet.owner = 0

\* What is left when controllers, caches and requests are forgotten: whether the
\* TrainJob exists and is to be suspended, which outcomes its JobSet reached, and
\* its two verdicts.
Lifecycle == INSTANCE TrainJobLifecycle
  WITH MayExpire <- ActiveDeadlineSeconds # 0,
       exists <- trainJob.uid # 0,
       held <- trainJob.suspend,
       reached <- {outcome \in {"Completed", "Failed"} :
                     <<trainJob.uid, outcome>> \in ran},
       complete <- trainJob.status.complete,
       failed <- trainJob.status.failed

\* Every step of the controller, whatever it read and whichever request failed,
\* is a step of the TrainJob's life or none: a verdict follows an outcome of its
\* JobSet (or the deadline of a TrainJob that has none), verdicts come one at a
\* time and stay (setTrainJobStatus, reconcileDeadline, the status patch).
FollowsLifecycle == Lifecycle!Safe

\* The same, and once its JobSet has ended the TrainJob does get its verdict
\* unless the user suspends it, across failed requests, restarts and a deadline
\* that passes meanwhile and deletes the ended JobSet (reconcileDeadline).
ImplementsLifecycle == Lifecycle!Spec

\* The controller comes to rest: reconciling provokes no endless series of
\* patches, events and retries.
Converges == <>[]Settled
=============================================================================
