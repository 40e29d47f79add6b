# A TLA+ model of Kubeflow Trainer

This directory specifies the stateful parts of Kubeflow Trainer (v2): the
controllers of the Kubernetes operator, the pipeline that turns a runtime and a
TrainJob into objects, the runtime status server, the distributed data cache, the
dataset and model initializers, and the Python models of the API. The specifications are model-checked with TLC on
small instances, and almost all their safety properties are proved with TLAPS for every
value of the constants. Paths below are relative to the repository root.

## 1. The system

| part | code | state | steps |
|---|---|---|---|
| TrainJob controller | `pkg/controller/trainjob_controller.go` | TrainJob, JobSet, PodGroup, snapshot in the API server; informer cache; workqueue; the call in flight | one API request per step of `Reconcile` |
| runtime framework and plugins | `pkg/runtime/...` | `Info` (PodSets, template) of one build | the plugin phases of one `NewObjects` |
| OptimizationJob controller | `pkg/controller/optimizationjob_controller.go`, `pkg/util/optimizationjob` | trials (TrainJobs), status, algorithm Deployment and Service | one API or gRPC call per step |
| status server | `pkg/statusserver` | `status.trainerStatus`, requests in flight on any replica | receive, authorize, apply, answer, each a step of its own |
| data cache | `pkg/data_cache` | file groups, tables of the workers, readiness, clients' ranges | plan, put, load, serve, read |
| initializers | `pkg/initializers` | the volume and the objects of the bucket; ServiceAccount, LeaderWorkerSet, Service of a cache | one object read or written, or one API call, per step |
| Python API models | `api/python_api/kubeflow_trainer_api/models` | an object in the API server, the instances a client holds | read, assign, write |

How they interact: a user creates a TrainJob. Its controller builds it with the
runtime framework and applies a JobSet and, with gang scheduling, a PodGroup. The
Pods of the JobSet may run initializers first, which download the dataset and the
model or start the data cache; the trainer then reads its rows from the cache and posts progress to the
status server, which writes the same TrainJob status the controller patches. An
OptimizationJob creates TrainJobs as trials and reads their final metric from
that status.

What makes it hard: the controllers read caches that lag and write objects one
request at a time; a request may fail and the manager may restart between any two;
status is written by merge patches without a resource version; names are used
again while the objects of their earlier owner are still being collected; timers
live in memory only; errors are dropped in some places; sizes and ranks are
computed by several plugins from each other's results. `PROJECT.json` lists these
hazards at the line where each bites.

## 2. The modules

| module | models | abstracts from |
|---|---|---|
| `TrainJob` | `Reconcile` (`GetTrainJob`, `NewObjects`, `ApplyObject`, `DeleteObjects`, `SetStatus`, `PatchStatus`), the informers (`Sync...`), the delayed requeue, `Crash`, the webhook-guarded user, the runtime's admin, and as environment the JobSet controller, the garbage collector and the clock | Pod templates: a runtime and a set of patches are version numbers; the TrainJob is one this controller manages and its runtime is registered; `status.jobsStatus` |
| `TrainJobLifecycle` | what the controller promises: a TrainJob exists, is held, its JobSet reaches outcomes, and it gets a verdict, which has a cause and stays. `TrainJob` instantiates it `WITH` the stored TrainJob and JobSet | controllers, caches and requests |
| `BuildPhase` | one run of the build: the checks of the runtime's and the TrainJob's webhook, `newRuntimeInfo`, the MLPolicy plugins, `PreBuildSync`, `Build`, then dependsOn and the gang scheduler | everything of a template but names, counts, GPUs and dependencies |
| `OptimizationJob` | the controller's whole `Reconcile`, its caches, restarts, and the trials as environment | parameters; a metric is a small number, missing, or not a number |
| `PartitionRange` | `get_partition_range`, the arithmetic of the clients' ranges | |
| `DataCache` | head, workers, probes and clients over one epoch, on top of `PartitionRange` | a row is its file and its position; a worker's batches come in any order that keeps those of one file |
| `StatusServer` | the handler on any number of replicas, the reporter, the controller's condition patch, deletion and re-creation of the TrainJob | a report is the position of its `lastUpdatedTime` |
| `CacheInitializer` | `download_dataset` call by call, restarts of its Pod, re-creation of the TrainJob | the contents of the objects: each is its owner's UID |
| `Initializer` | the process of the dataset or the model initializer: the provider and the URI it takes, the S3 download (`Stat`, `ListKeys`, `MakeDirectories`, `ReadKey`, `WriteFile`), the Hugging Face snapshot, and `CacheInitializer` as one of the providers; kills, failed calls and changes of the bucket | contents of a file: none, part or whole; a path is a sequence of names; what patterns match is a set |
| `ApiMeta`, `ApiCore`, `ApiWorkloads`, `ApiTrainer` | 265 generated Python classes, each as its fields and how `from_dict` reads them (`ApiField`) | names of enum values |
| `ApiObjects` | `from_dict` and `to_dict` for the fields of any class, given what is done with one field | |
| `ApiValues` | what they do with the value of one field, and what the schema says of it | a scalar is its kind; a document has one field that is out of the ordinary |
| `ApiModels` | reading, validated assignment and writing in a client that edits an object others write too | what is done with one field is a parameter, given by `ApiValues` |

`Lists` has three operators of `SequencesExt` in a form that proofs can carry cheaply;
`BuildPhase`, `DataCache` and `OptimizationJob` use it. `MCTrainJob`, `MCBuildPhase`, `MCOptimizationJob`, `MCDataCache`, `MCInitializer`
and `MCApiModels` hold the instances for TLC; the others are instantiated by their `.cfg` alone. `...Proofs` modules hold theorems.
An operator directly above the one it resembles (such as `RequeueAtBeforeDeadline`
above `RequeueAt`) is a plausible mistake in that code; no specification uses it,
and it exists to show that the property in question notices it. Code
that is not in this repository (JobSet, LeaderWorkerSet and Deployment controllers,
garbage collector, schedulers, workqueue, API server) is modelled by what the
repository relies on and marked `external` in `PROJECT.json`.

Reading a cache is not a step of its own in `TrainJob`: the plugins read the cache
at the step that uses the answer, and `SyncX` may happen between any two steps.
`Reconcile` of one key never runs twice at once, which the workqueue guarantees.
`StaleReads` says whether a call may begin while the cache
still misses the controller's own last write. In `OptimizationJob` it always may, and three history
variables record what its promises depend on: a list missed a trial that had been created (`missed`), the
random name of a new trial was taken (`collided`), a metric was reported after the end of its trial (`revised`).

## 3. The runs

| run | module / cfg | question |
|---|---|---|
| `tj_suspend` | `MCTrainJob_suspend` | with stale reads, a failed request and a restart, do two edits of suspend and runtimePatches of a Volcano TrainJob converge (`SuspendConverges`, `PodGroupConverges`); is every step one of the life cycle or none (`FollowsLifecycle`)? |
| `tj_deadline` | `MCTrainJob_deadline` | is the deadline armed whenever the controller rests (`DeadlineArmed`), never early (`DeadlineNotEarly`); does the controller implement the life cycle, the verdict it owes once the JobSet has ended included (`ImplementsLifecycle`), and come to rest (`Converges`)? |
| `tj_recreate` | `MCTrainJob_recreate` | does a TrainJob created again under its name converge while the old objects are collected, JobSets expire and the runtime changes? |
| `bp_shapes` | `MCBuildPhase` | for templates of one to three jobs, seven policies and the sizes around their limits: does what the webhooks admit build (`AdmittedBuilds`), and do PodGroup, hostfile, node count, ranks, address and start order agree with the Pods created; are all Pods scheduled, unless a gang is over jobs that wait for each other or a patch added a job (`PodsScheduled`)? |
| `opt_job` | `MCOptimizationJob` | on caches that lag: are `numTrials` and `parallelTrials` kept whatever fails (`TrialBudget`); is the terminal condition right (`CompleteMeansFinished`) and final (`TerminalSticky`); does the job end (`Ends`), clean up (`CleanedUp`) and report the best trial (`ResultIsBest`), with ties and late metrics? |
| `dc_cache` | `MCDataCache_cache` | whatever the order in which files are planned and batches read: does every row reach exactly one client (`EpochExact`), are files balanced (`GroupsBalanced`), does ready mean loaded (`AvailableMeansLoaded`), and does the cluster become ready (`BecomesAvailable`)? |
| `ss_reports` | `StatusServer` | is a report answered with 200 stored, or a later one (`AckedIsStored`), and does the progress shown never step back (`ProgressAdvances`), when replicas stop between the apply and the 200, calls fail, the controller patches the same status and the TrainJob is created again? |
| `init_pods` | `MCInitializer` | for every provider and role: does exit 0 mean that what the URI names is in the volume, whole and alone (`CompletedMeansDownloaded`), or that the cluster serves (`CompletedMeansServed`); is nothing else ever downloaded (`NothingElse`); does no file or directory that a killed process or a failed write left behind keep the next from completing (`Completes`); does the initializer of a cluster exit, or wait only for one that has all its objects and is not available (`CacheEnds`)? |
| `api_models` | `MCApiModels` | for each of the 265 classes: is what a client holds an instance of its class (`TypeOK`), does `from_dict` read whatever the schema allows (`ReadsValid`) and what `to_dict` wrote (`Rereads`), and does a read, edit, write cycle leave what it did not set as others wrote it (`WriteKeepsRest`)? |

Three runs show where the code does not do what a comment or a test of the
repository says:

| run | says | does |
|---|---|---|
| `tj_deadline_leak` | `trainjob_types.go:134` "Once reached, all running Pods are terminated" | a failed JobSet delete is logged and never retried (`trainjob_controller.go:192-200`) |
| `dc_put_lost` | `writer.rs:296` "Automatic retry on transient failures" | a failed connection ends the stream of its worker (`writer.rs:258`), the errors are dropped (`head.rs:168`, `head_service.rs:354`), and the worker never gets a table |
| `ci_idempotent` | `cache_test.py:275` an existing Service must not trigger "ServiceAccount cleanup" | the start that finds it finds the LeaderWorkerSet first, whose create has no 409 case (`cache.py:271`) |

**Bounds.** One TrainJob name, two TrainJobs under it at most: objects are looked
up by name and owner, so a third owner behaves as the second. One failed request
and one restart fall between any two steps of any call, two edits are a suspend
and a resume. The one fault of `MCOptimizationJob` may be a reconcile on a lagging cache. Three seconds with a deadline of one reach the moments before, at
and after it. A budget of two trials, one or two at a time, in a model that has room for a
third, has a full, a partial and an empty round and lets an overrun show; the three specs of
`MCOptimizationJob` cover both directions, both degrees of parallelism and an
unsupported algorithm. Three workers with no file, one, or four and batches of two rows have empty, even and uneven
groups, and ranges that cut batches; one plan and one call to a worker may fail, and the Pods restart once. Three reports with one recreation let an
old request meet a new TrainJob. The bucket has keys that lie in one another, that
begin alike and that are ignored; one change of it, one kill and two failed calls during a download meet each of
its calls. Three versions of an object let another writer come between the
client's read and its write, the least number that shows a lost update; a class's
documents differ from its least one in one field, since the code of each field is
independent of the others. Every class is read, written and written by others; the
client sets fields of eight Trainer classes, which have between them a field of
every form (with and without a default, required, optional, of one value, a list or
a time), since assignment is the same code for all. Each bound is a constant named
`Max...`.

**Fairness.** `TrainJob`: the workqueue hands a queued key to a worker, watches
deliver, timers fire, time passes, the garbage collector works; the user, the
JobSet controller, failures and restarts owe nothing. `OptimizationJob`: the same,
and trials end and the Deployment becomes available. `DataCache`: the processes
of the cluster run. `Initializer`: the process runs and is started again after an
exception, as its Job does; `MaxFaults` bounds the calls that fail, and nothing promises that a cache
cluster comes up. `BuildPhase` is a terminating pipeline. No property
assumes strong fairness.

**Guards.** A property that is known to fail in a corner is checked outside that
corner and its comment says so: `AckedIsStored` and `ProgressAdvances` without
timeouts, `CompletedMeansServed` and `CacheEnds` for the first TrainJob of its
name, the second half of `CompletedMeansDownloaded` and `Completes` for a bucket nobody changes,
`ImplementsLifecycle` gives a verdict unless the TrainJob is suspended, `EpochExact` without a restart in the epoch, `NumNodesHonoured` for
`numNodes >= 2`, `BecomesAvailable` without a failed plan or put, `PodsScheduled` but for the two cases in
which it says that no Pod ever is, `TrialBudget` and `CompleteMeansFinished` while no list missed a trial,
`TerminalSticky` while besides no metric came late, `Ends` unless a random name was taken. The corners are section 5.

The runs switch off TLC's deadlock check: each system comes to rest once the
budgets of its environment are spent, and the liveness properties (`Converges`,
`PodsScheduled`, `Ends`, `Completes`, `CacheEnds`, `BecomesAvailable`) say that it rests where it should.

## 4. The proofs

All proofs are checked by `tlapm` with Z3, Zenon and LS4 only; they assume the
named assumptions on the constants (naturals, the known gang policies, paths that are
sequences of names; for `ApiModels` what each field promises) and what a theorem's own
`ASSUME` says. Every safety invariant and action property of the passing runs but `ReadsValid` is proved,
some under a hypothesis on the constants that is given with the theorem.

`InductionLemmas`
: What the other proofs need of data. The library's induction theorems take an
  operator, which no backend instantiates, so induction is derived here over sets:
  a nonempty set of naturals has a least element (`LeastNatural`), hence
  `NaturalInduction` and `IntervalInduction`. From these: a loop has a value
  (`LoopExists`), so has a fold over a finite set (`FoldExists`), the fold behind
  `MapThenSumSet` does not depend on the order in which it takes the elements
  (`AnyOrder`, `TotalIsSum`), `FlattenSeq` joins its sequences one after another
  (`FlattenLoop`), and sums grow, split and add up (`TotalStep`, `TotalGrows`,
  `TotalAdded`, `TotalOfDistinct`).

`TrainJobProofs`
: `TrainJobTypeOK`: `Spec => []TypeOK`. `TypeOK` is inductive once
  `budget.uids <= MaxUID` is added (`TypeInv`), which keeps UIDs positive.
  `TrainJobFollowsLifecycle`: `Spec => FollowsLifecycle`, the refinement of
  `TrainJobLifecycle!Safe`, for one TrainJob per name (`MaxUID = 1`) and in the two
  cases in which it holds: reads are fresh, or they are stale and neither a
  deadline nor a time to live ever deletes the JobSet. Each case has its
  invariant. With fresh reads (`FreshInv`) the call in flight holds the stored
  verdicts, since only its own patch changes them. With stale reads (`StaleInv`)
  a verdict in any copy, however old, is the outcome the cached JobSet shows, and
  a JobSet that ended stays as it is; two patches computed from different copies
  therefore bring the same verdict. `Grows` says what one patch may add.
  The cause of a verdict is supplied by `OwnInv`: the outcome travels from the JobSet
  through the cache, the status the call in flight computes, the patch, and back through
  the TrainJob's copy in the cache, and each of these copies is backed by a JobSet that
  did end so, whose owner is the one TrainJob.
  `SuspendAlwaysConverges`, `PodGroupAlwaysConverges` and `DeadlineAlwaysArmed`
  (`SuspendConverges`, `PodGroupConverges`, `DeadlineArmed`), for all constants: any
  number of TrainJobs of the name, stale reads or fresh, any failures and restarts.
  They speak of the controller at rest; the inductive form (`ConvergenceInv`) says
  at every step what is still to come: while the key is not queued, each thing the
  call has seen to is either as the spec wants it or differs from the cache
  (`JobSetBuilt`, `PodGroupBuilt`, `PodGroupGone`, `Armed`, `Overtaken`), and a cache
  that differs brings an event. `PassInv` follows the call through its steps,
  `AtRestInv` is what it leaves. `UidInv` (UIDs are not used again) keeps
  a cache that holds an earlier TrainJob from being mistaken for a current one.
  `DeadlineIsNotEarly`: `Spec => DeadlineNotEarly` for fresh reads and `MaxUID = 1`.
  TLC refutes it without either: with stale reads a patch computed from an old copy is written over a newer
  suspension, and with two TrainJobs of the name over a younger TrainJob. `LateInv`
  says that a DeadlineExceeded about to be written was computed past the deadline
  of the status it replaces.

`BuildPhaseProofs`
: All six invariants of `BuildPhase`, for templates with any number of jobs and any
  counts: `DependenciesAreFirst`, `AdmittedAlwaysBuilds`, `GangAlwaysMatches`,
  `RanksAlwaysMatch`, `HostfileIsExact`, `NumNodesAlwaysHonoured`. `BuildInv` gives what
  each phase has established: the webhooks' conditions (`Replicated`, `Admissible`),
  jobs and PodSets that correspond to the template one for one (`Described`), the
  counts after newRuntimeInfo (`Templated`) and after the ML plugin (`Sized`), the nodes
  it announced (`WorldOK`), `count = replicas * parallelism` (`Synced`), and hostfile and
  PodGroup as functions of these. On top of it, the Pods of a JobSet are counted
  (`PodsCounted`, `SumIsTotal`) and the endpoints of a job are shown to be its Pods, each once
  (`PlaceOfHost`, `HostOfPlace`, `FlattenInjective`). `OrderRestored` says that a stable
  sort by the template's position undoes every reordering, `Rearranged` and `Extended` what
  a patch that reorders the jobs or adds one leaves of the template.
  All six assume well-formed templates (`WellFormed`), conventions that no webhook of the
  Trainer enforces: `DistinctNames` (the name is the key of the list), `DependsOnPreceding`
  (the JobSet's own rule), `NoEmptyJob` (a job with parallelism 0 counts as one Pod),
  `OneTrainer`, `MeetsInDefault` (the address ignores `network.subdomain`) and
  `OneLauncherPod` (the runtime's numNodes sizes the launcher). TLC evaluates `ShapesAreWellFormed`: the templates of
  the run meet them all.

`OptimizationJobProofs`
: `TrialsKeepToBudget`, `CompleteIsTrue` and `VerdictSticks` (`TrialBudget`,
  `CompleteMeansFinished`, `TerminalSticky`), for any spec, number of faults and age of
  the caches. `TrialBudget` is not inductive: `BudgetInv` adds the trials the reconcile
  under way may still create (`Spawns`), which trials that end, repeated reports and
  failures can only make more room for; a cache that has every trial but not yet its end
  (`OlderInv`) only counts too many active ones. `VerdictInv` says that no copy of the
  status holds a Complete that is not true. Both hold while no list missed a trial.
  While besides no metric came late, `ShownInv` says that a verdict is one that both the
  trials and the cache still bear out, and `StickyInv` that a reconcile that has not seen
  the stored verdict is about to give one too, which by `ShownInv` is the same.
  `ResultIsTheBest` and `ServiceIsCleanedUp` (`ResultIsBest`, `CleanedUp`), without any such
  proviso, speak of the controller at rest. `BestInv` says that the result stored, or about
  to be, is the best of the trials in the cache unless the key is queued; the
  loop of `ExtractBestResult` finds one in whatever order the list has. `CleanInv`
  names, for every step, who will still remove an ended job's service: a call under way,
  a key in the queue, or an event to come.

`StatusServerProofs`
: `StatusTypeOK`, `NoReportLost`: `Spec => []AckedIsStored`, and
  `ProgressNeverStepsBack`: `Spec => ProgressAdvances`. The invariant adds `InOrder`:
  while no request was given up on, of the stored TrainJob's requests only the one the
  reporter waits for is in a handler, the stored report lies between `acked` and
  `sent`, and once that request is applied it is the stored one, so that its 200
  finds it there.

`InitializerProofs`
: Of `CacheInitializer` alone: `InitializerTypeOK`, and `InitializerCompleted`:
  `Spec => []CompletedMeansServed`. The invariant adds `CreatedSoFar`: at each step of
  the process, the objects the earlier steps created, or skipped, exist.
  Of the whole Pod (`PodSpec`): `PodCompletedMeansDownloaded`, `PodNothingElse`,
  `PodIsTyped` and `PodCompletedMeansServed`, for any set of keys, URI and patterns.
  `PodInv` says that what is listed and no longer to do is whole in the volume, but for the
  file being written (`ListedInv`); that while nobody changes the bucket the listing is
  what the URI names, and the directories are those its files need (`UnchangedInv`). Two keys may have the same file, so `ListedInv`
  speaks of the file, not of the key, being written.

`DataCacheProofs`
: `NoOverlap` and `NoGap` of `PartitionRange`: for every number of rows and clients the
  ranges are disjoint and cover every row. They rest on lemmas on division and on
  `RangeOfPartition`: client `p` gets the rows `i < total` with `p*c <= i < p*c + c`, where
  `c` is the rounded-up number of rows per client.
  `GroupsAlwaysBalanced` (`GroupsBalanced`): the greedy assignment of `partition_tasks`
  keeps two groups within the rows of the largest file; induction over the files in
  their sorted order (`GroupInv`).
  `AvailableIsLoaded` (`AvailableMeansLoaded`): `LoadInv` says that a table that is
  loaded is that of its worker's files, in whichever order its
  batches came, and also when the call that loaded it is taken for lost or no connection was made.
  `EpochIsExact` (`EpochExact`): `ReadInv` says what each client has got from each
  worker; the groups number the rows consecutively, so a row lies in one table at one index, and in one client's
  range. The last two assume `MaxReadFaults = 0`: the code skips a file it cannot
  read, and its rows are then missing (section 5).

`ApiModelsProofs`
: `HoldsInstances`, `WritesWhatItReads` and `NoLostUpdate` (`TypeOK`,
  `Rereads`, `WriteKeepsRest`), for any classes, documents with any
  combination of values in their fields, and any number of writes and assignments.
  They rest on what each field promises of one value (`FieldsAssumption`), on documents being made of such
  values (`DocumentsAssumption`) and on the metadata keeping its version through a read and a
  write (`MetadataAssumption`). TLC evaluates the three for every field of the 265
  classes as `ApiValues` converts it; that part is recursive over the class
  tables, which the prover cannot unfold. `ClientInv` says that every field of a
  document or an instance is a value others wrote or was made of one by reading and
  writing, that the client's metadata is that of some version `v` up to the stored one,
  and that, `v` being the stored version, each field it has not set is what reading the
  stored object gives. The server accepts a write only with the version
  it has (`AcceptedWrite`), so the last clause applies to every accepted write.

Only model-checked: all liveness (`Converges`, `ImplementsLifecycle` beyond its safety
part, `PodsScheduled`, `Ends`, `Completes`, `CacheEnds`, `BecomesAvailable`), which is outside the
prover's reach; and that the fields of the 265 classes keep their promise, as just said, with it
`ReadsValid`, which says of the stored object what the promise says of its fields.

## 5. Behaviours met while modelling

These follow from the code and are reachable in the models if the guard or bound
named is lifted. No run keeps them, since no statement in the repository contradicts them
or the corner is one the authors mark.

* TrainJob: a suspend that races the deadline's status patch removes the Failed
  condition, since the merge patch replaces the list (`trainjob_controller.go:133`;
  `StaleReads` with a deadline).
* TrainJob: the JobSet ends, a reconcile that still has the running JobSet in its cache
  finds the deadline exceeded and deletes it, its status patch fails, and the user
  suspends: the outcome is lost and a suspended JobSet is created anew. This is why
  `TrainJobLifecycle!Spec` owes a suspended TrainJob no verdict.
* TrainJob: a suspension whose status patch failed, or that no reconcile saw, leaves no condition, and the
  deadline then counts from the creation (`trainjob_controller.go:176`).
* TrainJob: runtimePatches admitted during a suspension that no reconcile saw are
  never applied to the running JobSet (`jobset.go:412`).
* TrainJob: a reconcile that misses the snapshot in its cache overwrites it
  (`snapshot.go:131`; line 99 leaves it to the callers: "Callers must only invoke this when
  no snapshot exists."); a JobSet that expired by TTL before its outcome was read is
  created again; a TrainJob created again may copy the outcome of the JobSet of its predecessor
  (`jobset.go:519`).
* Build: with MPI the numNodes of the runtime sizes the launcher, not the
  nodes; the address of the first node ignores `network.subdomain`; a job with parallelism 0
  counts as one Pod (`runtime.go:150`); a PodGroup over jobs that wait for
  each other never reaches its minMember, and `PodsScheduled` says so; the webhook means to refuse a patch of a job
  "that doesn't exist in the runtime job template" (`jobset.go:190`) but looks the job up in the template
  the patch is already merged into, so that it is admitted and the added job, which has no
  image, keeps the JobSet from being created; XGBoost is told of a worker per GPU while each Pod
  takes one rank (`xgboost.go:112`).
* OptimizationJob: a list that misses a trial just created leads to more trials than allowed
  (the TODO at `optimizationjob_controller.go:277`), and it or a late metric to a verdict that a
  reconcile which has not seen it replaces (line 129); when the random name of a new trial is taken,
  the trial is skipped without an error (line 387) and nothing may call the reconcile again.
* Data cache: a table whose load failed in the middle is reported ready
  (`indexable_mem_table.rs:79`); a client whose range is empty is refused; a restart
  renumbers the rows.
* Status server: a report that was given up on may be applied after a later one; a late request of
  a deleted TrainJob's Pod is written to the new TrainJob of that name.
* Initializers: the default `ignore_patterns` of the model initializers
  (`types/types.py:44`) never apply, since `get_config_from_env` passes an explicit
  `None` for what is not set, which only `cache.py:67` filters; a file of an object
  that was deleted between two starts stays in the volume; keys that differ in
  repeated slashes are written to the same file (`opendal.py:101`).
* Python API models: `to_json` raises `TypeError` on an instance that holds a
  `datetime`, since `to_dict` leaves it one; `None` assigned to a field with a
  default comes back as the default.
* Cache initializer: an object of a deleted TrainJob is skipped as existing and
  collected afterwards; the wait loop may then never end. Nor does it for a cluster that does not come
  up, as it has no deadline (`cache.py:311`).

## 6. Not modelled

* TorchTune's command line; SSH keys, Flux curve certificates, mounts and commands;
  webhook defaulting and the DRA feature gate; container, claim and volume name checks: text
  and checks of one object, without state.
* The finalizer controllers of the runtimes: one read and one patch, which share no
  state with another part. The watches that map runtimes, RuntimeClasses and
  LimitRanges to TrainJobs.
* OIDC verification and TLS; the start of the manager, configuration and
  certificates; Iceberg manifests and Arrow schemas: I/O and libraries.
* The Go clients, and the 194 Python classes of Kubernetes kinds no Trainer object
  contains: generated code that nothing here uses.

A remark on extent: `PROJECT.json` maps each Python class to its row in one of the
`Api...` tables. The classes are generated, and their methods are the same code up
to the fields, so many of the mapped lines stand behind few operators (`FromDict`,
`ToDict`); the tables were extracted from the classes' annotations, `from_dict` and
`to_dict`. The control logic of the system is in the Go, Rust and Python code of
the other modules.

## 7. What would come next

1. "Each row once" as an abstract specification that `DataCache` implements, and the
   composition of the cache initializer with the cache's readiness.
2. `OptimizationJob` composed with the status server's late and repeated reports,
   which it now has as one action.
3. The MPI Secret and ConfigMap life cycle, and the runtime finalizers together with
   the TrainJob's use of a runtime.
