----------------------------- MODULE BuildPhase -----------------------------
(***************************************************************************)
(* The build phase of the runtime framework: how a runtime template, an    *)
(* MLPolicy and a TrainJob become a JobSet, a PodGroup, an MPI hostfile and *)
(* the world description the ML framework reads (pkg/runtime/core,         *)
(* pkg/runtime/framework and its plugins), and what the cluster then does  *)
(* with them.                                                              *)
(*                                                                         *)
(* Of a Pod template only the GPUs of its node container are kept.  A      *)
(* number that may be left out of a spec is Unset when it is.              *)
(***************************************************************************)
EXTENDS Integers, Sequences, FiniteSets, FiniteSetsExt, Lists

CONSTANTS
  Runtimes,    \* the (Cluster)TrainingRuntimes considered
  Trainers     \* the values of spec.trainer considered

Unset == -1
Deref(n, default) == IF n = Unset THEN default ELSE n

MLPolicies == {"None", "PlainML", "Torch", "JAX", "XGBoost", "MPI", "Flux"}
JobNames ==
  {"dataset-initializer", "model-initializer", "node", "launcher", "trainer", "other"}
Ancestors == {"None", "dataset-initializer", "model-initializer", "trainer"}

\* A replicatedJob of the template, and the jobs it starts after.
ReplicatedJobs ==
  [name: JobNames, ancestor: Ancestors, replicas: Nat,
   parallelism: Nat \union {Unset}, gpus: Nat,
   dependsOn: SUBSET (JobNames \X {"Ready", "Complete"})]
RuntimeSpecs ==
  [jobs: Seq(ReplicatedJobs), policy: MLPolicies, numNodes: Nat \union {Unset},
   procs: Nat \ {0}, launcherAsNode: BOOLEAN, subdomain: {"default", "custom"},
   gang: BOOLEAN]   \* gang: the runtime has a PodGroupPolicy
TrainerSpecs ==
  [numNodes: Nat \union {Unset}, procs: Nat \union {Unset},
   gpus: Nat \union {Unset}]   \* Unset: no resourcesPerNode; 0: one without GPUs

\* What a runtime patch that names no job of the template adds: it may give a name,
\* labels and parts of a Pod, but neither a number of Pods nor an image.
AddedJob ==
  [name |-> "other", ancestor |-> "None", replicas |-> 1, parallelism |-> Unset,
   gpus |-> 0, dependsOn |-> {}]

ASSUME InputsAssumption ==
  /\ Runtimes \subseteq RuntimeSpecs
  /\ Trainers \subseteq TrainerSpecs
  /\ \A rt \in Runtimes : \A i \in DOMAIN rt.jobs : rt.jobs[i].name # AddedJob.name

(***************************************************************************)
(* What a template has to observe, and no webhook of the Trainer checks.   *)
(***************************************************************************)
\* The name is the key of the list replicatedJobs, and dependsOn names jobs before.
DistinctNames(rt) ==
  \A i, k \in DOMAIN rt.jobs : rt.jobs[i].name = rt.jobs[k].name => i = k
DependsOnPreceding(rt) ==
  \A i \in DOMAIN rt.jobs : \A dep \in rt.jobs[i].dependsOn :
    \E k \in 1 .. i - 1 : rt.jobs[k].name = dep[1]

\* No job says parallelism 0.
NoEmptyJob(rt) == \A i \in DOMAIN rt.jobs : rt.jobs[i].parallelism # 0

\* One job is labelled as the trainer: the nodes, or the launcher of MPI.
OneTrainer(rt) ==
  \E i \in DOMAIN rt.jobs :
    /\ {k \in DOMAIN rt.jobs : rt.jobs[k].ancestor = "trainer"} = {i}
    /\ rt.jobs[i].name = "node" \/ (rt.policy = "MPI" /\ rt.jobs[i].name = "launcher")

\* The nodes that meet at an address are in the default subdomain.
MeetsInDefault(rt) ==
  rt.policy \in {"Torch", "JAX", "XGBoost", "Flux"} => rt.subdomain = "default"

\* MPI has nodes, and a launcher of one Pod, which the numNodes of the runtime counts.
OneLauncherPod(rt) ==
  rt.policy = "MPI" =>
    /\ \E i \in DOMAIN rt.jobs : rt.jobs[i].name = "node"
    /\ rt.numNodes \in {Unset, 1}
    /\ \A i \in DOMAIN rt.jobs :
         rt.jobs[i].name = "launcher" => rt.jobs[i].parallelism \in {Unset, 1}

WellFormed(rt) ==
  /\ DistinctNames(rt) /\ DependsOnPreceding(rt) /\ NoEmptyJob(rt)
  /\ OneTrainer(rt) /\ MeetsInDefault(rt) /\ OneLauncherPod(rt)

VARIABLES
  runtime, trainer,   \* the inputs; the runtime's jobs are patched in place
  pc,         \* the phase the TrainJob is in
  jobs,       \* the replicatedJobs of the JobSet being built
  podSets,    \* Info.TemplateSpec.PodSets
  world,      \* what the ML plugin told the framework
  hostfile,   \* the hosts of an MPI hostfile or a Flux broker, in order
  podGroup,   \* minMember and the GPUs of minResources
  started, done   \* the jobs created, and the Pods scheduled

built == <<jobs, podSets, world, hostfile, podGroup>>
vars == <<runtime, trainer, pc, built, started, done>>

-----------------------------------------------------------------------------
(***************************************************************************)
(* newRuntimeInfo.                                                         *)
(***************************************************************************)
IsTrainer(job) == job.ancestor = "trainer"

\* mergeTrainerNodeResources: requests and limits merge per resource name.
MergeGPUs(gpus, override) == IF override \in {Unset, 0} THEN gpus ELSE override

GetsTrainerResources(job) ==
  \/ IsTrainer(job) /\ runtime.policy # "None"
  \/ runtime.policy = "MPI" /\ runtime.launcherAsNode /\ job.name = "node"

NewJob(job) ==
  IF GetsTrainerResources(job)
  THEN [job EXCEPT !.gpus = MergeGPUs(@, trainer.gpus)] ELSE job

PodCount(job) ==
  IF IsTrainer(job) /\ runtime.policy # "None"
  THEN Deref(runtime.numNodes, 1)
  ELSE Deref(job.parallelism, 1) * job.replicas

\* Mutant: the requests are those of the template, without the TrainJob's.
NewPodSetOfTemplate(job) ==
  [name |-> job.name, ancestor |-> job.ancestor,
   count |-> Max({PodCount(job), 1}), gpus |-> job.gpus]

NewPodSet(job) ==
  [name |-> job.name, ancestor |-> job.ancestor,
   count |-> Max({PodCount(job), 1}), gpus |-> NewJob(job).gpus]

InfoJobs(js) == [i \in DOMAIN js |-> NewJob(js[i])]
InfoPodSets(js) == [i \in DOMAIN js |-> NewPodSet(js[i])]

\* FindPodSetByAncestor and FindPodSetByName return the first match.
First(ps, matches) == Min(matches \union {Len(ps) + 1})
TrainerIdx(ps) == First(ps, {i \in DOMAIN ps : ps[i].ancestor = "trainer"})
NodeIdx(ps) == First(ps, {i \in DOMAIN ps : ps[i].name = "node"})
TrainerCount(ps) == IF TrainerIdx(ps) > Len(ps) THEN 1 ELSE ps[TrainerIdx(ps)].count

TrainerReplicas ==
  LET i == First(runtime.jobs, {k \in DOMAIN runtime.jobs : IsTrainer(runtime.jobs[k])})
  IN IF i > Len(runtime.jobs) THEN 1 ELSE runtime.jobs[i].replicas

JobReplicas(name) ==
  LET i == First(runtime.jobs, {k \in DOMAIN runtime.jobs : runtime.jobs[k].name = name})
  IN IF i > Len(runtime.jobs) THEN 1 ELSE runtime.jobs[i].replicas

-----------------------------------------------------------------------------
(***************************************************************************)
(* The validating webhook of the runtime.                                  *)
(***************************************************************************)
\* The CRD schema allows 0 replicas, a JobSet without any Pods.
ValidateReplicatedJobs == \A job \in Range(runtime.jobs) : job.replicas >= 1

ValidateRuntime ==
  /\ pc = "ValidateRuntime"
  /\ pc' = IF ValidateReplicatedJobs THEN "MergeRuntimePatches" ELSE "Rejected"
  /\ UNCHANGED <<runtime, trainer, built, started, done>>

-----------------------------------------------------------------------------
(***************************************************************************)
(* mergeRuntimePatches, which the webhook and every reconcile run first: a *)
(* strategic merge patch adds the jobs it does not find and may return the *)
(* list in any order; a stable sort puts it back into that of the template. *)
(***************************************************************************)
Reorderings(js) ==
  {[i \in DOMAIN js |-> js[p[i]]] : p \in Bijection(DOMAIN js, DOMAIN js)}
Merges(js) == Reorderings(js) \union Reorderings(Append(js, AddedJob))

\* A job the template does not have sorts with its first.
Order(name) ==
  Max({i \in DOMAIN runtime.jobs : runtime.jobs[i].name = name} \union {1})

\* Mutant: the order of the patched list is kept.
RestoreOrderNever(merged) == merged

RestoreOrder(merged) ==
  LET Before(i, k) ==
        \/ Order(merged[i].name) < Order(merged[k].name)
        \/ Order(merged[i].name) = Order(merged[k].name) /\ i <= k
      Position(k) == Cardinality({i \in DOMAIN merged : Before(i, k)})
  IN [n \in DOMAIN merged |-> merged[CHOOSE k \in DOMAIN merged : Position(k) = n]]

MergeRuntimePatches ==
  /\ pc = "MergeRuntimePatches"
  /\ pc' = "Validate"
  /\ \E merged \in Merges(runtime.jobs) :
       runtime' = [runtime EXCEPT !.jobs = RestoreOrder(merged)]
  /\ UNCHANGED <<trainer, built, started, done>>

-----------------------------------------------------------------------------
(***************************************************************************)
(* The validating webhook of the TrainJob.  It looks for the jobs a patch   *)
(* names in the merged template, and so finds the added one.               *)
(***************************************************************************)
\* Mutant: the number of nodes the TrainJob asks for is not looked at.
ValidateJobSetOfRuntime ==
  TrainerCount(InfoPodSets(runtime.jobs)) % TrainerReplicas = 0

ValidateJobSet ==
  TrainerReplicas > 1 =>
    Deref(trainer.numNodes, TrainerCount(InfoPodSets(runtime.jobs))) % TrainerReplicas = 0

ValidateMPI ==
  runtime.policy = "MPI" =>
    /\ JobReplicas("launcher") = 1 /\ JobReplicas("node") = 1
    /\ runtime.launcherAsNode /\ trainer.numNodes >= 2 =>
         {"launcher", "node"} \subseteq {j.name : j \in Range(runtime.jobs)}

ValidateTorch == runtime.policy = "Torch" => TrainerReplicas = 1
ValidateXGBoost == runtime.policy = "XGBoost" => TrainerReplicas = 1
ValidateFlux == runtime.policy = "Flux" => TrainerReplicas = 1

Validate ==
  /\ pc = "Validate"
  /\ pc' = IF /\ ValidateJobSet /\ ValidateMPI
              /\ ValidateTorch /\ ValidateXGBoost /\ ValidateFlux
           THEN "NewRuntimeInfo" ELSE "Rejected"
  /\ UNCHANGED <<runtime, trainer, built, started, done>>

NewRuntimeInfo ==
  /\ pc = "NewRuntimeInfo"
  /\ pc' = "EnforceMLPolicy"
  /\ jobs' = InfoJobs(runtime.jobs)
  /\ podSets' = InfoPodSets(runtime.jobs)
  /\ UNCHANGED <<runtime, trainer, world, hostfile, podGroup, started, done>>

-----------------------------------------------------------------------------
(***************************************************************************)
(* The EnforceMLPolicy plugins.                                            *)
(***************************************************************************)
SetCount(ps, i, n) ==
  IF n = Unset \/ i > Len(ps) THEN ps ELSE [ps EXCEPT ![i].count = n]

\* Mutant: the launcher is not one of the nodes.
MPINodesBesidesLauncher == trainer.numNodes

\* With runLauncherAsNode one of the nodes is the launcher.
MPINodes == IF runtime.launcherAsNode /\ trainer.numNodes # Unset
            THEN Max({trainer.numNodes - 1, 1}) ELSE trainer.numNodes

\* The other plugins count the trainer PodSet, PlainML where no plugin of the
\* framework does (and also for XGBoost and Flux).
EnforcedPodSets ==
  IF runtime.policy = "MPI" THEN SetCount(podSets, NodeIdx(podSets), MPINodes)
  ELSE SetCount(podSets, TrainerIdx(podSets), trainer.numNodes)

\* GetNumGPUPerNode of the TrainJob's resourcesPerNode, which replace those of
\* the node container of the (merged) template.
ResourcesOfRuntime ==
  LET i == First(jobs, {k \in DOMAIN jobs : jobs[k].name = "node" \/ IsTrainer(jobs[k])})
  IN IF i > Len(jobs) THEN 0 ELSE jobs[i].gpus
NumGPUPerNode == Deref(trainer.gpus, ResourcesOfRuntime)

\* What each plugin tells the framework: how many members it has, and the processes
\* of each.  Torch tells torchrun to count them itself ("auto", here 0) when there
\* are GPUs, and else the CPUs (here one).
NoWorld == [size |-> Unset, procs |-> Unset]
TorchEnvs(ps) ==
  [size |-> TrainerCount(ps),
   procs |-> Deref(trainer.procs, IF NumGPUPerNode = 0 THEN 1 ELSE 0)]

\* Mutant: the envs are set for several replicas as well.
JAXEnvsAlways(ps) == [size |-> TrainerCount(ps), procs |-> 1]

\* The process id is the completion index, which several replicas share.
JAXEnvs(ps) ==
  IF TrainerReplicas = 1 THEN [size |-> TrainerCount(ps), procs |-> 1] ELSE NoWorld

\* DMLC_NUM_WORKER counts a worker per GPU, or one where there is none.
WorkersPerNode == Max({NumGPUPerNode, 1})
XGBoostEnvs(ps) == [size |-> TrainerCount(ps) * WorkersPerNode, procs |-> 1]

FluxFlags(ps) ==
  [size |-> TrainerCount(ps), procs |-> Deref(trainer.procs, runtime.procs)]

\* The slots of a host: as many as GPUs, when the runtime says 1.
MPISlots(ps) ==
  [size |-> Unset,
   procs |-> Deref(trainer.procs, IF runtime.procs = 1 /\ NumGPUPerNode > 1
                                  THEN NumGPUPerNode ELSE runtime.procs)]

NewWorld(ps) ==
  CASE runtime.policy = "Torch" -> TorchEnvs(ps)
    [] runtime.policy = "JAX" -> JAXEnvs(ps)
    [] runtime.policy = "XGBoost" -> XGBoostEnvs(ps)
    [] runtime.policy = "Flux" -> FluxFlags(ps)
    [] runtime.policy = "MPI" -> MPISlots(ps)
    [] OTHER -> NoWorld

Endpoint(job, replica, index, subdomain) ==
  [job |-> job, replica |-> replica, index |-> index, subdomain |-> subdomain]

\* Where Torch, JAX, XGBoost and Flux meet.
MasterAddr == Endpoint("node", 0, 0, "default")

EnforceMLPolicy ==
  /\ pc = "EnforceMLPolicy"
  /\ pc' = "PreBuildSync"
  /\ podSets' = EnforcedPodSets
  /\ world' = NewWorld(EnforcedPodSets)
  /\ UNCHANGED <<runtime, trainer, jobs, hostfile, podGroup, started, done>>

-----------------------------------------------------------------------------
(***************************************************************************)
(* PreBuildSync and Build.                                                 *)
(***************************************************************************)
Divisible(i) == jobs[i].replicas >= 1 /\ podSets[i].count % jobs[i].replicas = 0
PodsPerReplica(i) == podSets[i].count \div jobs[i].replicas

SyncParallelCount ==
  [i \in DOMAIN jobs |-> [jobs[i] EXCEPT !.parallelism = PodsPerReplica(i)]]

PreBuildSync ==
  /\ pc = "PreBuildSync"
  /\ IF \A i \in DOMAIN jobs : Divisible(i)
     THEN pc' = "Build" /\ jobs' = SyncParallelCount
     ELSE pc' = "Error" /\ UNCHANGED jobs
  /\ UNCHANGED <<runtime, trainer, podSets, world, hostfile, podGroup, started, done>>

\* Mutant: the Pods are numbered from 1.
EndpointsFromOne(i) ==
  [k \in 1 .. podSets[i].count |-> Endpoint(jobs[i].name, 0, k, runtime.subdomain)]

\* syncPodNetwork: replica by replica, Pod by Pod.
Endpoints(i) ==
  [k \in 1 .. jobs[i].replicas * PodsPerReplica(i) |->
     Endpoint(jobs[i].name, (k - 1) \div PodsPerReplica(i),
              (k - 1) % PodsPerReplica(i), runtime.subdomain)]

IsNode(i) == \/ jobs[i].name = "node"
             \/ runtime.launcherAsNode /\ jobs[i].name = "launcher"

BuildHostFile ==
  FlattenSeq([i \in DOMAIN jobs |-> IF IsNode(i) THEN Endpoints(i) ELSE <<>>])

\* generateHostlist: node-0-[0-last], resolved in the default subdomain.  For 0
\* nodes it is node-0-[0--1], an entry that is no Pod.
GenerateHostlist ==
  IF world.size = 0 THEN <<Endpoint("node", 0, -1, "default")>>
  ELSE [k \in 1 .. world.size |-> Endpoint("node", 0, k - 1, "default")]

Hosts == CASE runtime.policy = "MPI" -> BuildHostFile
           [] runtime.policy = "Flux" -> GenerateHostlist
           [] OTHER -> <<>>

SumOver(f) == MapThenSumSet(LAMBDA i : f[i], DOMAIN f)

\* Mutant: the count is taken to be that of one replica.
BuildPodGroupPerReplica ==
  [minMember |-> SumOver([i \in DOMAIN podSets |-> podSets[i].count * jobs[i].replicas]),
   gpus |-> SumOver([i \in DOMAIN podSets |-> podSets[i].count * podSets[i].gpus])]

BuildPodGroup ==
  [minMember |-> SumOver([i \in DOMAIN podSets |-> podSets[i].count]),
   gpus |-> SumOver([i \in DOMAIN podSets |-> podSets[i].count * podSets[i].gpus])]

Build ==
  /\ pc = "Build"
  /\ pc' = "Created"
  /\ hostfile' = Hosts
  /\ podGroup' = BuildPodGroup
  /\ UNCHANGED <<runtime, trainer, jobs, podSets, world, started, done>>

-----------------------------------------------------------------------------
(***************************************************************************)
(* The JobSet controller and the gang scheduler.                           *)
(***************************************************************************)
PodsOf(job) ==
  {Endpoint(job.name, r, i, runtime.subdomain) :
     r \in 0 .. job.replicas - 1, i \in 0 .. job.parallelism - 1}

Pods(names) == UNION {PodsOf(j) : j \in {x \in Range(jobs) : x.name \in names}}

\* The API server takes no job without an image.
Acceptable == AddedJob.name \notin {job.name : job \in Range(jobs)}

\* Jobs are created once those they depend on are Ready or Complete; the Pods of
\* an initializer complete, those of a node stay.
StartJob(job) ==
  /\ pc = "Created" /\ Acceptable /\ job.name \notin started
  /\ \A dep \in job.dependsOn : Pods({dep[1]}) \subseteq done
  /\ started' = started \union {job.name}
  /\ UNCHANGED <<runtime, trainer, pc, built, done>>

\* A gang scheduler places a Pod when the group has minMember Pods.
Schedule ==
  /\ Pods(started) \ done # {}
  /\ runtime.gang => Cardinality(Pods(started)) >= podGroup.minMember
  /\ done' = Pods(started)
  /\ UNCHANGED <<runtime, trainer, pc, built, started>>

StartJobs == \E job \in Range(jobs) : StartJob(job)

-----------------------------------------------------------------------------
Init ==
  /\ runtime \in Runtimes /\ trainer \in Trainers
  /\ pc = "ValidateRuntime"
  /\ jobs = <<>> /\ podSets = <<>> /\ world = NoWorld /\ hostfile = <<>>
  /\ podGroup = [minMember |-> 0, gpus |-> 0]
  /\ started = {} /\ done = {}

Next == \/ ValidateRuntime \/ MergeRuntimePatches \/ Validate \/ NewRuntimeInfo \/ EnforceMLPolicy
        \/ PreBuildSync
        \/ Build \/ StartJobs \/ Schedule

Spec == Init /\ [][Next]_vars
\* The build runs to its end, the JobSet controller and the scheduler act.
FairSpec == Spec /\ WF_vars(Next)

-----------------------------------------------------------------------------
AllPods == Pods(JobNames)
TrainerPods == UNION {PodsOf(j) : j \in {x \in Range(jobs) : IsTrainer(x)}}

\* What the two webhooks admit can be built: the division of the Pods among the
\* replicas (podsPerReplica), which may be 0 in the CRD schema, never fails after
\* ValidateRuntime and Validate have passed.
AdmittedBuilds == pc # "Error"

\* The gang is the JobSet: minMember and minResources of the PodGroup, summed over
\* the PodSets, are the Pods and the GPUs the JobSet asks for (syncParallelCount,
\* Build of the gang plugins, "keep the typed template in sync").
GangMatchesJobSet ==
  pc = "Created" =>
    /\ podGroup.minMember = Cardinality(AllPods)
    /\ podGroup.gpus =
         SumOver([i \in DOMAIN jobs |-> jobs[i].gpus * Cardinality(PodsOf(jobs[i]))])

\* The hosts of an MPI or Flux job are the Pods that run its processes, each once
\* (syncPodNetwork, buildHostFileConfigMap, generateHostlist); of a Flux job of 0
\* nodes, whose list has an entry all the same, only that it is listed once.
MPIJobNames == {"node"} \union (IF runtime.launcherAsNode THEN {"launcher"} ELSE {})
HostfileExact ==
  pc = "Created" =>
    /\ runtime.policy = "MPI" => Range(hostfile) = Pods(MPIJobNames)
    /\ runtime.policy = "Flux" /\ TrainerPods # {} => Range(hostfile) = TrainerPods
    /\ IsInjective(hostfile)

\* Whatever order a runtime patch leaves the replicatedJobs in, the JobSet lists
\* every job after the "preceding ReplicatedJobs" its dependsOn names
\* (mergeRuntimePatches), or the JobSet is refused.
DependenciesFirst ==
  \A i \in DOMAIN jobs : \A dep \in jobs[i].dependsOn :
    \E k \in 1 .. i - 1 : jobs[k].name = dep[1]

\* Where a plugin tells the framework its size, the ranks are the completion
\* indexes of the trainer Pods, from 0 without a gap or a repetition, and the size
\* is their number, so that no member waits for one that does not come; the address
\* at which they meet is that of one of them (EnforceMLPolicy of Torch, JAX, XGBoost
\* and Flux).  XGBoost on nodes with several GPUs is the exception: it is told of as
\* many workers for each Pod, and so for each rank, as the Pod has GPUs.
WorkersPerRank == IF runtime.policy = "XGBoost" THEN WorkersPerNode ELSE 1
RanksMatchWorld ==
  pc = "Created" /\ world.size # Unset =>
    /\ {p.index : p \in TrainerPods} = 0 .. Cardinality(TrainerPods) - 1
    /\ world.size = Cardinality(TrainerPods) * WorkersPerRank
    /\ TrainerPods # {} => MasterAddr \in TrainerPods

\* "numNodes is the number of training nodes": a TrainJob that asks for several
\* nodes gets as many training Pods, of which the launcher is one where it is a
\* node (EnforceMLPolicy of every plugin, isNode, syncParallelCount).
TrainingPods == IF runtime.policy = "MPI" THEN Range(hostfile) ELSE TrainerPods
NumNodesHonoured ==
  pc = "Created" /\ runtime.policy # "None" /\ trainer.numNodes >= 2 =>
    Cardinality(TrainingPods) = trainer.numNodes

\* Every Pod of an admitted TrainJob is eventually scheduled, but for two cases in
\* which none ever is: a patch has added a job, which the webhook means to refuse,
\* or there is a gang and a job of it waits for another one (dependsOn).  The group
\* then waits for minMember Pods, of which the waiting job's are not created before
\* the other's have run (Build of the gang plugins, Build of the JobSet).
WaitsInGang ==
  /\ runtime.gang
  /\ \E job \in Range(jobs) : \E dep \in job.dependsOn :
       PodsOf(job) # {} /\ Pods({dep[1]}) # {}
PodsScheduled ==
  <>[](\/ pc = "Rejected"
       \/ /\ pc = "Created"
          /\ done = IF Acceptable /\ ~WaitsInGang THEN AllPods ELSE {})
=============================================================================
