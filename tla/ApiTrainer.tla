------------------------------ MODULE ApiTrainer ------------------------------
(***************************************************************************)
(* The classes of api/python_api/kubeflow_trainer_api/models for the types *)
(* of the Trainer API itself: each is its fields, under the names they     *)
(* have in a document, with how from_dict reads them (ApiField).           *)
(***************************************************************************)
EXTENDS ApiField

TrainerV1alpha1Algorithm ==
  [name |-> Blank, provider |-> Text, settings |-> Many("TrainerV1alpha1SettingKV")]

TrainerV1alpha1BayesianAlgorithm ==
  [acquisitionFunction |-> Text, initialTrials |-> Number]

TrainerV1alpha1BestTrial ==
  [parameters |-> Many("TrainerV1alpha1ParameterAssignment")]

TrainerV1alpha1CategoricalSpace ==
  [choices |-> Need(Many("str"))]

TrainerV1alpha1ClusterTrainingRuntime ==
  [apiVersion |-> Text, kind |-> Text, metadata |-> One("IoK8sApimachineryPkgApisMetaV1ObjectMeta"),
   spec |-> One("TrainerV1alpha1TrainingRuntimeSpec")]

TrainerV1alpha1ClusterTrainingRuntimeList ==
  [apiVersion |-> Text, items |-> Need(Many("TrainerV1alpha1ClusterTrainingRuntime")),
   kind |-> Text, metadata |-> One("IoK8sApimachineryPkgApisMetaV1ListMeta")]

TrainerV1alpha1ContainerPatch ==
  [env |-> Many("IoK8sApiCoreV1EnvVar"), name |-> Need(Text),
   resources |-> One("IoK8sApiCoreV1ResourceRequirements"),
   securityContext |-> One("IoK8sApiCoreV1SecurityContext"),
   volumeMounts |-> Many("IoK8sApiCoreV1VolumeMount")]

TrainerV1alpha1CoschedulingPodGroupPolicySource ==
  [scheduleTimeoutSeconds |-> Number]

TrainerV1alpha1CustomAlgorithm ==
  [name |-> Blank, settings |-> Many("TrainerV1alpha1SettingKV")]

TrainerV1alpha1DatasetInitializer ==
  [env |-> Many("IoK8sApiCoreV1EnvVar"), secretRef |-> One("IoK8sApiCoreV1LocalObjectReference"),
   storageUri |-> Text]

TrainerV1alpha1EarlyStopping ==
  [name |-> Blank, settings |-> Many("TrainerV1alpha1SettingKV")]

TrainerV1alpha1EnvInjection ==
  [targets |-> Many("TrainerV1alpha1EnvInjectionTarget")]

TrainerV1alpha1EnvInjectionTarget ==
  [containerNames |-> Need(Many("str")), jobName |-> Need(Text)]

TrainerV1alpha1FluxMLPolicySource ==
  [numProcPerNode |-> Number]

TrainerV1alpha1Initializer ==
  [dataset |-> One("TrainerV1alpha1DatasetInitializer"),
   model |-> One("TrainerV1alpha1ModelInitializer")]

TrainerV1alpha1IntSpace ==
  [max |-> Blank, min |-> Blank, step |-> Text]

TrainerV1alpha1JobSetSpecPatch ==
  [replicatedJobs |-> Many("TrainerV1alpha1ReplicatedJobPatch")]

TrainerV1alpha1JobSetTemplatePatch ==
  [metadata |-> One("IoK8sApimachineryPkgApisMetaV1ObjectMeta"),
   spec |-> One("TrainerV1alpha1JobSetSpecPatch")]

TrainerV1alpha1JobSetTemplateSpec ==
  [metadata |-> One("IoK8sApimachineryPkgApisMetaV1ObjectMeta"),
   spec |-> One("JobsetV1alpha2JobSetSpec")]

TrainerV1alpha1JobSpecPatch ==
  [template |-> One("TrainerV1alpha1PodTemplatePatch")]

TrainerV1alpha1JobStatus ==
  [active |-> Need(Number), failed |-> Need(Number), name |-> Need(Text), ready |-> Need(Number),
   succeeded |-> Need(Number), suspended |-> Need(Number)]

TrainerV1alpha1JobTemplatePatch ==
  [metadata |-> One("IoK8sApimachineryPkgApisMetaV1ObjectMeta"),
   spec |-> One("TrainerV1alpha1JobSpecPatch")]

TrainerV1alpha1LogNormalSpace ==
  [mean |-> Blank, stdDev |-> Blank]

TrainerV1alpha1LogUniformSpace ==
  [max |-> Need(Text), min |-> Need(Text), type |-> Text]

TrainerV1alpha1MLPolicy ==
  [flux |-> One("TrainerV1alpha1FluxMLPolicySource"), jax |-> Json,
   mpi |-> One("TrainerV1alpha1MPIMLPolicySource"), numNodes |-> Number,
   torch |-> One("TrainerV1alpha1TorchMLPolicySource"), xgboost |-> Json]

TrainerV1alpha1MLPolicySource ==
  [flux |-> One("TrainerV1alpha1FluxMLPolicySource"), jax |-> Json,
   mpi |-> One("TrainerV1alpha1MPIMLPolicySource"),
   torch |-> One("TrainerV1alpha1TorchMLPolicySource"), xgboost |-> Json]

TrainerV1alpha1MPIMLPolicySource ==
  [mpiImplementation |-> Text, numProcPerNode |-> Number, runLauncherAsNode |-> Flag,
   sshAuthMountPath |-> Text]

TrainerV1alpha1Metric ==
  [name |-> Need(Text), value |-> Need(Text)]

TrainerV1alpha1ModelInitializer ==
  [env |-> Many("IoK8sApiCoreV1EnvVar"), secretRef |-> One("IoK8sApiCoreV1LocalObjectReference"),
   storageUri |-> Text]

TrainerV1alpha1NormalSpace ==
  [mean |-> Blank, stdDev |-> Blank]

TrainerV1alpha1Objective ==
  [direction |-> Text, metric |-> Need(Text)]

TrainerV1alpha1OptimizationJob ==
  [apiVersion |-> Text, kind |-> Text, metadata |-> One("IoK8sApimachineryPkgApisMetaV1ObjectMeta"),
   spec |-> Need(One("TrainerV1alpha1OptimizationJobSpec")),
   status |-> One("TrainerV1alpha1OptimizationJobStatus")]

TrainerV1alpha1OptimizationJobList ==
  [apiVersion |-> Text, items |-> Need(Many("TrainerV1alpha1OptimizationJob")), kind |-> Text,
   metadata |-> One("IoK8sApimachineryPkgApisMetaV1ListMeta")]

TrainerV1alpha1OptimizationJobSpec ==
  [numTrials |-> Number, objectives |-> Need(Many("TrainerV1alpha1Objective")),
   parallelTrials |-> Number, parameters |-> Need(Many("TrainerV1alpha1Parameter")),
   searchAlgorithm |-> One("TrainerV1alpha1SearchAlgorithm"),
   trainJobTemplate |-> Need(One("TrainerV1alpha1TrainJobTemplateSpec"))]

TrainerV1alpha1OptimizationJobStatus ==
  [conditions |-> Many("IoK8sApimachineryPkgApisMetaV1Condition"),
   result |-> One("TrainerV1alpha1Result")]

TrainerV1alpha1OptimizationStorage ==
  [pvcName |-> Text, storageUri |-> Text]

TrainerV1alpha1Parameter ==
  [name |-> Need(Text), searchSpace |-> Need(One("TrainerV1alpha1SearchSpace"))]

TrainerV1alpha1ParameterAssignment ==
  [name |-> Need(Text), value |-> Need(Text)]

TrainerV1alpha1PodGroupPolicy ==
  [coscheduling |-> One("TrainerV1alpha1CoschedulingPodGroupPolicySource"),
   volcano |-> One("TrainerV1alpha1VolcanoPodGroupPolicySource")]

TrainerV1alpha1PodGroupPolicySource ==
  [coscheduling |-> One("TrainerV1alpha1CoschedulingPodGroupPolicySource"),
   volcano |-> One("TrainerV1alpha1VolcanoPodGroupPolicySource")]

TrainerV1alpha1PodSpecPatch ==
  [affinity |-> One("IoK8sApiCoreV1Affinity"), containers |-> Many("TrainerV1alpha1ContainerPatch"),
   imagePullSecrets |-> Many("IoK8sApiCoreV1LocalObjectReference"),
   initContainers |-> Many("TrainerV1alpha1ContainerPatch"), nodeSelector |-> Map("str"),
   resourceClaims |-> Many("IoK8sApiCoreV1PodResourceClaim"),
   schedulingGates |-> Many("IoK8sApiCoreV1PodSchedulingGate"),
   securityContext |-> One("IoK8sApiCoreV1PodSecurityContext"), serviceAccountName |-> Text,
   terminationGracePeriodSeconds |-> Number, tolerations |-> Many("IoK8sApiCoreV1Toleration"),
   volumes |-> Many("IoK8sApiCoreV1Volume")]

TrainerV1alpha1PodTemplatePatch ==
  [metadata |-> One("IoK8sApimachineryPkgApisMetaV1ObjectMeta"),
   spec |-> One("TrainerV1alpha1PodSpecPatch")]

TrainerV1alpha1RandomAlgorithm ==
  [seed |-> Number]

TrainerV1alpha1ReplicatedJobPatch ==
  [name |-> Need(Text), template |-> One("TrainerV1alpha1JobTemplatePatch")]

TrainerV1alpha1Result ==
  [parameters |-> Many("TrainerV1alpha1ParameterAssignment"), trainJobName |-> Need(Text)]

TrainerV1alpha1RuntimePatch ==
  [manager |-> Need(Text), time |-> Time,
   trainingRuntimeSpec |-> One("TrainerV1alpha1TrainingRuntimeSpecPatch")]

TrainerV1alpha1RuntimeRef ==
  [apiGroup |-> Text, kind |-> Text, name |-> Need(Text)]

TrainerV1alpha1SearchAlgorithm ==
  [grid |-> Json, random |-> One("TrainerV1alpha1RandomAlgorithm")]

TrainerV1alpha1SearchSpace ==
  [categorical |-> One("TrainerV1alpha1CategoricalSpace"),
   logUniform |-> One("TrainerV1alpha1LogUniformSpace"),
   uniform |-> One("TrainerV1alpha1UniformSpace")]

TrainerV1alpha1SettingKV ==
  [name |-> Blank, value |-> Blank]

TrainerV1alpha1TPEAlgorithm ==
  [eiCandidates |-> Number, initialTrials |-> Number, seed |-> Number]

TrainerV1alpha1TorchMLPolicySource ==
  [envInjection |-> One("TrainerV1alpha1EnvInjection")]

TrainerV1alpha1TrainJob ==
  [apiVersion |-> Text, kind |-> Text, metadata |-> One("IoK8sApimachineryPkgApisMetaV1ObjectMeta"),
   spec |-> One("TrainerV1alpha1TrainJobSpec"), status |-> One("TrainerV1alpha1TrainJobStatus")]

TrainerV1alpha1TrainJobList ==
  [apiVersion |-> Text, items |-> Need(Many("TrainerV1alpha1TrainJob")), kind |-> Text,
   metadata |-> One("IoK8sApimachineryPkgApisMetaV1ListMeta")]

TrainerV1alpha1TrainJobSpec ==
  [activeDeadlineSeconds |-> Number, initializer |-> One("TrainerV1alpha1Initializer"),
   managedBy |-> Text, runtimePatches |-> Many("TrainerV1alpha1RuntimePatch"),
   runtimeRef |-> Need(One("TrainerV1alpha1RuntimeRef")), suspend |-> Flag,
   trainer |-> One("TrainerV1alpha1Trainer")]

TrainerV1alpha1TrainJobStatus ==
  [conditions |-> Many("IoK8sApimachineryPkgApisMetaV1Condition"),
   jobsStatus |-> Many("TrainerV1alpha1JobStatus"),
   trainerStatus |-> One("TrainerV1alpha1TrainerStatus")]

TrainerV1alpha1TrainJobTemplateSpec ==
  [metadata |-> One("IoK8sApimachineryPkgApisMetaV1ObjectMeta"),
   spec |-> Need(One("TrainerV1alpha1TrainJobSpec"))]

TrainerV1alpha1Trainer ==
  [args |-> Many("str"), command |-> Many("str"), env |-> Many("IoK8sApiCoreV1EnvVar"),
   image |-> Text, numNodes |-> Number, numProcPerNode |-> Number,
   resourceClaimsPerNode |-> Many("TrainerV1alpha1TrainerResourceClaim"),
   resourcesPerNode |-> One("IoK8sApiCoreV1ResourceRequirements")]

TrainerV1alpha1TrainerResourceClaim ==
  [name |-> Need(Text), resourceClaimTemplateName |-> Need(Text)]

TrainerV1alpha1TrainerStatus ==
  [estimatedRemainingSeconds |-> Number, lastUpdatedTime |-> Time,
   metrics |-> Many("TrainerV1alpha1Metric"), progressPercentage |-> Number]

TrainerV1alpha1TrainingRuntime ==
  [apiVersion |-> Text, kind |-> Text, metadata |-> One("IoK8sApimachineryPkgApisMetaV1ObjectMeta"),
   spec |-> One("TrainerV1alpha1TrainingRuntimeSpec")]

TrainerV1alpha1TrainingRuntimeList ==
  [apiVersion |-> Text, items |-> Need(Many("TrainerV1alpha1TrainingRuntime")), kind |-> Text,
   metadata |-> One("IoK8sApimachineryPkgApisMetaV1ListMeta")]

TrainerV1alpha1TrainingRuntimeSpec ==
  [mlPolicy |-> One("TrainerV1alpha1MLPolicy"),
   podGroupPolicy |-> One("TrainerV1alpha1PodGroupPolicy"),
   template |-> One("TrainerV1alpha1JobSetTemplateSpec")]

TrainerV1alpha1TrainingRuntimeSpecPatch ==
  [template |-> One("TrainerV1alpha1JobSetTemplatePatch")]

TrainerV1alpha1TrialConfig ==
  [maxFailedTrials |-> Number, numTrials |-> Number, parallelTrials |-> Number]

TrainerV1alpha1UniformSpace ==
  [max |-> Need(Text), min |-> Need(Text), type |-> Text]

TrainerV1alpha1UpdateTrainJobStatusRequest ==
  [trainerStatus |-> One("TrainerV1alpha1TrainerStatus")]

TrainerV1alpha1VolcanoPodGroupPolicySource ==
  [networkTopology |-> One("SchedulingV1beta1NetworkTopologySpec")]

TrainerClasses == [
  TrainerV1alpha1Algorithm |-> TrainerV1alpha1Algorithm,
  TrainerV1alpha1BayesianAlgorithm |-> TrainerV1alpha1BayesianAlgorithm,
  TrainerV1alpha1BestTrial |-> TrainerV1alpha1BestTrial,
  TrainerV1alpha1CategoricalSpace |-> TrainerV1alpha1CategoricalSpace,
  TrainerV1alpha1ClusterTrainingRuntime |-> TrainerV1alpha1ClusterTrainingRuntime,
  TrainerV1alpha1ClusterTrainingRuntimeList |-> TrainerV1alpha1ClusterTrainingRuntimeList,
  TrainerV1alpha1ContainerPatch |-> TrainerV1alpha1ContainerPatch,
  TrainerV1alpha1CoschedulingPodGroupPolicySource |-> TrainerV1alpha1CoschedulingPodGroupPolicySource,
  TrainerV1alpha1CustomAlgorithm |-> TrainerV1alpha1CustomAlgorithm,
  TrainerV1alpha1DatasetInitializer |-> TrainerV1alpha1DatasetInitializer,
  TrainerV1alpha1EarlyStopping |-> TrainerV1alpha1EarlyStopping,
  TrainerV1alpha1EnvInjection |-> TrainerV1alpha1EnvInjection,
  TrainerV1alpha1EnvInjectionTarget |-> TrainerV1alpha1EnvInjectionTarget,
  TrainerV1alpha1FluxMLPolicySource |-> TrainerV1alpha1FluxMLPolicySource,
  TrainerV1alpha1Initializer |-> TrainerV1alpha1Initializer,
  TrainerV1alpha1IntSpace |-> TrainerV1alpha1IntSpace,
  TrainerV1alpha1JobSetSpecPatch |-> TrainerV1alpha1JobSetSpecPatch,
  TrainerV1alpha1JobSetTemplatePatch |-> TrainerV1alpha1JobSetTemplatePatch,
  TrainerV1alpha1JobSetTemplateSpec |-> TrainerV1alpha1JobSetTemplateSpec,
  TrainerV1alpha1JobSpecPatch |-> TrainerV1alpha1JobSpecPatch,
  TrainerV1alpha1JobStatus |-> TrainerV1alpha1JobStatus,
  TrainerV1alpha1JobTemplatePatch |-> TrainerV1alpha1JobTemplatePatch,
  TrainerV1alpha1LogNormalSpace |-> TrainerV1alpha1LogNormalSpace,
  TrainerV1alpha1LogUniformSpace |-> TrainerV1alpha1LogUniformSpace,
  TrainerV1alpha1MLPolicy |-> TrainerV1alpha1MLPolicy,
  TrainerV1alpha1MLPolicySource |-> TrainerV1alpha1MLPolicySource,
  TrainerV1alpha1MPIMLPolicySource |-> TrainerV1alpha1MPIMLPolicySource,
  TrainerV1alpha1Metric |-> TrainerV1alpha1Metric,
  TrainerV1alpha1ModelInitializer |-> TrainerV1alpha1ModelInitializer,
  TrainerV1alpha1NormalSpace |-> TrainerV1alpha1NormalSpace,
  TrainerV1alpha1Objective |-> TrainerV1alpha1Objective,
  TrainerV1alpha1OptimizationJob |-> TrainerV1alpha1OptimizationJob,
  TrainerV1alpha1OptimizationJobList |-> TrainerV1alpha1OptimizationJobList,
  TrainerV1alpha1OptimizationJobSpec |-> TrainerV1alpha1OptimizationJobSpec,
  TrainerV1alpha1OptimizationJobStatus |-> TrainerV1alpha1OptimizationJobStatus,
  TrainerV1alpha1OptimizationStorage |-> TrainerV1alpha1OptimizationStorage,
  TrainerV1alpha1Parameter |-> TrainerV1alpha1Parameter,
  TrainerV1alpha1ParameterAssignment |-> TrainerV1alpha1ParameterAssignment,
  TrainerV1alpha1PodGroupPolicy |-> TrainerV1alpha1PodGroupPolicy,
  TrainerV1alpha1PodGroupPolicySource |-> TrainerV1alpha1PodGroupPolicySource,
  TrainerV1alpha1PodSpecPatch |-> TrainerV1alpha1PodSpecPatch,
  TrainerV1alpha1PodTemplatePatch |-> TrainerV1alpha1PodTemplatePatch,
  TrainerV1alpha1RandomAlgorithm |-> TrainerV1alpha1RandomAlgorithm,
  TrainerV1alpha1ReplicatedJobPatch |-> TrainerV1alpha1ReplicatedJobPatch,
  TrainerV1alpha1Result |-> TrainerV1alpha1Result,
  TrainerV1alpha1RuntimePatch |-> TrainerV1alpha1RuntimePatch,
  TrainerV1alpha1RuntimeRef |-> TrainerV1alpha1RuntimeRef,
  TrainerV1alpha1SearchAlgorithm |-> TrainerV1alpha1SearchAlgorithm,
  TrainerV1alpha1SearchSpace |-> TrainerV1alpha1SearchSpace,
  TrainerV1alpha1SettingKV |-> TrainerV1alpha1SettingKV,
  TrainerV1alpha1TPEAlgorithm |-> TrainerV1alpha1TPEAlgorithm,
  TrainerV1alpha1TorchMLPolicySource |-> TrainerV1alpha1TorchMLPolicySource,
  TrainerV1alpha1TrainJob |-> TrainerV1alpha1TrainJob,
  TrainerV1alpha1TrainJobList |-> TrainerV1alpha1TrainJobList,
  TrainerV1alpha1TrainJobSpec |-> TrainerV1alpha1TrainJobSpec,
  TrainerV1alpha1TrainJobStatus |-> TrainerV1alpha1TrainJobStatus,
  TrainerV1alpha1TrainJobTemplateSpec |-> TrainerV1alpha1TrainJobTemplateSpec,
  TrainerV1alpha1Trainer |-> TrainerV1alpha1Trainer,
  TrainerV1alpha1TrainerResourceClaim |-> TrainerV1alpha1TrainerResourceClaim,
  TrainerV1alpha1TrainerStatus |-> TrainerV1alpha1TrainerStatus,
  TrainerV1alpha1TrainingRuntime |-> TrainerV1alpha1TrainingRuntime,
  TrainerV1alpha1TrainingRuntimeList |-> TrainerV1alpha1TrainingRuntimeList,
  TrainerV1alpha1TrainingRuntimeSpec |-> TrainerV1alpha1TrainingRuntimeSpec,
  TrainerV1alpha1TrainingRuntimeSpecPatch |-> TrainerV1alpha1TrainingRuntimeSpecPatch,
  TrainerV1alpha1TrialConfig |-> TrainerV1alpha1TrialConfig,
  TrainerV1alpha1UniformSpace |-> TrainerV1alpha1UniformSpace,
  TrainerV1alpha1UpdateTrainJobStatusRequest |-> TrainerV1alpha1UpdateTrainJobStatusRequest,
  TrainerV1alpha1VolcanoPodGroupPolicySource |-> TrainerV1alpha1VolcanoPodGroupPolicySource]
==============================================================================
