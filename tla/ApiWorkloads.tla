----------------------------- MODULE ApiWorkloads -----------------------------
(***************************************************************************)
(* The classes of api/python_api/kubeflow_trainer_api/models for the       *)
(* batch, JobSet and scheduling types that runtimes embed: each is its     *)
(* fields, under the names they have in a document, with how from_dict     *)
(* reads them (ApiField).                                                  *)
(***************************************************************************)
EXTENDS ApiField

IoK8sApiBatchV1JobSchedulingConfiguration ==
  [disruptionMode |-> One("IoK8sApiSchedulingV1alpha3WorkloadPodGroupDisruptionMode"),
   resourceClaims |-> Many("IoK8sApiSchedulingV1alpha3WorkloadPodGroupResourceClaim"),
   schedulingConstraints |-> One("IoK8sApiSchedulingV1alpha3WorkloadPodGroupSchedulingConstraints"),
   schedulingPolicy |-> One("IoK8sApiSchedulingV1alpha3WorkloadPodGroupSchedulingPolicy")]

IoK8sApiBatchV1JobSpec ==
  [activeDeadlineSeconds |-> Number, backoffLimit |-> Number, backoffLimitPerIndex |-> Number,
   completionMode |-> Word, completions |-> Number, managedBy |-> Text, manualSelector |-> Flag,
   maxFailedIndexes |-> Number, parallelism |-> Number,
   podFailurePolicy |-> One("IoK8sApiBatchV1PodFailurePolicy"), podReplacementPolicy |-> Word,
   scheduling |-> One("IoK8sApiBatchV1JobSchedulingConfiguration"),
   selector |-> One("IoK8sApimachineryPkgApisMetaV1LabelSelector"),
   successPolicy |-> One("IoK8sApiBatchV1SuccessPolicy"), suspend |-> Flag,
   template |-> Need(One("IoK8sApiCoreV1PodTemplateSpec")), ttlSecondsAfterFinished |-> Number]

IoK8sApiBatchV1JobTemplateSpec ==
  [metadata |-> One("IoK8sApimachineryPkgApisMetaV1ObjectMeta"),
   spec |-> One("IoK8sApiBatchV1JobSpec")]

IoK8sApiBatchV1PodFailurePolicy ==
  [rules |-> Need(Many("IoK8sApiBatchV1PodFailurePolicyRule"))]

IoK8sApiBatchV1PodFailurePolicyOnExitCodesRequirement ==
  [containerName |-> Text, operator |-> Need(Word), values |-> Need(Many("int"))]

IoK8sApiBatchV1PodFailurePolicyOnPodConditionsPattern ==
  [status |-> Else(Text, "empty"), type |-> Blank]

IoK8sApiBatchV1PodFailurePolicyRule ==
  [action |-> Need(Word),
   onExitCodes |-> One("IoK8sApiBatchV1PodFailurePolicyOnExitCodesRequirement"),
   onPodConditions |-> Many("IoK8sApiBatchV1PodFailurePolicyOnPodConditionsPattern")]

IoK8sApiBatchV1SuccessPolicy ==
  [rules |-> Need(Many("IoK8sApiBatchV1SuccessPolicyRule"))]

IoK8sApiBatchV1SuccessPolicyRule ==
  [succeededCount |-> Number, succeededIndexes |-> Text]

IoK8sApiSchedulingV1alpha3TopologyConstraint ==
  [key |-> Blank]

IoK8sApiSchedulingV1alpha3WorkloadCompositePodGroupDisruptionMode ==
  [all |-> Json, single |-> Json]

IoK8sApiSchedulingV1alpha3WorkloadCompositePodGroupGangSchedulingPolicy ==
  [minGroupCount |-> Number]

IoK8sApiSchedulingV1alpha3WorkloadCompositePodGroupSchedulingConstraints ==
  [topology |-> Many("IoK8sApiSchedulingV1alpha3TopologyConstraint")]

IoK8sApiSchedulingV1alpha3WorkloadCompositePodGroupSchedulingPolicy ==
  [basic |-> Json,
   gang |-> One("IoK8sApiSchedulingV1alpha3WorkloadCompositePodGroupGangSchedulingPolicy")]

IoK8sApiSchedulingV1alpha3WorkloadPodGroupDisruptionMode ==
  [all |-> Json, single |-> Json]

IoK8sApiSchedulingV1alpha3WorkloadPodGroupGangSchedulingPolicy ==
  [minCount |-> Number]

IoK8sApiSchedulingV1alpha3WorkloadPodGroupResourceClaim ==
  [name |-> Blank, resourceClaimName |-> Text, resourceClaimTemplateName |-> Text]

IoK8sApiSchedulingV1alpha3WorkloadPodGroupSchedulingConstraints ==
  [topology |-> Many("IoK8sApiSchedulingV1alpha3TopologyConstraint")]

IoK8sApiSchedulingV1alpha3WorkloadPodGroupSchedulingPolicy ==
  [basic |-> Json, gang |-> One("IoK8sApiSchedulingV1alpha3WorkloadPodGroupGangSchedulingPolicy")]

JobsetV1alpha2Coordinator ==
  [jobIndex |-> Number, podIndex |-> Number, replicatedJob |-> Blank]

JobsetV1alpha2DependsOn ==
  [name |-> Blank, status |-> Blank]

JobsetV1alpha2FailurePolicy ==
  [maxRestarts |-> Number, restartStrategy |-> Text,
   rules |-> Many("JobsetV1alpha2FailurePolicyRule")]

JobsetV1alpha2FailurePolicyRule ==
  [action |-> Blank, name |-> Blank, onJobFailureMessagePatterns |-> Many("str"),
   onJobFailureReasons |-> Many("str"), targetReplicatedJobs |-> Many("str")]

JobsetV1alpha2JobScheduling ==
  [disruptionMode |-> One("IoK8sApiSchedulingV1alpha3WorkloadPodGroupDisruptionMode"),
   resourceClaims |-> Many("IoK8sApiSchedulingV1alpha3WorkloadPodGroupResourceClaim"),
   schedulingConstraints |-> One("IoK8sApiSchedulingV1alpha3WorkloadPodGroupSchedulingConstraints"),
   schedulingPolicy |-> One("IoK8sApiSchedulingV1alpha3WorkloadPodGroupSchedulingPolicy")]

JobsetV1alpha2JobSet ==
  [apiVersion |-> Text, kind |-> Text, metadata |-> One("IoK8sApimachineryPkgApisMetaV1ObjectMeta"),
   spec |-> One("JobsetV1alpha2JobSetSpec"), status |-> One("JobsetV1alpha2JobSetStatus")]

JobsetV1alpha2JobSetList ==
  [apiVersion |-> Text, items |-> Need(Many("JobsetV1alpha2JobSet")), kind |-> Text,
   metadata |-> One("IoK8sApimachineryPkgApisMetaV1ListMeta")]

JobsetV1alpha2JobSetScheduling ==
  [disruptionMode |-> One("IoK8sApiSchedulingV1alpha3WorkloadCompositePodGroupDisruptionMode"),
   replicatedJobs |-> Many("JobsetV1alpha2ReplicatedJobScheduling"),
   schedulingConstraints |-> One("IoK8sApiSchedulingV1alpha3WorkloadCompositePodGroupSchedulingConstraints"),
   schedulingPolicy |-> One("IoK8sApiSchedulingV1alpha3WorkloadCompositePodGroupSchedulingPolicy")]

JobsetV1alpha2JobSetSpec ==
  [activeDeadlineSeconds |-> Number, coordinator |-> One("JobsetV1alpha2Coordinator"),
   failurePolicy |-> One("JobsetV1alpha2FailurePolicy"), managedBy |-> Text,
   network |-> One("JobsetV1alpha2Network"), replicatedJobs |-> Many("JobsetV1alpha2ReplicatedJob"),
   scheduling |-> One("JobsetV1alpha2JobSetScheduling"),
   startupPolicy |-> One("JobsetV1alpha2StartupPolicy"),
   successPolicy |-> One("JobsetV1alpha2SuccessPolicy"), suspend |-> Flag,
   ttlSecondsAfterFinished |-> Number,
   volumeClaimPolicies |-> Many("JobsetV1alpha2VolumeClaimPolicy")]

JobsetV1alpha2JobSetStatus ==
  [conditions |-> Many("IoK8sApimachineryPkgApisMetaV1Condition"),
   currentInPlaceRestartAttempt |-> Number, executionAttempts |-> Number,
   previousInPlaceRestartAttempt |-> Number,
   replicatedJobsStatus |-> Many("JobsetV1alpha2ReplicatedJobStatus"),
   restarts |-> Else(Number, "int"), restartsCountTowardsMax |-> Number, startTime |-> Time,
   terminalState |-> Text]

JobsetV1alpha2Network ==
  [enableDNSHostnames |-> Flag, publishNotReadyAddresses |-> Flag, subdomain |-> Text]

JobsetV1alpha2ReplicatedJob ==
  [dependsOn |-> Many("JobsetV1alpha2DependsOn"), groupName |-> Text, name |-> Blank,
   replicas |-> Number, template |-> Need(One("IoK8sApiBatchV1JobTemplateSpec"))]

JobsetV1alpha2ReplicatedJobScheduling ==
  [disruptionMode |-> One("IoK8sApiSchedulingV1alpha3WorkloadCompositePodGroupDisruptionMode"),
   job |-> One("JobsetV1alpha2JobScheduling"),
   schedulingConstraints |-> One("IoK8sApiSchedulingV1alpha3WorkloadCompositePodGroupSchedulingConstraints"),
   schedulingPolicy |-> One("IoK8sApiSchedulingV1alpha3WorkloadCompositePodGroupSchedulingPolicy"),
   targetReplicatedJobs |-> Need(Many("str"))]

JobsetV1alpha2ReplicatedJobStatus ==
  [active |-> Zero, failed |-> Zero, jobRestarts |-> Many("int"),
   jobRestartsCountTowardsMax |-> Many("int"), name |-> Blank, ready |-> Zero, succeeded |-> Zero,
   suspended |-> Zero]

JobsetV1alpha2StartupPolicy ==
  [startupPolicyOrder |-> Blank]

JobsetV1alpha2SuccessPolicy ==
  [operator |-> Blank, targetReplicatedJobs |-> Many("str")]

JobsetV1alpha2VolumeClaimPolicy ==
  [retentionPolicy |-> One("JobsetV1alpha2VolumeRetentionPolicy"),
   templates |-> Many("IoK8sApiCoreV1PersistentVolumeClaim")]

JobsetV1alpha2VolumeRetentionPolicy ==
  [whenDeleted |-> Text]

SchedulingV1beta1NetworkTopologySpec ==
  [highestTierAllowed |-> Number, mode |-> Text]

WorkloadClasses == [
  IoK8sApiBatchV1JobSchedulingConfiguration |-> IoK8sApiBatchV1JobSchedulingConfiguration,
  IoK8sApiBatchV1JobSpec |-> IoK8sApiBatchV1JobSpec,
  IoK8sApiBatchV1JobTemplateSpec |-> IoK8sApiBatchV1JobTemplateSpec,
  IoK8sApiBatchV1PodFailurePolicy |-> IoK8sApiBatchV1PodFailurePolicy,
  IoK8sApiBatchV1PodFailurePolicyOnExitCodesRequirement |-> IoK8sApiBatchV1PodFailurePolicyOnExitCodesRequirement,
  IoK8sApiBatchV1PodFailurePolicyOnPodConditionsPattern |-> IoK8sApiBatchV1PodFailurePolicyOnPodConditionsPattern,
  IoK8sApiBatchV1PodFailurePolicyRule |-> IoK8sApiBatchV1PodFailurePolicyRule,
  IoK8sApiBatchV1SuccessPolicy |-> IoK8sApiBatchV1SuccessPolicy,
  IoK8sApiBatchV1SuccessPolicyRule |-> IoK8sApiBatchV1SuccessPolicyRule,
  IoK8sApiSchedulingV1alpha3TopologyConstraint |-> IoK8sApiSchedulingV1alpha3TopologyConstraint,
  IoK8sApiSchedulingV1alpha3WorkloadCompositePodGroupDisruptionMode |-> IoK8sApiSchedulingV1alpha3WorkloadCompositePodGroupDisruptionMode,
  IoK8sApiSchedulingV1alpha3WorkloadCompositePodGroupGangSchedulingPolicy |-> IoK8sApiSchedulingV1alpha3WorkloadCompositePodGroupGangSchedulingPolicy,
  IoK8sApiSchedulingV1alpha3WorkloadCompositePodGroupSchedulingConstraints |-> IoK8sApiSchedulingV1alpha3WorkloadCompositePodGroupSchedulingConstraints,
  IoK8sApiSchedulingV1alpha3WorkloadCompositePodGroupSchedulingPolicy |-> IoK8sApiSchedulingV1alpha3WorkloadCompositePodGroupSchedulingPolicy,
  IoK8sApiSchedulingV1alpha3WorkloadPodGroupDisruptionMode |-> IoK8sApiSchedulingV1alpha3WorkloadPodGroupDisruptionMode,
  IoK8sApiSchedulingV1alpha3WorkloadPodGroupGangSchedulingPolicy |-> IoK8sApiSchedulingV1alpha3WorkloadPodGroupGangSchedulingPolicy,
  IoK8sApiSchedulingV1alpha3WorkloadPodGroupResourceClaim |-> IoK8sApiSchedulingV1alpha3WorkloadPodGroupResourceClaim,
  IoK8sApiSchedulingV1alpha3WorkloadPodGroupSchedulingConstraints |-> IoK8sApiSchedulingV1alpha3WorkloadPodGroupSchedulingConstraints,
  IoK8sApiSchedulingV1alpha3WorkloadPodGroupSchedulingPolicy |-> IoK8sApiSchedulingV1alpha3WorkloadPodGroupSchedulingPolicy,
  JobsetV1alpha2Coordinator |-> JobsetV1alpha2Coordinator,
  JobsetV1alpha2DependsOn |-> JobsetV1alpha2DependsOn,
  JobsetV1alpha2FailurePolicy |-> JobsetV1alpha2FailurePolicy,
  JobsetV1alpha2FailurePolicyRule |-> JobsetV1alpha2FailurePolicyRule,
  JobsetV1alpha2JobScheduling |-> JobsetV1alpha2JobScheduling,
  JobsetV1alpha2JobSet |-> JobsetV1alpha2JobSet,
  JobsetV1alpha2JobSetList |-> JobsetV1alpha2JobSetList,
  JobsetV1alpha2JobSetScheduling |-> JobsetV1alpha2JobSetScheduling,
  JobsetV1alpha2JobSetSpec |-> JobsetV1alpha2JobSetSpec,
  JobsetV1alpha2JobSetStatus |-> JobsetV1alpha2JobSetStatus,
  JobsetV1alpha2Network |-> JobsetV1alpha2Network,
  JobsetV1alpha2ReplicatedJob |-> JobsetV1alpha2ReplicatedJob,
  JobsetV1alpha2ReplicatedJobScheduling |-> JobsetV1alpha2ReplicatedJobScheduling,
  JobsetV1alpha2ReplicatedJobStatus |-> JobsetV1alpha2ReplicatedJobStatus,
  JobsetV1alpha2StartupPolicy |-> JobsetV1alpha2StartupPolicy,
  JobsetV1alpha2SuccessPolicy |-> JobsetV1alpha2SuccessPolicy,
  JobsetV1alpha2VolumeClaimPolicy |-> JobsetV1alpha2VolumeClaimPolicy,
  JobsetV1alpha2VolumeRetentionPolicy |-> JobsetV1alpha2VolumeRetentionPolicy,
  SchedulingV1beta1NetworkTopologySpec |-> SchedulingV1beta1NetworkTopologySpec]
==============================================================================
