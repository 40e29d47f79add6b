------------------------------- MODULE ApiCore -------------------------------
(***************************************************************************)
(* The classes of api/python_api/kubeflow_trainer_api/models for the       *)
(* core/v1 types a Pod template is made of: each is its fields, under the  *)
(* names they have in a document, with how from_dict reads them            *)
(* (ApiField).                                                             *)
(***************************************************************************)
EXTENDS ApiField

IoK8sApiCoreV1AWSElasticBlockStoreVolumeSource ==
  [fsType |-> Text, partition |-> Number, readOnly |-> Flag, volumeID |-> Blank]

IoK8sApiCoreV1Affinity ==
  [nodeAffinity |-> One("IoK8sApiCoreV1NodeAffinity"),
   podAffinity |-> One("IoK8sApiCoreV1PodAffinity"),
   podAntiAffinity |-> One("IoK8sApiCoreV1PodAntiAffinity")]

IoK8sApiCoreV1AppArmorProfile ==
  [localhostProfile |-> Text, type |-> Need(Word)]

IoK8sApiCoreV1AzureDiskVolumeSource ==
  [cachingMode |-> Else(Word, "word"), diskName |-> Blank, diskURI |-> Blank,
   fsType |-> Else(Text, "str"), kind |-> Else(Word, "word"), readOnly |-> Else(Flag, "bool")]

IoK8sApiCoreV1AzureFileVolumeSource ==
  [readOnly |-> Flag, secretName |-> Blank, shareName |-> Blank]

IoK8sApiCoreV1CSIVolumeSource ==
  [driver |-> Blank, fsType |-> Text,
   nodePublishSecretRef |-> One("IoK8sApiCoreV1LocalObjectReference"), readOnly |-> Flag,
   volumeAttributes |-> Map("str")]

IoK8sApiCoreV1Capabilities ==
  [add |-> Many("str"), drop |-> Many("str")]

IoK8sApiCoreV1CephFSVolumeSource ==
  [monitors |-> Need(Many("str")), path |-> Text, readOnly |-> Flag, secretFile |-> Text,
   secretRef |-> One("IoK8sApiCoreV1LocalObjectReference"), user |-> Text]

IoK8sApiCoreV1CinderVolumeSource ==
  [fsType |-> Text, readOnly |-> Flag, secretRef |-> One("IoK8sApiCoreV1LocalObjectReference"),
   volumeID |-> Blank]

IoK8sApiCoreV1ClusterTrustBundleProjection ==
  [labelSelector |-> One("IoK8sApimachineryPkgApisMetaV1LabelSelector"), name |-> Text,
   optional |-> Flag, path |-> Blank, signerName |-> Text, user |-> Number]

IoK8sApiCoreV1ConfigMapEnvSource ==
  [name |-> Else(Text, "empty"), optional |-> Flag]

IoK8sApiCoreV1ConfigMapKeySelector ==
  [key |-> Blank, name |-> Else(Text, "empty"), optional |-> Flag]

IoK8sApiCoreV1ConfigMapProjection ==
  [items |-> Many("IoK8sApiCoreV1KeyToPath"), name |-> Else(Text, "empty"), optional |-> Flag]

IoK8sApiCoreV1ConfigMapVolumeSource ==
  [defaultMode |-> Number, defaultUser |-> Number, items |-> Many("IoK8sApiCoreV1KeyToPath"),
   name |-> Else(Text, "empty"), optional |-> Flag]

IoK8sApiCoreV1Container ==
  [args |-> Many("str"), command |-> Many("str"), env |-> Many("IoK8sApiCoreV1EnvVar"),
   envFrom |-> Many("IoK8sApiCoreV1EnvFromSource"), image |-> Text, imagePullPolicy |-> Word,
   lifecycle |-> One("IoK8sApiCoreV1Lifecycle"), livenessProbe |-> One("IoK8sApiCoreV1Probe"),
   name |-> Blank, ports |-> Many("IoK8sApiCoreV1ContainerPort"),
   readinessProbe |-> One("IoK8sApiCoreV1Probe"),
   resizePolicy |-> Many("IoK8sApiCoreV1ContainerResizePolicy"),
   resources |-> One("IoK8sApiCoreV1ResourceRequirements"), restartPolicy |-> Text,
   restartPolicyRules |-> Many("IoK8sApiCoreV1ContainerRestartRule"),
   securityContext |-> One("IoK8sApiCoreV1SecurityContext"),
   startupProbe |-> One("IoK8sApiCoreV1Probe"), stdin |-> Flag, stdinOnce |-> Flag,
   terminationMessagePath |-> Text, terminationMessagePolicy |-> Word, tty |-> Flag,
   volumeDevices |-> Many("IoK8sApiCoreV1VolumeDevice"),
   volumeMounts |-> Many("IoK8sApiCoreV1VolumeMount"), workingDir |-> Text]

IoK8sApiCoreV1ContainerPort ==
  [containerPort |-> Zero, hostIP |-> Text, hostPort |-> Number, name |-> Text,
   protocol |-> Else(Word, "word")]

IoK8sApiCoreV1ContainerResizePolicy ==
  [resourceName |-> Blank, restartPolicy |-> Blank]

IoK8sApiCoreV1ContainerRestartRule ==
  [action |-> Need(Text), exitCodes |-> One("IoK8sApiCoreV1ContainerRestartRuleOnExitCodes")]

IoK8sApiCoreV1ContainerRestartRuleOnExitCodes ==
  [operator |-> Need(Text), values |-> Many("int")]

IoK8sApiCoreV1DownwardAPIProjection ==
  [items |-> Many("IoK8sApiCoreV1DownwardAPIVolumeFile")]

IoK8sApiCoreV1DownwardAPIVolumeFile ==
  [fieldRef |-> One("IoK8sApiCoreV1ObjectFieldSelector"), mode |-> Number, path |-> Blank,
   resourceFieldRef |-> One("IoK8sApiCoreV1ResourceFieldSelector"), user |-> Number]

IoK8sApiCoreV1DownwardAPIVolumeSource ==
  [defaultMode |-> Number, defaultUser |-> Number,
   items |-> Many("IoK8sApiCoreV1DownwardAPIVolumeFile")]

IoK8sApiCoreV1EmptyDirVolumeSource ==
  [medium |-> Text, mode |-> Number, sizeLimit |-> One("IoK8sApimachineryPkgApiResourceQuantity")]

IoK8sApiCoreV1EnvFromSource ==
  [configMapRef |-> One("IoK8sApiCoreV1ConfigMapEnvSource"), prefix |-> Text,
   secretRef |-> One("IoK8sApiCoreV1SecretEnvSource")]

IoK8sApiCoreV1EnvVar ==
  [name |-> Blank, value |-> Text, valueFrom |-> One("IoK8sApiCoreV1EnvVarSource")]

IoK8sApiCoreV1EnvVarSource ==
  [configMapKeyRef |-> One("IoK8sApiCoreV1ConfigMapKeySelector"),
   fieldRef |-> One("IoK8sApiCoreV1ObjectFieldSelector"),
   fileKeyRef |-> One("IoK8sApiCoreV1FileKeySelector"),
   resourceFieldRef |-> One("IoK8sApiCoreV1ResourceFieldSelector"),
   secretKeyRef |-> One("IoK8sApiCoreV1SecretKeySelector")]

IoK8sApiCoreV1EphemeralContainer ==
  [args |-> Many("str"), command |-> Many("str"), env |-> Many("IoK8sApiCoreV1EnvVar"),
   envFrom |-> Many("IoK8sApiCoreV1EnvFromSource"), image |-> Text, imagePullPolicy |-> Word,
   lifecycle |-> One("IoK8sApiCoreV1Lifecycle"), livenessProbe |-> One("IoK8sApiCoreV1Probe"),
   name |-> Blank, ports |-> Many("IoK8sApiCoreV1ContainerPort"),
   readinessProbe |-> One("IoK8sApiCoreV1Probe"),
   resizePolicy |-> Many("IoK8sApiCoreV1ContainerResizePolicy"),
   resources |-> One("IoK8sApiCoreV1ResourceRequirements"), restartPolicy |-> Text,
   restartPolicyRules |-> Many("IoK8sApiCoreV1ContainerRestartRule"),
   securityContext |-> One("IoK8sApiCoreV1SecurityContext"),
   startupProbe |-> One("IoK8sApiCoreV1Probe"), stdin |-> Flag, stdinOnce |-> Flag,
   targetContainerName |-> Text, terminationMessagePath |-> Text, terminationMessagePolicy |-> Word,
   tty |-> Flag, volumeDevices |-> Many("IoK8sApiCoreV1VolumeDevice"),
   volumeMounts |-> Many("IoK8sApiCoreV1VolumeMount"), workingDir |-> Text]

IoK8sApiCoreV1EphemeralVolumeSource ==
  [volumeClaimTemplate |-> One("IoK8sApiCoreV1PersistentVolumeClaimTemplate")]

IoK8sApiCoreV1EvictionResponder ==
  [name |-> Blank, priority |-> Need(Number)]

IoK8sApiCoreV1ExecAction ==
  [command |-> Many("str")]

IoK8sApiCoreV1FCVolumeSource ==
  [fsType |-> Text, lun |-> Number, readOnly |-> Flag, targetWWNs |-> Many("str"),
   wwids |-> Many("str")]

IoK8sApiCoreV1FileKeySelector ==
  [key |-> Blank, optional |-> Else(Flag, "bool"), path |-> Blank, volumeName |-> Blank]

IoK8sApiCoreV1FlexVolumeSource ==
  [driver |-> Blank, fsType |-> Text, options |-> Map("str"), readOnly |-> Flag,
   secretRef |-> One("IoK8sApiCoreV1LocalObjectReference")]

IoK8sApiCoreV1FlockerVolumeSource ==
  [datasetName |-> Text, datasetUUID |-> Text]

IoK8sApiCoreV1GCEPersistentDiskVolumeSource ==
  [fsType |-> Text, partition |-> Number, pdName |-> Blank, readOnly |-> Flag]

IoK8sApiCoreV1GRPCAction ==
  [mode |-> Word, port |-> Zero, service |-> Else(Text, "empty")]

IoK8sApiCoreV1GitRepoVolumeSource ==
  [directory |-> Text, repository |-> Blank, revision |-> Text]

IoK8sApiCoreV1GlusterfsVolumeSource ==
  [endpoints |-> Blank, path |-> Blank, readOnly |-> Flag]

IoK8sApiCoreV1HTTPGetAction ==
  [host |-> Text, httpHeaders |-> Many("IoK8sApiCoreV1HTTPHeader"), path |-> Text,
   port |-> Need(One("IoK8sApimachineryPkgUtilIntstrIntOrString")), protocol |-> Word,
   scheme |-> Word]

IoK8sApiCoreV1HTTPHeader ==
  [name |-> Blank, value |-> Blank]

IoK8sApiCoreV1HostAlias ==
  [hostnames |-> Many("str"), ip |-> Blank]

IoK8sApiCoreV1HostPathVolumeSource ==
  [path |-> Blank, type |-> Word]

IoK8sApiCoreV1ISCSIVolumeSource ==
  [chapAuthDiscovery |-> Flag, chapAuthSession |-> Flag, fsType |-> Text, initiatorName |-> Text,
   iqn |-> Blank, iscsiInterface |-> Else(Text, "str"), lun |-> Zero, portals |-> Many("str"),
   readOnly |-> Flag, secretRef |-> One("IoK8sApiCoreV1LocalObjectReference"),
   targetPortal |-> Blank]

IoK8sApiCoreV1ImageVolumeSource ==
  [pullPolicy |-> Word, reference |-> Text]

IoK8sApiCoreV1KeyToPath ==
  [key |-> Blank, mode |-> Number, path |-> Blank, user |-> Number]

IoK8sApiCoreV1Lifecycle ==
  [postStart |-> One("IoK8sApiCoreV1LifecycleHandler"),
   preStop |-> One("IoK8sApiCoreV1LifecycleHandler"), stopSignal |-> Word]

IoK8sApiCoreV1LifecycleHandler ==
  [exec |-> One("IoK8sApiCoreV1ExecAction"), httpGet |-> One("IoK8sApiCoreV1HTTPGetAction"),
   sleep |-> One("IoK8sApiCoreV1SleepAction"), tcpSocket |-> One("IoK8sApiCoreV1TCPSocketAction")]

IoK8sApiCoreV1LocalObjectReference ==
  [name |-> Else(Text, "empty")]

IoK8sApiCoreV1ModifyVolumeStatus ==
  [status |-> Need(Word), targetVolumeAttributesClassName |-> Text]

IoK8sApiCoreV1NFSVolumeSource ==
  [path |-> Blank, readOnly |-> Flag, server |-> Blank]

IoK8sApiCoreV1NodeAffinity ==
  [preferredDuringSchedulingIgnoredDuringExecution |-> Many("IoK8sApiCoreV1PreferredSchedulingTerm"),
   requiredDuringSchedulingIgnoredDuringExecution |-> One("IoK8sApiCoreV1NodeSelector")]

IoK8sApiCoreV1NodeSelector ==
  [nodeSelectorTerms |-> Need(Many("IoK8sApiCoreV1NodeSelectorTerm"))]

IoK8sApiCoreV1NodeSelectorRequirement ==
  [key |-> Blank, operator |-> Need(Word), values |-> Many("str")]

IoK8sApiCoreV1NodeSelectorTerm ==
  [matchExpressions |-> Many("IoK8sApiCoreV1NodeSelectorRequirement"),
   matchFields |-> Many("IoK8sApiCoreV1NodeSelectorRequirement")]

IoK8sApiCoreV1ObjectFieldSelector ==
  [apiVersion |-> Text, fieldPath |-> Blank]

IoK8sApiCoreV1PersistentVolumeClaim ==
  [apiVersion |-> Text, kind |-> Text, metadata |-> One("IoK8sApimachineryPkgApisMetaV1ObjectMeta"),
   spec |-> One("IoK8sApiCoreV1PersistentVolumeClaimSpec"),
   status |-> One("IoK8sApiCoreV1PersistentVolumeClaimStatus")]

IoK8sApiCoreV1PersistentVolumeClaimCondition ==
  [lastProbeTime |-> Time, lastTransitionTime |-> Time, message |-> Text, reason |-> Text,
   status |-> Blank, type |-> Blank]

IoK8sApiCoreV1PersistentVolumeClaimSpec ==
  [accessModes |-> Many("word"), dataSource |-> One("IoK8sApiCoreV1TypedLocalObjectReference"),
   dataSourceRef |-> One("IoK8sApiCoreV1TypedObjectReference"),
   resources |-> One("IoK8sApiCoreV1VolumeResourceRequirements"),
   selector |-> One("IoK8sApimachineryPkgApisMetaV1LabelSelector"), storageClassName |-> Text,
   volumeAttributesClassName |-> Text, volumeMode |-> Word, volumeName |-> Text]

IoK8sApiCoreV1PersistentVolumeClaimStatus ==
  [accessModes |-> Many("word"), allocatedResourceStatuses |-> Map("word"),
   allocatedResources |-> Map("IoK8sApimachineryPkgApiResourceQuantity"),
   capacity |-> Map("IoK8sApimachineryPkgApiResourceQuantity"),
   conditions |-> Many("IoK8sApiCoreV1PersistentVolumeClaimCondition"),
   currentVolumeAttributesClassName |-> Text,
   healthStatus |-> One("IoK8sApiCoreV1VolumeHealthStatus"),
   modifyVolumeStatus |-> One("IoK8sApiCoreV1ModifyVolumeStatus"), phase |-> Word]

IoK8sApiCoreV1PersistentVolumeClaimTemplate ==
  [metadata |-> One("IoK8sApimachineryPkgApisMetaV1ObjectMeta"),
   spec |-> Need(One("IoK8sApiCoreV1PersistentVolumeClaimSpec"))]

IoK8sApiCoreV1PersistentVolumeClaimVolumeSource ==
  [claimName |-> Blank, readOnly |-> Flag]

IoK8sApiCoreV1PhotonPersistentDiskVolumeSource ==
  [fsType |-> Text, pdID |-> Blank]

IoK8sApiCoreV1PodAffinity ==
  [preferredDuringSchedulingIgnoredDuringExecution |-> Many("IoK8sApiCoreV1WeightedPodAffinityTerm"),
   requiredDuringSchedulingIgnoredDuringExecution |-> Many("IoK8sApiCoreV1PodAffinityTerm")]

IoK8sApiCoreV1PodAffinityTerm ==
  [labelSelector |-> One("IoK8sApimachineryPkgApisMetaV1LabelSelector"),
   matchLabelKeys |-> Many("str"), mismatchLabelKeys |-> Many("str"),
   namespaceSelector |-> One("IoK8sApimachineryPkgApisMetaV1LabelSelector"),
   namespaces |-> Many("str"), topologyKey |-> Blank]

IoK8sApiCoreV1PodAntiAffinity ==
  [preferredDuringSchedulingIgnoredDuringExecution |-> Many("IoK8sApiCoreV1WeightedPodAffinityTerm"),
   requiredDuringSchedulingIgnoredDuringExecution |-> Many("IoK8sApiCoreV1PodAffinityTerm")]

IoK8sApiCoreV1PodCertificateProjection ==
  [certificateChainPath |-> Text, credentialBundlePath |-> Text, keyPath |-> Text,
   keyType |-> Need(Text), maxExpirationSeconds |-> Number, signerName |-> Need(Text),
   user |-> Number, userAnnotations |-> Map("str")]

IoK8sApiCoreV1PodDNSConfig ==
  [nameservers |-> Many("str"), options |-> Many("IoK8sApiCoreV1PodDNSConfigOption"),
   searches |-> Many("str")]

IoK8sApiCoreV1PodDNSConfigOption ==
  [name |-> Text, value |-> Text]

IoK8sApiCoreV1PodOS ==
  [name |-> Blank]

IoK8sApiCoreV1PodReadinessGate ==
  [conditionType |-> Blank]

IoK8sApiCoreV1PodResourceClaim ==
  [name |-> Blank, resourceClaimName |-> Text, resourceClaimTemplateName |-> Text]

IoK8sApiCoreV1PodSchedulingGate ==
  [name |-> Blank]

IoK8sApiCoreV1PodSchedulingGroup ==
  [podGroupName |-> Text]

IoK8sApiCoreV1PodSecurityContext ==
  [appArmorProfile |-> One("IoK8sApiCoreV1AppArmorProfile"), fsGroup |-> Number,
   fsGroupChangePolicy |-> Word, runAsGroup |-> Number, runAsNonRoot |-> Flag, runAsUser |-> Number,
   seLinuxChangePolicy |-> Text, seLinuxOptions |-> One("IoK8sApiCoreV1SELinuxOptions"),
   seccompProfile |-> One("IoK8sApiCoreV1SeccompProfile"), supplementalGroups |-> Many("int"),
   supplementalGroupsPolicy |-> Word, sysctls |-> Many("IoK8sApiCoreV1Sysctl"),
   windowsOptions |-> One("IoK8sApiCoreV1WindowsSecurityContextOptions")]

IoK8sApiCoreV1PodSpec ==
  [activeDeadlineSeconds |-> Number, affinity |-> One("IoK8sApiCoreV1Affinity"),
   automountServiceAccountToken |-> Flag, containers |-> Need(Many("IoK8sApiCoreV1Container")),
   dnsConfig |-> One("IoK8sApiCoreV1PodDNSConfig"), dnsPolicy |-> Word, enableServiceLinks |-> Flag,
   ephemeralContainers |-> Many("IoK8sApiCoreV1EphemeralContainer"),
   evictionResponders |-> Many("IoK8sApiCoreV1EvictionResponder"),
   hostAliases |-> Many("IoK8sApiCoreV1HostAlias"), hostIPC |-> Flag, hostNetwork |-> Flag,
   hostPID |-> Flag, hostUsers |-> Flag, hostname |-> Text, hostnameOverride |-> Text,
   imagePullSecrets |-> Many("IoK8sApiCoreV1LocalObjectReference"),
   initContainers |-> Many("IoK8sApiCoreV1Container"), nodeName |-> Text,
   nodeSelector |-> Map("str"), os |-> One("IoK8sApiCoreV1PodOS"),
   overhead |-> Map("IoK8sApimachineryPkgApiResourceQuantity"), preemptionPolicy |-> Word,
   priority |-> Number, priorityClassName |-> Text,
   readinessGates |-> Many("IoK8sApiCoreV1PodReadinessGate"),
   resourceClaims |-> Many("IoK8sApiCoreV1PodResourceClaim"),
   resources |-> One("IoK8sApiCoreV1ResourceRequirements"), restartPolicy |-> Word,
   runtimeClassName |-> Text, schedulerName |-> Text,
   schedulingGates |-> Many("IoK8sApiCoreV1PodSchedulingGate"),
   schedulingGroup |-> One("IoK8sApiCoreV1PodSchedulingGroup"),
   securityContext |-> One("IoK8sApiCoreV1PodSecurityContext"), serviceAccount |-> Text,
   serviceAccountName |-> Text, setHostnameAsFQDN |-> Flag, shareProcessNamespace |-> Flag,
   subdomain |-> Text, terminationGracePeriodSeconds |-> Number,
   tolerations |-> Many("IoK8sApiCoreV1Toleration"),
   topologySpreadConstraints |-> Many("IoK8sApiCoreV1TopologySpreadConstraint"),
   volumes |-> Many("IoK8sApiCoreV1Volume")]

IoK8sApiCoreV1PodTemplateSpec ==
  [metadata |-> One("IoK8sApimachineryPkgApisMetaV1ObjectMeta"),
   spec |-> One("IoK8sApiCoreV1PodSpec")]

IoK8sApiCoreV1PortworxVolumeSource ==
  [fsType |-> Text, readOnly |-> Flag, volumeID |-> Blank]

IoK8sApiCoreV1PreferredSchedulingTerm ==
  [preference |-> Need(One("IoK8sApiCoreV1NodeSelectorTerm")), weight |-> Zero]

IoK8sApiCoreV1Probe ==
  [exec |-> One("IoK8sApiCoreV1ExecAction"), failureThreshold |-> Number,
   grpc |-> One("IoK8sApiCoreV1GRPCAction"), httpGet |-> One("IoK8sApiCoreV1HTTPGetAction"),
   initialDelaySeconds |-> Number, periodSeconds |-> Number, successThreshold |-> Number,
   tcpSocket |-> One("IoK8sApiCoreV1TCPSocketAction"), terminationGracePeriodSeconds |-> Number,
   timeoutSeconds |-> Number]

IoK8sApiCoreV1ProjectedVolumeSource ==
  [defaultMode |-> Number, defaultUser |-> Number,
   sources |-> Many("IoK8sApiCoreV1VolumeProjection")]

IoK8sApiCoreV1QuobyteVolumeSource ==
  [group |-> Text, readOnly |-> Flag, registry |-> Blank, tenant |-> Text, user |-> Text,
   volume |-> Blank]

IoK8sApiCoreV1RBDVolumeSource ==
  [fsType |-> Text, image |-> Blank, keyring |-> Else(Text, "str"), monitors |-> Need(Many("str")),
   pool |-> Else(Text, "str"), readOnly |-> Flag,
   secretRef |-> One("IoK8sApiCoreV1LocalObjectReference"), user |-> Else(Text, "str")]

IoK8sApiCoreV1ResourceClaim ==
  [name |-> Blank, request |-> Text]

IoK8sApiCoreV1ResourceFieldSelector ==
  [containerName |-> Text, divisor |-> One("IoK8sApimachineryPkgApiResourceQuantity"),
   resource |-> Blank]

IoK8sApiCoreV1ResourceRequirements ==
  [claims |-> Many("IoK8sApiCoreV1ResourceClaim"),
   limits |-> Map("IoK8sApimachineryPkgApiResourceQuantity"),
   requests |-> Map("IoK8sApimachineryPkgApiResourceQuantity")]

IoK8sApiCoreV1SELinuxOptions ==
  [level |-> Text, role |-> Text, type |-> Text, user |-> Text]

IoK8sApiCoreV1ScaleIOVolumeSource ==
  [fsType |-> Else(Text, "str"), gateway |-> Blank, protectionDomain |-> Text, readOnly |-> Flag,
   secretRef |-> Need(One("IoK8sApiCoreV1LocalObjectReference")), sslEnabled |-> Flag,
   storageMode |-> Else(Text, "str"), storagePool |-> Text, system |-> Blank, volumeName |-> Text]

IoK8sApiCoreV1SeccompProfile ==
  [localhostProfile |-> Text, type |-> Need(Word)]

IoK8sApiCoreV1SecretEnvSource ==
  [name |-> Else(Text, "empty"), optional |-> Flag]

IoK8sApiCoreV1SecretKeySelector ==
  [key |-> Blank, name |-> Else(Text, "empty"), optional |-> Flag]

IoK8sApiCoreV1SecretProjection ==
  [items |-> Many("IoK8sApiCoreV1KeyToPath"), name |-> Else(Text, "empty"), optional |-> Flag]

IoK8sApiCoreV1SecretVolumeSource ==
  [defaultMode |-> Number, defaultUser |-> Number, items |-> Many("IoK8sApiCoreV1KeyToPath"),
   optional |-> Flag, secretName |-> Text]

IoK8sApiCoreV1SecurityContext ==
  [allowPrivilegeEscalation |-> Flag, appArmorProfile |-> One("IoK8sApiCoreV1AppArmorProfile"),
   capabilities |-> One("IoK8sApiCoreV1Capabilities"), privileged |-> Flag, procMount |-> Word,
   readOnlyRootFilesystem |-> Flag, runAsGroup |-> Number, runAsNonRoot |-> Flag,
   runAsUser |-> Number, seLinuxOptions |-> One("IoK8sApiCoreV1SELinuxOptions"),
   seccompProfile |-> One("IoK8sApiCoreV1SeccompProfile"),
   windowsOptions |-> One("IoK8sApiCoreV1WindowsSecurityContextOptions")]

IoK8sApiCoreV1ServiceAccountTokenProjection ==
  [audience |-> Text, expirationSeconds |-> Number, path |-> Blank, user |-> Number]

IoK8sApiCoreV1SleepAction ==
  [seconds |-> Zero]

IoK8sApiCoreV1StorageOSVolumeSource ==
  [fsType |-> Text, readOnly |-> Flag, secretRef |-> One("IoK8sApiCoreV1LocalObjectReference"),
   volumeName |-> Text, volumeNamespace |-> Text]

IoK8sApiCoreV1Sysctl ==
  [name |-> Blank, value |-> Blank]

IoK8sApiCoreV1TCPSocketAction ==
  [host |-> Text, port |-> Need(One("IoK8sApimachineryPkgUtilIntstrIntOrString"))]

IoK8sApiCoreV1Toleration ==
  [effect |-> Word, key |-> Text, operator |-> Word, tolerationSeconds |-> Number, value |-> Text]

IoK8sApiCoreV1TopologySpreadConstraint ==
  [labelSelector |-> One("IoK8sApimachineryPkgApisMetaV1LabelSelector"),
   matchLabelKeys |-> Many("str"), maxSkew |-> Zero, minDomains |-> Number,
   nodeAffinityPolicy |-> Word, nodeTaintsPolicy |-> Word, topologyKey |-> Blank,
   whenUnsatisfiable |-> Need(Word)]

IoK8sApiCoreV1TypedLocalObjectReference ==
  [apiGroup |-> Text, kind |-> Blank, name |-> Blank]

IoK8sApiCoreV1TypedObjectReference ==
  [apiGroup |-> Text, kind |-> Blank, name |-> Blank, namespace |-> Text]

IoK8sApiCoreV1Volume ==
  [awsElasticBlockStore |-> One("IoK8sApiCoreV1AWSElasticBlockStoreVolumeSource"),
   azureDisk |-> One("IoK8sApiCoreV1AzureDiskVolumeSource"),
   azureFile |-> One("IoK8sApiCoreV1AzureFileVolumeSource"),
   cephfs |-> One("IoK8sApiCoreV1CephFSVolumeSource"),
   cinder |-> One("IoK8sApiCoreV1CinderVolumeSource"),
   configMap |-> One("IoK8sApiCoreV1ConfigMapVolumeSource"),
   csi |-> One("IoK8sApiCoreV1CSIVolumeSource"),
   downwardAPI |-> One("IoK8sApiCoreV1DownwardAPIVolumeSource"),
   emptyDir |-> One("IoK8sApiCoreV1EmptyDirVolumeSource"),
   ephemeral |-> One("IoK8sApiCoreV1EphemeralVolumeSource"),
   fc |-> One("IoK8sApiCoreV1FCVolumeSource"), flexVolume |-> One("IoK8sApiCoreV1FlexVolumeSource"),
   flocker |-> One("IoK8sApiCoreV1FlockerVolumeSource"),
   gcePersistentDisk |-> One("IoK8sApiCoreV1GCEPersistentDiskVolumeSource"),
   gitRepo |-> One("IoK8sApiCoreV1GitRepoVolumeSource"),
   glusterfs |-> One("IoK8sApiCoreV1GlusterfsVolumeSource"),
   hostPath |-> One("IoK8sApiCoreV1HostPathVolumeSource"),
   image |-> One("IoK8sApiCoreV1ImageVolumeSource"),
   iscsi |-> One("IoK8sApiCoreV1ISCSIVolumeSource"), name |-> Blank,
   nfs |-> One("IoK8sApiCoreV1NFSVolumeSource"),
   persistentVolumeClaim |-> One("IoK8sApiCoreV1PersistentVolumeClaimVolumeSource"),
   photonPersistentDisk |-> One("IoK8sApiCoreV1PhotonPersistentDiskVolumeSource"),
   portworxVolume |-> One("IoK8sApiCoreV1PortworxVolumeSource"),
   projected |-> One("IoK8sApiCoreV1ProjectedVolumeSource"),
   quobyte |-> One("IoK8sApiCoreV1QuobyteVolumeSource"),
   rbd |-> One("IoK8sApiCoreV1RBDVolumeSource"),
   scaleIO |-> One("IoK8sApiCoreV1ScaleIOVolumeSource"),
   secret |-> One("IoK8sApiCoreV1SecretVolumeSource"),
   storageos |-> One("IoK8sApiCoreV1StorageOSVolumeSource"),
   vsphereVolume |-> One("IoK8sApiCoreV1VsphereVirtualDiskVolumeSource")]

IoK8sApiCoreV1VolumeDevice ==
  [devicePath |-> Blank, name |-> Blank]

IoK8sApiCoreV1VolumeHealthCondition ==
  [message |-> Text, reason |-> Blank, status |-> Need(Word)]

IoK8sApiCoreV1VolumeHealthStatus ==
  [healthConditions |-> Many("IoK8sApiCoreV1VolumeHealthCondition"), lastTransitionTime |-> Time]

IoK8sApiCoreV1VolumeMount ==
  [bindMountOptions |-> Many("str"), mountPath |-> Blank, mountPropagation |-> Word, name |-> Blank,
   readOnly |-> Flag, recursiveReadOnly |-> Text, subPath |-> Text, subPathExpr |-> Text]

IoK8sApiCoreV1VolumeProjection ==
  [clusterTrustBundle |-> One("IoK8sApiCoreV1ClusterTrustBundleProjection"),
   configMap |-> One("IoK8sApiCoreV1ConfigMapProjection"),
   downwardAPI |-> One("IoK8sApiCoreV1DownwardAPIProjection"),
   podCertificate |-> One("IoK8sApiCoreV1PodCertificateProjection"),
   secret |-> One("IoK8sApiCoreV1SecretProjection"),
   serviceAccountToken |-> One("IoK8sApiCoreV1ServiceAccountTokenProjection")]

IoK8sApiCoreV1VolumeResourceRequirements ==
  [limits |-> Map("IoK8sApimachineryPkgApiResourceQuantity"),
   requests |-> Map("IoK8sApimachineryPkgApiResourceQuantity")]

IoK8sApiCoreV1VsphereVirtualDiskVolumeSource ==
  [fsType |-> Text, storagePolicyID |-> Text, storagePolicyName |-> Text, volumePath |-> Blank]

IoK8sApiCoreV1WeightedPodAffinityTerm ==
  [podAffinityTerm |-> Need(One("IoK8sApiCoreV1PodAffinityTerm")), weight |-> Zero]

IoK8sApiCoreV1WindowsSecurityContextOptions ==
  [gmsaCredentialSpec |-> Text, gmsaCredentialSpecName |-> Text, hostProcess |-> Flag,
   runAsUserName |-> Text]

CoreClasses == [
  IoK8sApiCoreV1AWSElasticBlockStoreVolumeSource |-> IoK8sApiCoreV1AWSElasticBlockStoreVolumeSource,
  IoK8sApiCoreV1Affinity |-> IoK8sApiCoreV1Affinity,
  IoK8sApiCoreV1AppArmorProfile |-> IoK8sApiCoreV1AppArmorProfile,
  IoK8sApiCoreV1AzureDiskVolumeSource |-> IoK8sApiCoreV1AzureDiskVolumeSource,
  IoK8sApiCoreV1AzureFileVolumeSource |-> IoK8sApiCoreV1AzureFileVolumeSource,
  IoK8sApiCoreV1CSIVolumeSource |-> IoK8sApiCoreV1CSIVolumeSource,
  IoK8sApiCoreV1Capabilities |-> IoK8sApiCoreV1Capabilities,
  IoK8sApiCoreV1CephFSVolumeSource |-> IoK8sApiCoreV1CephFSVolumeSource,
  IoK8sApiCoreV1CinderVolumeSource |-> IoK8sApiCoreV1CinderVolumeSource,
  IoK8sApiCoreV1ClusterTrustBundleProjection |-> IoK8sApiCoreV1ClusterTrustBundleProjection,
  IoK8sApiCoreV1ConfigMapEnvSource |-> IoK8sApiCoreV1ConfigMapEnvSource,
  IoK8sApiCoreV1ConfigMapKeySelector |-> IoK8sApiCoreV1ConfigMapKeySelector,
  IoK8sApiCoreV1ConfigMapProjection |-> IoK8sApiCoreV1ConfigMapProjection,
  IoK8sApiCoreV1ConfigMapVolumeSource |-> IoK8sApiCoreV1ConfigMapVolumeSource,
  IoK8sApiCoreV1Container |-> IoK8sApiCoreV1Container,
  IoK8sApiCoreV1ContainerPort |-> IoK8sApiCoreV1ContainerPort,
  IoK8sApiCoreV1ContainerResizePolicy |-> IoK8sApiCoreV1ContainerResizePolicy,
  IoK8sApiCoreV1ContainerRestartRule |-> IoK8sApiCoreV1ContainerRestartRule,
  IoK8sApiCoreV1ContainerRestartRuleOnExitCodes |-> IoK8sApiCoreV1ContainerRestartRuleOnExitCodes,
  IoK8sApiCoreV1DownwardAPIProjection |-> IoK8sApiCoreV1DownwardAPIProjection,
  IoK8sApiCoreV1DownwardAPIVolumeFile |-> IoK8sApiCoreV1DownwardAPIVolumeFile,
  IoK8sApiCoreV1DownwardAPIVolumeSource |-> IoK8sApiCoreV1DownwardAPIVolumeSource,
  IoK8sApiCoreV1EmptyDirVolumeSource |-> IoK8sApiCoreV1EmptyDirVolumeSource,
  IoK8sApiCoreV1EnvFromSource |-> IoK8sApiCoreV1EnvFromSource,
  IoK8sApiCoreV1EnvVar |-> IoK8sApiCoreV1EnvVar,
  IoK8sApiCoreV1EnvVarSource |-> IoK8sApiCoreV1EnvVarSource,
  IoK8sApiCoreV1EphemeralContainer |-> IoK8sApiCoreV1EphemeralContainer,
  IoK8sApiCoreV1EphemeralVolumeSource |-> IoK8sApiCoreV1EphemeralVolumeSource,
  IoK8sApiCoreV1EvictionResponder |-> IoK8sApiCoreV1EvictionResponder,
  IoK8sApiCoreV1ExecAction |-> IoK8sApiCoreV1ExecAction,
  IoK8sApiCoreV1FCVolumeSource |-> IoK8sApiCoreV1FCVolumeSource,
  IoK8sApiCoreV1FileKeySelector |-> IoK8sApiCoreV1FileKeySelector,
  IoK8sApiCoreV1FlexVolumeSource |-> IoK8sApiCoreV1FlexVolumeSource,
  IoK8sApiCoreV1FlockerVolumeSource |-> IoK8sApiCoreV1FlockerVolumeSource,
  IoK8sApiCoreV1GCEPersistentDiskVolumeSource |-> IoK8sApiCoreV1GCEPersistentDiskVolumeSource,
  IoK8sApiCoreV1GRPCAction |-> IoK8sApiCoreV1GRPCAction,
  IoK8sApiCoreV1GitRepoVolumeSource |-> IoK8sApiCoreV1GitRepoVolumeSource,
  IoK8sApiCoreV1GlusterfsVolumeSource |-> IoK8sApiCoreV1GlusterfsVolumeSource,
  IoK8sApiCoreV1HTTPGetAction |-> IoK8sApiCoreV1HTTPGetAction,
  IoK8sApiCoreV1HTTPHeader |-> IoK8sApiCoreV1HTTPHeader,
  IoK8sApiCoreV1HostAlias |-> IoK8sApiCoreV1HostAlias,
  IoK8sApiCoreV1HostPathVolumeSource |-> IoK8sApiCoreV1HostPathVolumeSource,
  IoK8sApiCoreV1ISCSIVolumeSource |-> IoK8sApiCoreV1ISCSIVolumeSource,
  IoK8sApiCoreV1ImageVolumeSource |-> IoK8sApiCoreV1ImageVolumeSource,
  IoK8sApiCoreV1KeyToPath |-> IoK8sApiCoreV1KeyToPath,
  IoK8sApiCoreV1Lifecycle |-> IoK8sApiCoreV1Lifecycle,
  IoK8sApiCoreV1LifecycleHandler |-> IoK8sApiCoreV1LifecycleHandler,
  IoK8sApiCoreV1LocalObjectReference |-> IoK8sApiCoreV1LocalObjectReference,
  IoK8sApiCoreV1ModifyVolumeStatus |-> IoK8sApiCoreV1ModifyVolumeStatus,
  IoK8sApiCoreV1NFSVolumeSource |-> IoK8sApiCoreV1NFSVolumeSource,
  IoK8sApiCoreV1NodeAffinity |-> IoK8sApiCoreV1NodeAffinity,
  IoK8sApiCoreV1NodeSelector |-> IoK8sApiCoreV1NodeSelector,
  IoK8sApiCoreV1NodeSelectorRequirement |-> IoK8sApiCoreV1NodeSelectorRequirement,
  IoK8sApiCoreV1NodeSelectorTerm |-> IoK8sApiCoreV1NodeSelectorTerm,
  IoK8sApiCoreV1ObjectFieldSelector |-> IoK8sApiCoreV1ObjectFieldSelector,
  IoK8sApiCoreV1PersistentVolumeClaim |-> IoK8sApiCoreV1PersistentVolumeClaim,
  IoK8sApiCoreV1PersistentVolumeClaimCondition |-> IoK8sApiCoreV1PersistentVolumeClaimCondition,
  IoK8sApiCoreV1PersistentVolumeClaimSpec |-> IoK8sApiCoreV1PersistentVolumeClaimSpec,
  IoK8sApiCoreV1PersistentVolumeClaimStatus |-> IoK8sApiCoreV1PersistentVolumeClaimStatus,
  IoK8sApiCoreV1PersistentVolumeClaimTemplate |-> IoK8sApiCoreV1PersistentVolumeClaimTemplate,
  IoK8sApiCoreV1PersistentVolumeClaimVolumeSource |-> IoK8sApiCoreV1PersistentVolumeClaimVolumeSource,
  IoK8sApiCoreV1PhotonPersistentDiskVolumeSource |-> IoK8sApiCoreV1PhotonPersistentDiskVolumeSource,
  IoK8sApiCoreV1PodAffinity |-> IoK8sApiCoreV1PodAffinity,
  IoK8sApiCoreV1PodAffinityTerm |-> IoK8sApiCoreV1PodAffinityTerm,
  IoK8sApiCoreV1PodAntiAffinity |-> IoK8sApiCoreV1PodAntiAffinity,
  IoK8sApiCoreV1PodCertificateProjection |-> IoK8sApiCoreV1PodCertificateProjection,
  IoK8sApiCoreV1PodDNSConfig |-> IoK8sApiCoreV1PodDNSConfig,
  IoK8sApiCoreV1PodDNSConfigOption |-> IoK8sApiCoreV1PodDNSConfigOption,
  IoK8sApiCoreV1PodOS |-> IoK8sApiCoreV1PodOS,
  IoK8sApiCoreV1PodReadinessGate |-> IoK8sApiCoreV1PodReadinessGate,
  IoK8sApiCoreV1PodResourceClaim |-> IoK8sApiCoreV1PodResourceClaim,
  IoK8sApiCoreV1PodSchedulingGate |-> IoK8sApiCoreV1PodSchedulingGate,
  IoK8sApiCoreV1PodSchedulingGroup |-> IoK8sApiCoreV1PodSchedulingGroup,
  IoK8sApiCoreV1PodSecurityContext |-> IoK8sApiCoreV1PodSecurityContext,
  IoK8sApiCoreV1PodSpec |-> IoK8sApiCoreV1PodSpec,
  IoK8sApiCoreV1PodTemplateSpec |-> IoK8sApiCoreV1PodTemplateSpec,
  IoK8sApiCoreV1PortworxVolumeSource |-> IoK8sApiCoreV1PortworxVolumeSource,
  IoK8sApiCoreV1PreferredSchedulingTerm |-> IoK8sApiCoreV1PreferredSchedulingTerm,
  IoK8sApiCoreV1Probe |-> IoK8sApiCoreV1Probe,
  IoK8sApiCoreV1ProjectedVolumeSource |-> IoK8sApiCoreV1ProjectedVolumeSource,
  IoK8sApiCoreV1QuobyteVolumeSource |-> IoK8sApiCoreV1QuobyteVolumeSource,
  IoK8sApiCoreV1RBDVolumeSource |-> IoK8sApiCoreV1RBDVolumeSource,
  IoK8sApiCoreV1ResourceClaim |-> IoK8sApiCoreV1ResourceClaim,
  IoK8sApiCoreV1ResourceFieldSelector |-> IoK8sApiCoreV1ResourceFieldSelector,
  IoK8sApiCoreV1ResourceRequirements |-> IoK8sApiCoreV1ResourceRequirements,
  IoK8sApiCoreV1SELinuxOptions |-> IoK8sApiCoreV1SELinuxOptions,
  IoK8sApiCoreV1ScaleIOVolumeSource |-> IoK8sApiCoreV1ScaleIOVolumeSource,
  IoK8sApiCoreV1SeccompProfile |-> IoK8sApiCoreV1SeccompProfile,
  IoK8sApiCoreV1SecretEnvSource |-> IoK8sApiCoreV1SecretEnvSource,
  IoK8sApiCoreV1SecretKeySelector |-> IoK8sApiCoreV1SecretKeySelector,
  IoK8sApiCoreV1SecretProjection |-> IoK8sApiCoreV1SecretProjection,
  IoK8sApiCoreV1SecretVolumeSource |-> IoK8sApiCoreV1SecretVolumeSource,
  IoK8sApiCoreV1SecurityContext |-> IoK8sApiCoreV1SecurityContext,
  IoK8sApiCoreV1ServiceAccountTokenProjection |-> IoK8sApiCoreV1ServiceAccountTokenProjection,
  IoK8sApiCoreV1SleepAction |-> IoK8sApiCoreV1SleepAction,
  IoK8sApiCoreV1StorageOSVolumeSource |-> IoK8sApiCoreV1StorageOSVolumeSource,
  IoK8sApiCoreV1Sysctl |-> IoK8sApiCoreV1Sysctl,
  IoK8sApiCoreV1TCPSocketAction |-> IoK8sApiCoreV1TCPSocketAction,
  IoK8sApiCoreV1Toleration |-> IoK8sApiCoreV1Toleration,
  IoK8sApiCoreV1TopologySpreadConstraint |-> IoK8sApiCoreV1TopologySpreadConstraint,
  IoK8sApiCoreV1TypedLocalObjectReference |-> IoK8sApiCoreV1TypedLocalObjectReference,
  IoK8sApiCoreV1TypedObjectReference |-> IoK8sApiCoreV1TypedObjectReference,
  IoK8sApiCoreV1Volume |-> IoK8sApiCoreV1Volume,
  IoK8sApiCoreV1VolumeDevice |-> IoK8sApiCoreV1VolumeDevice,
  IoK8sApiCoreV1VolumeHealthCondition |-> IoK8sApiCoreV1VolumeHealthCondition,
  IoK8sApiCoreV1VolumeHealthStatus |-> IoK8sApiCoreV1VolumeHealthStatus,
  IoK8sApiCoreV1VolumeMount |-> IoK8sApiCoreV1VolumeMount,
  IoK8sApiCoreV1VolumeProjection |-> IoK8sApiCoreV1VolumeProjection,
  IoK8sApiCoreV1VolumeResourceRequirements |-> IoK8sApiCoreV1VolumeResourceRequirements,
  IoK8sApiCoreV1VsphereVirtualDiskVolumeSource |-> IoK8sApiCoreV1VsphereVirtualDiskVolumeSource,
  IoK8sApiCoreV1WeightedPodAffinityTerm |-> IoK8sApiCoreV1WeightedPodAffinityTerm,
  IoK8sApiCoreV1WindowsSecurityContextOptions |-> IoK8sApiCoreV1WindowsSecurityContextOptions]
==============================================================================
