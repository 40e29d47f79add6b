------------------------------- MODULE ApiMeta -------------------------------
(***************************************************************************)
(* The classes of api/python_api/kubeflow_trainer_api/models for the       *)
(* meta/v1 types every Kubernetes object and list uses: each is its        *)
(* fields, under the names they have in a document, with how from_dict     *)
(* reads them (ApiField).                                                  *)
(***************************************************************************)
EXTENDS ApiField

IoK8sApimachineryPkgApisMetaV1APIGroup ==
  [apiVersion |-> Text, kind |-> Text, name |-> Blank,
   preferredVersion |-> One("IoK8sApimachineryPkgApisMetaV1GroupVersionForDiscovery"),
   serverAddressByClientCIDRs |-> Many("IoK8sApimachineryPkgApisMetaV1ServerAddressByClientCIDR"),
   versions |-> Need(Many("IoK8sApimachineryPkgApisMetaV1GroupVersionForDiscovery"))]

IoK8sApimachineryPkgApisMetaV1APIGroupList ==
  [apiVersion |-> Text, groups |-> Need(Many("IoK8sApimachineryPkgApisMetaV1APIGroup")),
   kind |-> Text]

IoK8sApimachineryPkgApisMetaV1APIResource ==
  [categories |-> Many("str"), group |-> Text, kind |-> Blank, name |-> Blank, namespaced |-> Off,
   shortNames |-> Many("str"), singularName |-> Blank, storageVersionHash |-> Text,
   verbs |-> Need(Many("str")), version |-> Text]

IoK8sApimachineryPkgApisMetaV1APIResourceList ==
  [apiVersion |-> Text, groupVersion |-> Blank, kind |-> Text,
   resources |-> Need(Many("IoK8sApimachineryPkgApisMetaV1APIResource"))]

IoK8sApimachineryPkgApisMetaV1APIVersions ==
  [apiVersion |-> Text, kind |-> Text,
   serverAddressByClientCIDRs |-> Need(Many("IoK8sApimachineryPkgApisMetaV1ServerAddressByClientCIDR")),
   versions |-> Need(Many("str"))]

IoK8sApimachineryPkgApisMetaV1ApplyOptions ==
  [apiVersion |-> Text, dryRun |-> Many("str"), fieldManager |-> Blank, force |-> Off,
   kind |-> Text]

IoK8sApimachineryPkgApisMetaV1Condition ==
  [lastTransitionTime |-> Need(Time), message |-> Blank, observedGeneration |-> Number,
   reason |-> Blank, status |-> Blank, type |-> Blank]

IoK8sApimachineryPkgApisMetaV1CreateOptions ==
  [apiVersion |-> Text, dryRun |-> Many("str"), fieldManager |-> Text, fieldValidation |-> Text,
   kind |-> Text]

IoK8sApimachineryPkgApisMetaV1DeleteOptions ==
  [apiVersion |-> Text, dryRun |-> Many("str"), gracePeriodSeconds |-> Number,
   ignoreStoreReadErrorWithClusterBreakingPotential |-> Flag, kind |-> Text,
   orphanDependents |-> Flag, preconditions |-> One("IoK8sApimachineryPkgApisMetaV1Preconditions"),
   propagationPolicy |-> Text]

IoK8sApimachineryPkgApisMetaV1FieldSelectorRequirement ==
  [key |-> Blank, operator |-> Blank, values |-> Many("str")]

IoK8sApimachineryPkgApisMetaV1GetOptions ==
  [apiVersion |-> Text, kind |-> Text, resourceVersion |-> Text]

IoK8sApimachineryPkgApisMetaV1GroupKind ==
  [group |-> Blank, kind |-> Blank]

IoK8sApimachineryPkgApisMetaV1GroupResource ==
  [group |-> Blank, resource |-> Blank]

IoK8sApimachineryPkgApisMetaV1GroupVersion ==
  [group |-> Blank, version |-> Blank]

IoK8sApimachineryPkgApisMetaV1GroupVersionForDiscovery ==
  [groupVersion |-> Blank, version |-> Blank]

IoK8sApimachineryPkgApisMetaV1GroupVersionKind ==
  [group |-> Blank, kind |-> Blank, version |-> Blank]

IoK8sApimachineryPkgApisMetaV1GroupVersionResource ==
  [group |-> Blank, resource |-> Blank, version |-> Blank]

IoK8sApimachineryPkgApisMetaV1InternalEvent ==
  [Object |-> Nullable, Type |-> Blank]

IoK8sApimachineryPkgApisMetaV1LabelSelector ==
  [matchExpressions |-> Many("IoK8sApimachineryPkgApisMetaV1LabelSelectorRequirement"),
   matchLabels |-> Map("str")]

IoK8sApimachineryPkgApisMetaV1LabelSelectorRequirement ==
  [key |-> Blank, operator |-> Blank, values |-> Many("str")]

IoK8sApimachineryPkgApisMetaV1List ==
  [apiVersion |-> Text, items |-> Need(Many("json")), kind |-> Text,
   metadata |-> One("IoK8sApimachineryPkgApisMetaV1ListMeta")]

IoK8sApimachineryPkgApisMetaV1ListMeta ==
  [continue |-> Text, remainingItemCount |-> Number, resourceVersion |-> Text, selfLink |-> Text,
   shardInfo |-> One("IoK8sApimachineryPkgApisMetaV1ShardInfo")]

IoK8sApimachineryPkgApisMetaV1ListOptions ==
  [allowWatchBookmarks |-> Flag, apiVersion |-> Text, continue |-> Text, fieldSelector |-> Text,
   kind |-> Text, labelSelector |-> Text, limit |-> Number, resourceVersion |-> Text,
   resourceVersionMatch |-> Text, sendInitialEvents |-> Flag, shardSelector |-> Text,
   timeoutSeconds |-> Number, watch |-> Flag]

IoK8sApimachineryPkgApisMetaV1ManagedFieldsEntry ==
  [apiVersion |-> Text, fieldsType |-> Text, fieldsV1 |-> Json, manager |-> Text,
   operation |-> Text, subresource |-> Text, time |-> Time]

IoK8sApimachineryPkgApisMetaV1ObjectMeta ==
  [annotations |-> Map("str"), creationTimestamp |-> Time, deletionGracePeriodSeconds |-> Number,
   deletionTimestamp |-> Time, finalizers |-> Many("str"), generateName |-> Text,
   generation |-> Number, labels |-> Map("str"),
   managedFields |-> Many("IoK8sApimachineryPkgApisMetaV1ManagedFieldsEntry"), name |-> Text,
   namespace |-> Text, ownerReferences |-> Many("IoK8sApimachineryPkgApisMetaV1OwnerReference"),
   resourceVersion |-> Text, selfLink |-> Text, uid |-> Text]

IoK8sApimachineryPkgApisMetaV1OwnerReference ==
  [apiVersion |-> Blank, blockOwnerDeletion |-> Flag, controller |-> Flag, kind |-> Blank,
   name |-> Blank, uid |-> Blank]

IoK8sApimachineryPkgApisMetaV1PartialObjectMetadata ==
  [apiVersion |-> Text, kind |-> Text, metadata |-> One("IoK8sApimachineryPkgApisMetaV1ObjectMeta")]

IoK8sApimachineryPkgApisMetaV1PartialObjectMetadataList ==
  [apiVersion |-> Text, items |-> Need(Many("IoK8sApimachineryPkgApisMetaV1PartialObjectMetadata")),
   kind |-> Text, metadata |-> One("IoK8sApimachineryPkgApisMetaV1ListMeta")]

IoK8sApimachineryPkgApisMetaV1PatchOptions ==
  [apiVersion |-> Text, dryRun |-> Many("str"), fieldManager |-> Text, fieldValidation |-> Text,
   force |-> Flag, kind |-> Text]

IoK8sApimachineryPkgApisMetaV1Preconditions ==
  [resourceVersion |-> Text, uid |-> Text]

IoK8sApimachineryPkgApisMetaV1RootPaths ==
  [paths |-> Need(Many("str"))]

IoK8sApimachineryPkgApisMetaV1ServerAddressByClientCIDR ==
  [clientCIDR |-> Blank, serverAddress |-> Blank]

IoK8sApimachineryPkgApisMetaV1ShardInfo ==
  [selector |-> Blank]

IoK8sApimachineryPkgApisMetaV1Status ==
  [apiVersion |-> Text, code |-> Number,
   details |-> One("IoK8sApimachineryPkgApisMetaV1StatusDetails"), kind |-> Text, message |-> Text,
   metadata |-> One("IoK8sApimachineryPkgApisMetaV1ListMeta"), reason |-> Text, status |-> Text]

IoK8sApimachineryPkgApisMetaV1StatusCause ==
  [field |-> Text, message |-> Text, reason |-> Text]

IoK8sApimachineryPkgApisMetaV1StatusDetails ==
  [causes |-> Many("IoK8sApimachineryPkgApisMetaV1StatusCause"), group |-> Text, kind |-> Text,
   name |-> Text, retryAfterSeconds |-> Number, uid |-> Text]

IoK8sApimachineryPkgApisMetaV1Table ==
  [apiVersion |-> Text,
   columnDefinitions |-> Need(Many("IoK8sApimachineryPkgApisMetaV1TableColumnDefinition")),
   kind |-> Text, metadata |-> One("IoK8sApimachineryPkgApisMetaV1ListMeta"),
   rows |-> Need(Many("IoK8sApimachineryPkgApisMetaV1TableRow"))]

IoK8sApimachineryPkgApisMetaV1TableColumnDefinition ==
  [description |-> Blank, format |-> Blank, name |-> Blank, priority |-> Zero, type |-> Blank]

IoK8sApimachineryPkgApisMetaV1TableOptions ==
  [apiVersion |-> Text, includeObject |-> Text, kind |-> Text]

IoK8sApimachineryPkgApisMetaV1TableRow ==
  [cells |-> Need(Many("json")),
   conditions |-> Many("IoK8sApimachineryPkgApisMetaV1TableRowCondition"), object |-> Json]

IoK8sApimachineryPkgApisMetaV1TableRowCondition ==
  [message |-> Text, reason |-> Text, status |-> Blank, type |-> Blank]

IoK8sApimachineryPkgApisMetaV1Timestamp ==
  [nanos |-> Zero, seconds |-> Zero]

IoK8sApimachineryPkgApisMetaV1TypeMeta ==
  [apiVersion |-> Text, kind |-> Text]

IoK8sApimachineryPkgApisMetaV1UpdateOptions ==
  [apiVersion |-> Text, dryRun |-> Many("str"), fieldManager |-> Text, fieldValidation |-> Text,
   kind |-> Text]

IoK8sApimachineryPkgApisMetaV1WatchEvent ==
  [object |-> Need(Json), type |-> Blank]

IoK8sApimachineryPkgRuntimeTypeMeta ==
  [apiVersion |-> Text, kind |-> Text]

IoK8sApimachineryPkgRuntimeUnknown ==
  [ContentEncoding |-> Blank, ContentType |-> Blank, apiVersion |-> Text, kind |-> Text]

MetaClasses == [
  IoK8sApimachineryPkgApisMetaV1APIGroup |-> IoK8sApimachineryPkgApisMetaV1APIGroup,
  IoK8sApimachineryPkgApisMetaV1APIGroupList |-> IoK8sApimachineryPkgApisMetaV1APIGroupList,
  IoK8sApimachineryPkgApisMetaV1APIResource |-> IoK8sApimachineryPkgApisMetaV1APIResource,
  IoK8sApimachineryPkgApisMetaV1APIResourceList |-> IoK8sApimachineryPkgApisMetaV1APIResourceList,
  IoK8sApimachineryPkgApisMetaV1APIVersions |-> IoK8sApimachineryPkgApisMetaV1APIVersions,
  IoK8sApimachineryPkgApisMetaV1ApplyOptions |-> IoK8sApimachineryPkgApisMetaV1ApplyOptions,
  IoK8sApimachineryPkgApisMetaV1Condition |-> IoK8sApimachineryPkgApisMetaV1Condition,
  IoK8sApimachineryPkgApisMetaV1CreateOptions |-> IoK8sApimachineryPkgApisMetaV1CreateOptions,
  IoK8sApimachineryPkgApisMetaV1DeleteOptions |-> IoK8sApimachineryPkgApisMetaV1DeleteOptions,
  IoK8sApimachineryPkgApisMetaV1FieldSelectorRequirement |-> IoK8sApimachineryPkgApisMetaV1FieldSelectorRequirement,
  IoK8sApimachineryPkgApisMetaV1GetOptions |-> IoK8sApimachineryPkgApisMetaV1GetOptions,
  IoK8sApimachineryPkgApisMetaV1GroupKind |-> IoK8sApimachineryPkgApisMetaV1GroupKind,
  IoK8sApimachineryPkgApisMetaV1GroupResource |-> IoK8sApimachineryPkgApisMetaV1GroupResource,
  IoK8sApimachineryPkgApisMetaV1GroupVersion |-> IoK8sApimachineryPkgApisMetaV1GroupVersion,
  IoK8sApimachineryPkgApisMetaV1GroupVersionForDiscovery |-> IoK8sApimachineryPkgApisMetaV1GroupVersionForDiscovery,
  IoK8sApimachineryPkgApisMetaV1GroupVersionKind |-> IoK8sApimachineryPkgApisMetaV1GroupVersionKind,
  IoK8sApimachineryPkgApisMetaV1GroupVersionResource |-> IoK8sApimachineryPkgApisMetaV1GroupVersionResource,
  IoK8sApimachineryPkgApisMetaV1InternalEvent |-> IoK8sApimachineryPkgApisMetaV1InternalEvent,
  IoK8sApimachineryPkgApisMetaV1LabelSelector |-> IoK8sApimachineryPkgApisMetaV1LabelSelector,
  IoK8sApimachineryPkgApisMetaV1LabelSelectorRequirement |-> IoK8sApimachineryPkgApisMetaV1LabelSelectorRequirement,
  IoK8sApimachineryPkgApisMetaV1List |-> IoK8sApimachineryPkgApisMetaV1List,
  IoK8sApimachineryPkgApisMetaV1ListMeta |-> IoK8sApimachineryPkgApisMetaV1ListMeta,
  IoK8sApimachineryPkgApisMetaV1ListOptions |-> IoK8sApimachineryPkgApisMetaV1ListOptions,
  IoK8sApimachineryPkgApisMetaV1ManagedFieldsEntry |-> IoK8sApimachineryPkgApisMetaV1ManagedFieldsEntry,
  IoK8sApimachineryPkgApisMetaV1ObjectMeta |-> IoK8sApimachineryPkgApisMetaV1ObjectMeta,
  IoK8sApimachineryPkgApisMetaV1OwnerReference |-> IoK8sApimachineryPkgApisMetaV1OwnerReference,
  IoK8sApimachineryPkgApisMetaV1PartialObjectMetadata |-> IoK8sApimachineryPkgApisMetaV1PartialObjectMetadata,
  IoK8sApimachineryPkgApisMetaV1PartialObjectMetadataList |-> IoK8sApimachineryPkgApisMetaV1PartialObjectMetadataList,
  IoK8sApimachineryPkgApisMetaV1PatchOptions |-> IoK8sApimachineryPkgApisMetaV1PatchOptions,
  IoK8sApimachineryPkgApisMetaV1Preconditions |-> IoK8sApimachineryPkgApisMetaV1Preconditions,
  IoK8sApimachineryPkgApisMetaV1RootPaths |-> IoK8sApimachineryPkgApisMetaV1RootPaths,
  IoK8sApimachineryPkgApisMetaV1ServerAddressByClientCIDR |-> IoK8sApimachineryPkgApisMetaV1ServerAddressByClientCIDR,
  IoK8sApimachineryPkgApisMetaV1ShardInfo |-> IoK8sApimachineryPkgApisMetaV1ShardInfo,
  IoK8sApimachineryPkgApisMetaV1Status |-> IoK8sApimachineryPkgApisMetaV1Status,
  IoK8sApimachineryPkgApisMetaV1StatusCause |-> IoK8sApimachineryPkgApisMetaV1StatusCause,
  IoK8sApimachineryPkgApisMetaV1StatusDetails |-> IoK8sApimachineryPkgApisMetaV1StatusDetails,
  IoK8sApimachineryPkgApisMetaV1Table |-> IoK8sApimachineryPkgApisMetaV1Table,
  IoK8sApimachineryPkgApisMetaV1TableColumnDefinition |-> IoK8sApimachineryPkgApisMetaV1TableColumnDefinition,
  IoK8sApimachineryPkgApisMetaV1TableOptions |-> IoK8sApimachineryPkgApisMetaV1TableOptions,
  IoK8sApimachineryPkgApisMetaV1TableRow |-> IoK8sApimachineryPkgApisMetaV1TableRow,
  IoK8sApimachineryPkgApisMetaV1TableRowCondition |-> IoK8sApimachineryPkgApisMetaV1TableRowCondition,
  IoK8sApimachineryPkgApisMetaV1Timestamp |-> IoK8sApimachineryPkgApisMetaV1Timestamp,
  IoK8sApimachineryPkgApisMetaV1TypeMeta |-> IoK8sApimachineryPkgApisMetaV1TypeMeta,
  IoK8sApimachineryPkgApisMetaV1UpdateOptions |-> IoK8sApimachineryPkgApisMetaV1UpdateOptions,
  IoK8sApimachineryPkgApisMetaV1WatchEvent |-> IoK8sApimachineryPkgApisMetaV1WatchEvent,
  IoK8sApimachineryPkgRuntimeTypeMeta |-> IoK8sApimachineryPkgRuntimeTypeMeta,
  IoK8sApimachineryPkgRuntimeUnknown |-> IoK8sApimachineryPkgRuntimeUnknown]
==============================================================================
