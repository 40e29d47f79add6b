---------------------------- MODULE MCApiModels ----------------------------
(***************************************************************************)
(* Every class of the four schema modules; the client edits classes of the *)
(* Trainer API that have between them fields of every form.                *)
(***************************************************************************)
EXTENDS ApiModels, ApiValues, ApiMeta, ApiCore, ApiWorkloads, ApiTrainer

MCClasses == MetaClasses @@ CoreClasses @@ WorkloadClasses @@ TrainerClasses
MCKinds == DOMAIN MCClasses
MCEdited ==
  {"TrainerV1alpha1TrainJobSpec", "TrainerV1alpha1RuntimePatch", "TrainerV1alpha1RuntimeRef",
   "TrainerV1alpha1ContainerPatch", "TrainerV1alpha1OptimizationJobSpec",
   "TrainerV1alpha1Algorithm", "TrainerV1alpha1EnvInjectionTarget",
   "TrainerV1alpha1TrainerStatus"}
=============================================================================
