--------------------------- MODULE CacheInitializer ---------------------------
(***************************************************************************)
(* The dataset initializer for the data cache: a Pod that creates the      *)
(* ServiceAccount, the LeaderWorkerSet and the Service of the TrainJob's   *)
(* cache cluster and waits until the cluster is available.  Every call of  *)
(* the API server is one step.  The Pod may be killed between any two of   *)
(* them and start again; the process exits 0 on success and on every       *)
(* ApiException it catches, and the trainer starts on exit 0.              *)
(***************************************************************************)
EXTENDS Integers

CONSTANTS
  MaxRestarts,    \* times the initializer's Pod is killed and started again
  MaxFaults,      \* API calls answered with an error other than 404 and 409
  MaxRecreations  \* times the TrainJob is deleted and created under its name

ASSUME InitializerAssumption ==
  MaxRestarts \in Nat /\ MaxFaults \in Nat /\ MaxRecreations \in Nat

Kinds == {"ServiceAccount", "LeaderWorkerSet", "Service"}
Exited == {"completed", "gaveup"}
Steps == {"get", "ServiceAccount", "LeaderWorkerSet", "Service", "wait", "cleanup"} \cup Exited

VARIABLES
  job,       \* the uid of the TrainJob
  owner,     \* object -> uid of the TrainJob in its ownerReferences (0: no object)
  available, \* the LeaderWorkerSet's Available condition
  ref,       \* the process's owner_ref_dict (0: not read yet)
  pc,        \* the call the process makes next, or how it ended
  restarts, faults

vars == <<job, owner, available, ref, pc, restarts, faults>>

Init ==
  /\ job = 1 /\ owner = [k \in Kinds |-> 0] /\ available = FALSE
  /\ ref = 0 /\ pc = "get" /\ restarts = 0 /\ faults = 0

-----------------------------------------------------------------------------
GetTrainJob ==
  /\ pc = "get"
  /\ ref' = job /\ pc' = "ServiceAccount"
  /\ UNCHANGED <<job, owner, available, restarts, faults>>

CreateOrGiveUp(kind, next) ==
  /\ pc = kind
  /\ IF owner[kind] = 0
       THEN owner' = [owner EXCEPT ![kind] = ref] /\ pc' = next
       ELSE owner' = owner /\ pc' = "cleanup"
  /\ UNCHANGED <<job, available, ref, restarts, faults>>

CreateOrSkip(kind, next) ==
  /\ pc = kind
  /\ owner' = IF owner[kind] = 0 THEN [owner EXCEPT ![kind] = ref] ELSE owner
  /\ pc' = next
  /\ UNCHANGED <<job, available, ref, restarts, faults>>

CreateServiceAccount == CreateOrSkip("ServiceAccount", "LeaderWorkerSet")

CreateLeaderWorkerSetSkips == CreateOrSkip("LeaderWorkerSet", "wait")

\* A LeaderWorkerSet that exists already is an ApiException like any other.
CreateLeaderWorkerSet == CreateOrGiveUp("LeaderWorkerSet", "Service")

CreateService == CreateOrSkip("Service", "wait")

\* The poll goes on until the set is available; there is no deadline.
PollLeaderWorkerSet ==
  /\ pc = "wait" /\ available
  /\ pc' = "completed"
  /\ UNCHANGED <<job, owner, available, ref, restarts, faults>>

CleanupRetries ==
  /\ pc = "cleanup"
  /\ owner' = [owner EXCEPT !["ServiceAccount"] = 0]
  /\ pc' = "get"
  /\ UNCHANGED <<job, available, ref, restarts, faults>>

\* The handler of every ApiException after the TrainJob was read.
Cleanup ==
  /\ pc = "cleanup"
  /\ owner' = [owner EXCEPT !["ServiceAccount"] = 0]
  /\ pc' = "gaveup"
  /\ UNCHANGED <<job, available, ref, restarts, faults>>

\* Reading the TrainJob fails: return.  A later call fails: clean up.  The
\* clean-up fails: log it and return.
CallFails ==
  /\ pc \notin Exited /\ faults < MaxFaults
  /\ faults' = faults + 1
  /\ pc' = IF pc \in {"get", "cleanup"} THEN "gaveup" ELSE "cleanup"
  /\ UNCHANGED <<job, owner, available, ref, restarts>>

-----------------------------------------------------------------------------
(* The rest of the cluster.                                                *)

\* A killed container, an evicted Pod, a TrainJob suspended and resumed, or an
\* exception the process does not catch.
Restart ==
  /\ pc \notin Exited /\ restarts < MaxRestarts
  /\ restarts' = restarts + 1 /\ pc' = "get" /\ ref' = 0
  /\ UNCHANGED <<job, owner, available, faults>>

\* The cache's Pods can only be created when their ServiceAccount exists.
BecomesAvailable ==
  /\ ~available /\ owner["LeaderWorkerSet"] # 0 /\ owner["ServiceAccount"] # 0
  /\ available' = TRUE
  /\ UNCHANGED <<job, owner, ref, pc, restarts, faults>>

\* The TrainJob is deleted, its initializer with it, and created again.
Recreate ==
  /\ job <= MaxRecreations
  /\ job' = job + 1 /\ pc' = "get" /\ ref' = 0
  /\ UNCHANGED <<owner, available, restarts, faults>>

\* The garbage collector removes what a deleted TrainJob owned, in any order.
Collect(kind) ==
  /\ owner[kind] \notin {0, job}
  /\ owner' = [owner EXCEPT ![kind] = 0]
  /\ available' = (available /\ kind # "LeaderWorkerSet")
  /\ UNCHANGED <<job, ref, pc, restarts, faults>>

Process ==
  \/ GetTrainJob \/ CreateServiceAccount \/ CreateLeaderWorkerSet \/ CreateService
  \/ PollLeaderWorkerSet \/ Cleanup

Next ==
  \/ Process \/ CallFails \/ Restart \/ BecomesAvailable \/ Recreate
  \/ \E k \in Kinds : Collect(k)

Spec == Init /\ [][Next]_vars

-----------------------------------------------------------------------------
(* The calls the process makes, its owner reference and the objects it     *)
(* creates range over their types.                                         *)
TypeOK ==
  /\ job \in 1..(MaxRecreations + 1)
  /\ owner \in [Kinds -> 0..job] /\ available \in BOOLEAN
  /\ ref \in {0, job} /\ pc \in Steps
  /\ restarts \in 0..MaxRestarts /\ faults \in 0..MaxFaults

(* "Cache cluster creation completed" is only logged with the whole        *)
(* cluster there, and it stays there: ServiceAccount, Service and          *)
(* available LeaderWorkerSet, whatever failed or restarted on the way      *)
(* (download_dataset's calls, and the ones it skips as already made).      *)
(* Leftovers of an earlier TrainJob of that name are not excluded.         *)
CompletedMeansServed ==
  pc = "completed" /\ job = 1 => available /\ \A k \in Kinds : owner[k] # 0

(* A Service that exists, from an earlier start that was killed after      *)
(* creating it, must not trigger the cleanup of the ServiceAccount when no *)
(* call is answered with an error of the API server                        *)
(* (test_download_dataset_service_already_exists).                         *)
RestartIsIdempotent ==
  faults = 0 /\ job = 1 /\ owner["Service"] # 0 => pc # "cleanup"
=============================================================================
