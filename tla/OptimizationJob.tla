--------------------------- MODULE OptimizationJob ---------------------------
(***************************************************************************)
(* The OptimizationJob controller (pkg/controller/optimizationjob_          *)
(* controller.go): one OptimizationJob, the search algorithm service it    *)
(* runs and the trials, TrainJobs, it creates.                             *)
(*                                                                         *)
(* The controller reads informer caches, which hold some earlier state of  *)
(* the cluster; every API write is a step of its own and may fail.  Trials *)
(* are numbered in the order of their (random) names.                      *)
(***************************************************************************)
EXTENDS Integers, FiniteSets, FiniteSetsExt, Lists

CONSTANTS
  Specs,         \* the specs an OptimizationJob may have: see AllSpecs
  Metrics,       \* the finite values an objective metric may have
  MaxTrials,     \* bound: how many trials the model can hold
  MaxFaults      \* bound: failing calls, outages, restarts, repeated reports,
                 \* and reconciles on a cache that is behind

Missing == -1    \* no metric of that name, or a value that is no finite number
Trials == 1 .. MaxTrials
None == 0        \* no trial

\* Whether the search algorithm is known, the direction of the objective, how many
\* trials there are in all and at a time: "parallelTrials cannot exceed numTrials".
AllSpecs == {s \in [random: BOOLEAN, direction: {"minimize", "maximize"},
                    numTrials: Nat \ {0}, parallelTrials: Nat \ {0}] :
               s.parallelTrials <= s.numTrials}

ASSUME SpecAssumption ==
  /\ Specs \subseteq AllSpecs
  /\ Metrics \subseteq Nat /\ MaxTrials \in Nat /\ MaxFaults \in Nat

VARIABLES
  spec,        \* of the OptimizationJob
  trials,      \* the TrainJobs in the API server, and in the cache
  trialsSeen,
  status,      \* status of the OptimizationJob, and in the cache
  statusSeen,
  deploy,      \* the Deployment of the algorithm service, and in the cache
  deploySeen,
  service,     \* its Service
  ctrl,        \* the reconcile under way
  queued,      \* the OptimizationJob is in the work queue
  faults,      \* faults so far
  missed,      \* a reconcile has listed the trials without the newest
  collided,    \* the random name of a new trial was taken
  revised      \* a metric was reported after its trial had ended

cluster == <<trials, status, deploy, service>>
caches == <<trialsSeen, statusSeen, deploySeen>>
history == <<missed, collided, revised>>
vars == <<spec, cluster, caches, ctrl, queued, faults, history>>

TrialStates == [state: {"None", "Active", "Failed", "Complete"},
                metric: Metrics \union {Missing}, born: 0 .. 1]
NoTrial == [state |-> "None", metric |-> Missing, born |-> 0]
Statuses == [conditions: SUBSET {"Created", "Complete", "Failed"},
             result: Trials \union {None}]
Idle == [pc |-> "Idle", prev |-> [conditions |-> {}, result |-> None],
         next |-> [conditions |-> {}, result |-> None], want |-> 0,
         request |-> FALSE, spawn |-> 0, failed |-> FALSE]

-----------------------------------------------------------------------------
(***************************************************************************)
(* What a reconcile computes from the trials it lists.                     *)
(***************************************************************************)
InState(ts, s) == {t \in Trials : ts[t].state = s}
ActiveTrials(ts) == InState(ts, "Active")

\* GetFinalObjectiveMetric returns no error.
HasMetric(tr) == tr.metric \in Metrics
ValidTrials(ts) == {t \in InState(ts, "Complete") : HasMetric(ts[t])}
FailedTrials(ts) == InState(ts, "Failed") \union (InState(ts, "Complete") \ ValidTrials(ts))
TotalTrials(ts) == Cardinality(Trials \ InState(ts, "None"))

Beats(m, n) == IF spec.direction = "minimize" THEN m < n ELSE m > n

\* Mutant: a tie leaves the earlier item of the list.
BetterKeepsFirst(ts, t, best) == best = None \/ Beats(ts[t].metric, ts[best].metric)

\* The loop of ExtractBestResult: t replaces best.
Better(ts, t, best) ==
  \/ best = None
  \/ Beats(ts[t].metric, ts[best].metric)
  \/ /\ ts[t].metric = ts[best].metric
     /\ \/ ts[t].born < ts[best].born
        \/ ts[t].born = ts[best].born /\ t < best

ExtractBestResult(ts, order) ==
  FoldLeft(LAMBDA best, t : IF Better(ts, t, best) THEN t ELSE best, None, order)

Verdict(s) == s.conditions \intersect {"Complete", "Failed"}
IsJobCompleted(s) == Verdict(s) # {}

\* Mutant: the budget is not cut to what remains.
TrialsToSpawnParallel(ts) == spec.parallelTrials - Cardinality(ActiveTrials(ts))

\* Trials to start: up to parallelTrials at a time, numTrials in all.
TrialsToSpawn(ts) ==
  Min({spec.parallelTrials - Cardinality(ActiveTrials(ts)), spec.numTrials - TotalTrials(ts)})

\* BuildSuggestionRequest has a status for every trial: running, or done with a
\* metric.  A trial that is done without one is an error.
BuildSuggestionRequest(ts) ==
  \A t \in InState(ts, "Complete") \union InState(ts, "Failed") : HasMetric(ts[t])

Goes(pc, condition) == [pc |-> pc, condition |-> condition]
Ended(ts) == TotalTrials(ts) >= spec.numTrials /\ ActiveTrials(ts) = {}

\* Mutant: the running trials are not waited for.
DecideEarly(ts, s) ==
  IF IsJobCompleted(s) THEN Goes("CleanDeploy", {})
  ELSE IF FailedTrials(ts) # {} THEN Goes("Patch", {"Failed"})
  ELSE IF TotalTrials(ts) >= spec.numTrials THEN Goes("Patch", {"Complete"})
  ELSE IF ~spec.random THEN Goes("Patch", {"Failed"})
  ELSE Goes("Deploy", {})

\* Where a reconcile goes once it has counted the trials, and with which condition.
Decide(ts, s) ==
  IF IsJobCompleted(s) THEN Goes("CleanDeploy", {})
  ELSE IF FailedTrials(ts) # {} THEN Goes("Patch", {"Failed"})
  ELSE IF Ended(ts) THEN Goes("Patch", {"Complete"})
  ELSE IF ~spec.random THEN Goes("Patch", {"Failed"})
  ELSE Goes("Deploy", {})

-----------------------------------------------------------------------------
(***************************************************************************)
(* Reconcile.                                                              *)
(***************************************************************************)
Fault == faults < MaxFaults /\ faults' = faults + 1

\* A cache does not have the last writes yet, or not even a trial that was created.
Lagging == trialsSeen # trials \/ statusSeen # status \/ deploySeen # deploy
Misses == InState(trialsSeen, "None") # InState(trials, "None")

\* One reconcile at a time; what it reads is as old as the caches are.  The list of
\* an informer cache has no particular order.
Reconcile ==
  /\ ctrl.pc = "Idle" /\ queued
  /\ missed' = (missed \/ Misses)
  /\ IF Lagging THEN Fault ELSE UNCHANGED faults
  /\ Misses => TotalTrials(trials) + TrialsToSpawn(trialsSeen) <= MaxTrials
  /\ \E order \in SetToSeqs(ValidTrials(trialsSeen)) :
       LET best == ExtractBestResult(trialsSeen, order)
           d == Decide(trialsSeen, statusSeen)
       IN ctrl' = [pc |-> d.pc, prev |-> statusSeen, want |-> TrialsToSpawn(trialsSeen),
                   next |-> [conditions |-> statusSeen.conditions \union d.condition,
                             result |-> IF best = None THEN statusSeen.result ELSE best],
                   request |-> BuildSuggestionRequest(trialsSeen),
                   spawn |-> 0, failed |-> FALSE]
  /\ queued' = FALSE
  /\ UNCHANGED <<spec, cluster, caches, collided, revised>>

\* A call of the reconcile fails: it ends with an error, after the status patch.
Fails ==
  /\ ctrl.pc \in {"Deploy", "Service", "Suggest", "CleanDeploy", "CleanService"}
  /\ Fault
  /\ ctrl' = [ctrl EXCEPT !.pc = "Patch", !.failed = TRUE]
  /\ UNCHANGED <<spec, cluster, caches, queued, history>>

ApplyDeployment ==
  /\ ctrl.pc = "Deploy"
  /\ deploy' = IF deploy = "None" THEN "Starting" ELSE deploy
  /\ ctrl' = [ctrl EXCEPT !.pc = "Service"]
  /\ UNCHANGED <<spec, trials, status, service, caches, queued, faults, history>>

ApplyService ==
  /\ ctrl.pc = "Service"
  /\ service' = TRUE
  /\ queued' = (queued \/ ~service)
  /\ ctrl' = [ctrl EXCEPT !.pc = "Ready"]
  /\ UNCHANGED <<spec, trials, status, deploy, caches, faults, history>>

\* Without an available replica the reconcile ends and waits for an event.
CheckReady ==
  /\ ctrl.pc = "Ready"
  /\ ctrl' = IF deploySeen # "Available" THEN [ctrl EXCEPT !.pc = "Patch"]
             ELSE [ctrl EXCEPT !.next.conditions = @ \union {"Created"},
                               !.pc = IF ctrl.want > 0 THEN "Suggest" ELSE "Patch",
                               !.spawn = ctrl.want]
  /\ UNCHANGED <<spec, cluster, caches, queued, faults, history>>

GetSuggestions ==
  /\ ctrl.pc = "Suggest"
  /\ ctrl' = [ctrl EXCEPT !.pc = IF ctrl.request THEN "Create" ELSE "Patch",
                          !.failed = ~ctrl.request]
  /\ UNCHANGED <<spec, cluster, caches, queued, faults, history>>

\* A random name; the first is as good as any other.
NewNames(ts) ==
  {t \in InState(ts, "None") : InState(ts, "None") = Trials => t = (MaxTrials + 1) \div 2}

\* The second of its creation: that of the last trial, or a later one.
Seconds(ts) == {b \in 0 .. 1 : /\ \A t \in Trials : ts[t].born <= b
                               /\ InState(ts, "None") = Trials => b = 0}

Created(t, b) ==
  trials' = [trials EXCEPT ![t] = [state |-> "Active", metric |-> Missing, born |-> b]]

\* One Create of the loop: it succeeds, fails, succeeds without being answered, or
\* meets a TrainJob of that (random) name, which is no error.  The loop goes on.
CreateTrainJob ==
  /\ ctrl.pc = "Create" /\ ctrl.spawn > 0
  /\ \E outcome \in {"Created", "Failed", "Unanswered", "AlreadyExists"} :
       /\ IF outcome \in {"Created", "Unanswered"}
          THEN \E t \in NewNames(trials), b \in Seconds(trials) : Created(t, b)
          ELSE UNCHANGED trials
       /\ IF outcome = "Created" THEN UNCHANGED faults ELSE Fault
       /\ ctrl' = [ctrl EXCEPT !.spawn = @ - 1,
                               !.failed = @ \/ outcome \in {"Failed", "Unanswered"}]
       /\ collided' = (collided \/ outcome = "AlreadyExists")
  /\ UNCHANGED <<spec, status, deploy, service, caches, queued, missed, revised>>

CreateTrainJobsDone ==
  /\ ctrl.pc = "Create" /\ ctrl.spawn = 0
  /\ ctrl' = [ctrl EXCEPT !.pc = "Patch"]
  /\ UNCHANGED <<spec, cluster, caches, queued, faults, history>>

\* cleanupAlgorithmService.
DeleteDeployment ==
  /\ ctrl.pc = "CleanDeploy"
  /\ deploy' = "None"
  /\ ctrl' = [ctrl EXCEPT !.pc = "CleanService"]
  /\ UNCHANGED <<spec, trials, status, service, caches, queued, faults, history>>

DeleteService ==
  /\ ctrl.pc = "CleanService"
  /\ service' = FALSE
  /\ queued' = (queued \/ service)
  /\ ctrl' = [ctrl EXCEPT !.pc = "Patch"]
  /\ UNCHANGED <<spec, trials, status, deploy, caches, faults, history>>

\* Mutant: the deferred patch drops the error of the reconcile.
PatchDropsError ==
  /\ ctrl.pc = "Patch"
  /\ \E fails \in BOOLEAN :
       /\ IF fails THEN ctrl.next # ctrl.prev /\ Fault ELSE UNCHANGED faults
       /\ status' = IF fails THEN status
                    ELSE [f \in {"conditions", "result"} |->
                            IF ctrl.next[f] # ctrl.prev[f] THEN ctrl.next[f] ELSE status[f]]
       /\ queued' = (queued \/ fails)
  /\ ctrl' = Idle
  /\ UNCHANGED <<spec, trials, deploy, service, caches, history>>

\* The deferred patch.  It is the difference to the status that was read: a changed
\* list of conditions replaces the one in the API server, whatever that holds.
Patch ==
  /\ ctrl.pc = "Patch"
  /\ \E fails \in BOOLEAN :
       /\ IF fails THEN ctrl.next # ctrl.prev /\ Fault ELSE UNCHANGED faults
       /\ status' = IF fails THEN status
                    ELSE [f \in {"conditions", "result"} |->
                            IF ctrl.next[f] # ctrl.prev[f] THEN ctrl.next[f] ELSE status[f]]
       /\ queued' = (queued \/ fails \/ ctrl.failed)
  /\ ctrl' = Idle
  /\ UNCHANGED <<spec, trials, deploy, service, caches, history>>

-----------------------------------------------------------------------------
(***************************************************************************)
(* The informers, a restart of the manager, the Deployment and the trials. *)
(***************************************************************************)
SyncTrials ==
  /\ trialsSeen # trials /\ trialsSeen' = trials /\ queued' = TRUE
  /\ UNCHANGED <<spec, cluster, statusSeen, deploySeen, ctrl, faults, history>>

SyncStatus ==
  /\ statusSeen # status /\ statusSeen' = status /\ queued' = TRUE
  /\ UNCHANGED <<spec, cluster, trialsSeen, deploySeen, ctrl, faults, history>>

\* Mutant: the Deployment is not watched.
SyncDeploymentUnwatched ==
  /\ deploySeen # deploy /\ deploySeen' = deploy /\ UNCHANGED queued
  /\ UNCHANGED <<spec, cluster, trialsSeen, statusSeen, ctrl, faults, history>>

SyncDeployment ==
  /\ deploySeen # deploy /\ deploySeen' = deploy /\ queued' = TRUE
  /\ UNCHANGED <<spec, cluster, trialsSeen, statusSeen, ctrl, faults, history>>

Restart ==
  /\ Fault
  /\ ctrl' = Idle /\ queued' = TRUE
  /\ trialsSeen' = trials /\ statusSeen' = status /\ deploySeen' = deploy
  /\ UNCHANGED <<spec, cluster, history>>

DeploymentAvailable ==
  /\ deploy = "Starting" /\ deploy' = "Available"
  /\ UNCHANGED <<spec, trials, status, service, caches, ctrl, queued, faults, history>>

DeploymentUnavailable ==
  /\ deploy = "Available" /\ deploy' = "Starting" /\ Fault
  /\ UNCHANGED <<spec, trials, status, service, caches, ctrl, queued, history>>

\* A trial ends, with the metric it has reported by then.
TrialEnds ==
  /\ \E t \in ActiveTrials(trials), s \in {"Complete", "Failed"},
        m \in Metrics \union {Missing} :
       /\ s = "Failed" => m = Missing   \* never read
       /\ trials' = [trials EXCEPT ![t] = [state |-> s, metric |-> m, born |-> @.born]]
  /\ UNCHANGED <<spec, status, deploy, service, caches, ctrl, queued, faults, history>>

\* The status server accepts a report after the end too.
LateReport ==
  /\ \E t \in InState(trials, "Complete"), m \in Metrics \union {Missing} :
       /\ trials[t].metric # m
       /\ trials' = [trials EXCEPT ![t] = [state |-> @.state, metric |-> m, born |-> @.born]]
       /\ IF trials[t].metric = Missing THEN UNCHANGED faults ELSE Fault
  /\ revised' = TRUE
  /\ UNCHANGED <<spec, status, deploy, service, caches, ctrl, queued, missed, collided>>

-----------------------------------------------------------------------------
Init ==
  /\ spec \in Specs
  /\ trials = [t \in Trials |-> NoTrial] /\ trialsSeen = trials
  /\ status = [conditions |-> {}, result |-> None] /\ statusSeen = status
  /\ deploy = "None" /\ deploySeen = "None" /\ service = FALSE
  /\ ctrl = Idle /\ queued = TRUE /\ faults = 0
  /\ missed = FALSE /\ collided = FALSE /\ revised = FALSE

Controller ==
  \/ Reconcile \/ ApplyDeployment \/ ApplyService \/ CheckReady \/ GetSuggestions
  \/ CreateTrainJob \/ CreateTrainJobsDone \/ DeleteDeployment \/ DeleteService \/ Patch

Next ==
  \/ Controller \/ Fails \/ Restart
  \/ SyncTrials \/ SyncStatus \/ SyncDeployment
  \/ DeploymentAvailable \/ DeploymentUnavailable \/ TrialEnds \/ LateReport

Spec == Init /\ [][Next]_vars

\* The manager keeps working and its informers catch up, the Deployment becomes
\* available and the trials end.
FairSpec ==
  /\ Spec
  /\ WF_vars(Controller) /\ WF_vars(SyncTrials) /\ WF_vars(SyncStatus)
  /\ WF_vars(SyncDeployment) /\ WF_vars(DeploymentAvailable) /\ WF_vars(TrialEnds)

-----------------------------------------------------------------------------
\* "numTrials is the total number of trials to run" and "parallelTrials is the
\* number of trials to run in parallel": never more are created, whatever fails in
\* the loop of createTrainJobs, wherever the manager restarts, and however late it
\* learns of the end of a trial.  Only a list without a trial that was created leads
\* to "over-spawning trials due to cache sync delays", the TODO before createTrainJobs.
TrialBudget ==
  ~missed => /\ TotalTrials(trials) <= spec.numTrials
             /\ Cardinality(ActiveTrials(trials)) <= spec.parallelTrials

\* Complete is "the status condition type indicating all trials finished
\* successfully": none of the trials is running or failed then, unless a list missed
\* one of them.
CompleteMeansFinished ==
  "Complete" \in status.conditions /\ ~missed =>
    /\ ActiveTrials(trials) = {} /\ InState(trials, "Failed") = {}
    /\ TotalTrials(trials) >= spec.numTrials

\* A terminal condition is never taken back, nor joined by the other.  isJobCompleted
\* alone does not see to it: a reconcile that has not seen the condition yet decides
\* again, and its merge patch replaces the whole list of conditions.  It decides the
\* same as long as no trial was missed and no metric came after the end of its trial.
TerminalSticky ==
  [][IsJobCompleted(status) /\ ~missed /\ ~revised =>
     Verdict(status') = Verdict(status)]_vars

\* The system is at rest: nothing is queued and the caches are current.
Settled ==
  /\ ctrl.pc = "Idle" /\ ~queued
  /\ trialsSeen = trials /\ statusSeen = status /\ deploySeen = deploy

\* At rest the result is the trial with the best metric, the oldest of them, the
\* first by name of those: it does not depend on the order of the list, or on what
\* was reported late (ExtractBestResult, "Continuous Best Result Tracking").
IsBest(ts, t) ==
  /\ t \in ValidTrials(ts)
  /\ \A u \in ValidTrials(ts) \ {t} :
       \/ spec.direction = "minimize" /\ ts[t].metric < ts[u].metric
       \/ spec.direction = "maximize" /\ ts[t].metric > ts[u].metric
       \/ ts[t].metric = ts[u].metric /\ ts[t].born < ts[u].born
       \/ ts[t].metric = ts[u].metric /\ ts[t].born = ts[u].born /\ t < u
ResultIsBest ==
  Settled /\ ValidTrials(trials) # {} => IsBest(trials, status.result)

\* At rest an OptimizationJob that has ended runs no algorithm service, whichever of
\* the two deletes or the status patch failed (cleanupAlgorithmService).
CleanedUp == Settled /\ IsJobCompleted(status) => deploy = "None" /\ ~service

\* The OptimizationJob ends, and its service goes away, however often calls fail and
\* however old a reconcile's caches are.  A new trial whose random name is taken is
\* neither created nor an error: nothing calls the reconcile again then.
Ends == <>[](collided \/ (IsJobCompleted(status) /\ deploy = "None" /\ ~service))
=============================================================================
