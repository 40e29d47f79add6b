------------------------ MODULE OptimizationJobProofs ------------------------
(***************************************************************************)
(* The trial budget, the verdict, the result and the cleanup of an         *)
(* OptimizationJob, for every spec and any number of trials and faults,    *)
(* however far the caches of a reconcile are behind.                       *)
(***************************************************************************)
EXTENDS OptimizationJob, InductionLemmas

Before == {"Deploy", "Service", "Ready", "Suggest"}   \* the trials are created
After == {"CleanDeploy", "CleanService", "Patch"}     \* nothing is created any more

\* How many trials the reconcile under way may still create.
Spawns == IF ctrl.pc \in Before THEN ctrl.want
          ELSE IF ctrl.pc = "Create" THEN ctrl.spawn ELSE 0

Steps == Before \union {"Idle", "Create"} \union After

\* As much of the types as the argument needs.
TypesInv ==
  /\ trials \in [Trials -> TrialStates] /\ trialsSeen \in [Trials -> TrialStates]
  /\ spec \in AllSpecs /\ missed \in BOOLEAN /\ revised \in BOOLEAN
  /\ ctrl.want \in Int /\ ctrl.spawn \in Int /\ ctrl.pc \in Steps
  /\ ctrl = [pc |-> ctrl.pc, prev |-> ctrl.prev, next |-> ctrl.next, want |-> ctrl.want,
             request |-> ctrl.request, spawn |-> ctrl.spawn, failed |-> ctrl.failed]
  /\ ctrl.next = [conditions |-> ctrl.next.conditions, result |-> ctrl.next.result]
  /\ ctrl.pc = "Suggest" => ctrl.spawn = ctrl.want

\* The cache holds an earlier state of the trials: one that it has exists, and one
\* that has ended there has ended so, with that metric unless it was revised.
OlderInv ==
  \A t \in Trials :
    /\ trialsSeen[t].state # "None" => trials[t].state # "None"
    /\ trialsSeen[t].state \in {"Failed", "Complete"} =>
         /\ trials[t].state = trialsSeen[t].state
         /\ revised \/ trials[t].metric = trialsSeen[t].metric

\* An algorithm that is not supported has no trials.
RandomInv ==
  ~spec.random => /\ InState(trials, "None") = Trials
                  /\ ctrl.pc \notin Before \union {"Create"}

\* A reconcile that has seen a verdict leaves it alone.
SeenInv ==
  ctrl.pc # "Idle" /\ IsJobCompleted(ctrl.prev) =>
    ctrl.next.conditions = ctrl.prev.conditions /\ ctrl.pc \in After

\* What is there and what may still be created keep to the budget.
BudgetInv ==
  /\ TotalTrials(trials) <= spec.numTrials
  /\ Cardinality(ActiveTrials(trials)) <= spec.parallelTrials
  /\ TotalTrials(trials) + Spawns <= spec.numTrials
  /\ Cardinality(ActiveTrials(trials)) + Spawns <= spec.parallelTrials

\* Every trial has been run and has ended without failing.
Done ==
  /\ ActiveTrials(trials) = {} /\ InState(trials, "Failed") = {}
  /\ TotalTrials(trials) >= spec.numTrials

\* Somebody has seen the condition c, has written it or is about to.
Said(c) == c \in status.conditions \union statusSeen.conditions
                   \union ctrl.prev.conditions \union ctrl.next.conditions

VerdictInv == Said("Complete") => Done

\* What Decide takes for a failure and for a success.
Failing(ts) == FailedTrials(ts) # {} \/ ~spec.random
Passed(ts) == Ended(ts) /\ FailedTrials(ts) = {}

\* A verdict is one that both the trials and the cache still bear out.
ShownInv ==
  /\ Said("Failed") => Failing(trials) /\ Failing(trialsSeen)
  /\ Said("Complete") => Passed(trials) /\ Passed(trialsSeen)

\* A reconcile that has not seen the verdict is about to give one too.
StickyInv ==
  ctrl.pc # "Idle" /\ IsJobCompleted(status) =>
    /\ ctrl.pc \in After
    /\ ctrl.next.conditions = ctrl.prev.conditions \/ IsJobCompleted(ctrl.next)

IInv ==
  /\ TypesInv /\ OlderInv /\ RandomInv /\ SeenInv
  /\ ~missed => BudgetInv /\ VerdictInv
  /\ ~missed /\ ~revised => ShownInv /\ StickyInv

-----------------------------------------------------------------------------
\* Min of two numbers, as TrialsToSpawn takes it.
LEMMA MinOfTwo ==
  ASSUME NEW a \in Int, NEW b \in Int
  PROVE  Min({a, b}) \in Int /\ Min({a, b}) <= a /\ Min({a, b}) <= b
<1>1. \E x \in {a, b} : \A y \in {a, b} : x <= y
  <2>1. CASE a <= b
    BY <2>1
  <2>2. CASE b <= a
    BY <2>2
  <2> QED
    BY <2>1, <2>2
<1>2. Min({a, b}) \in {a, b} /\ \A y \in {a, b} : Min({a, b}) <= y
  BY <1>1, Zenon DEF Min
<1> QED
  BY <1>2

\* The trials in a state are finitely many (InState).
LEMMA StatesFinite ==
  ASSUME NEW ts, NEW s
  PROVE  /\ IsFiniteSet(InState(ts, s)) /\ Cardinality(InState(ts, s)) \in Nat
         /\ IsFiniteSet(Trials \ InState(ts, s)) /\ TotalTrials(ts) \in Nat
<1>1. IsFiniteSet(Trials)
  BY SpecAssumption, FS_Interval DEF Trials
<1>2. IsFiniteSet(InState(ts, s)) /\ IsFiniteSet(Trials \ InState(ts, s))
  BY <1>1, FS_Subset DEF InState
<1>3. IsFiniteSet(Trials \ InState(ts, "None"))
  BY <1>1, FS_Subset
<1> QED
  BY Zenon, <1>2, <1>3, FS_CardinalityType DEF TotalTrials

\* What the specs and the counts of trials are.
LEMMA Numbers ==
  ASSUME TypesInv, NEW ts
  PROVE  /\ TotalTrials(ts) \in Nat /\ Cardinality(ActiveTrials(ts)) \in Nat
         /\ spec.numTrials \in Nat \ {0} /\ spec.parallelTrials \in Nat \ {0}
         /\ Spawns \in Int
<1>1. TotalTrials(ts) \in Nat /\ Cardinality(ActiveTrials(ts)) \in Nat
  BY Zenon, StatesFinite DEF ActiveTrials
<1>2. spec.numTrials \in Nat \ {0} /\ spec.parallelTrials \in Nat \ {0}
  BY DEF TypesInv, AllSpecs
<1>3. Spawns \in Int
  BY DEF TypesInv, Spawns
<1> QED
  BY Zenon, <1>1, <1>2, <1>3

\* One Create of createTrainJobs adds one trial, and one that is running.
LEMMA CreatedAddsOne ==
  ASSUME TypesInv, OlderInv, UNCHANGED <<trialsSeen, revised>>,
         NEW t \in InState(trials, "None"), NEW b \in 0 .. 1, Created(t, b)
  PROVE  /\ trials' \in [Trials -> TrialStates] /\ OlderInv'
         /\ TotalTrials(trials') = TotalTrials(trials) + 1
         /\ Cardinality(ActiveTrials(trials')) = Cardinality(ActiveTrials(trials)) + 1
         /\ FailedTrials(trials') = FailedTrials(trials)
<1>1. t \in Trials /\ trials[t].state = "None" /\ trials \in [Trials -> TrialStates]
  BY DEF InState, TypesInv
<1>3. trials' = [trials EXCEPT ![t] = [state |-> "Active", metric |-> Missing, born |-> b]]
  BY DEF Created
<1>4. trials' \in [Trials -> TrialStates]
  BY Zenon, <1>1, <1>3 DEF TrialStates
<1>5. ActiveTrials(trials') = ActiveTrials(trials) \union {t} /\ t \notin ActiveTrials(trials)
  BY Zenon, <1>1, <1>3 DEF ActiveTrials, InState
<1>6. /\ Trials \ InState(trials', "None") = (Trials \ InState(trials, "None")) \union {t}
      /\ t \notin Trials \ InState(trials, "None")
  BY <1>1, <1>3 DEF InState
<1>7. Cardinality(ActiveTrials(trials')) = Cardinality(ActiveTrials(trials)) + 1
  BY Zenon, <1>5, StatesFinite, FS_AddElement DEF ActiveTrials
<1>8. TotalTrials(trials') = TotalTrials(trials) + 1
  BY Zenon, <1>6, StatesFinite, FS_AddElement DEF TotalTrials
<1>9. OlderInv'
  BY Zenon, <1>1, <1>3 DEF OlderInv
<1>10. FailedTrials(trials') = FailedTrials(trials)
  BY Zenon, <1>1, <1>3 DEF FailedTrials, ValidTrials, InState, HasMetric
<1> QED
  BY Zenon, <1>4, <1>7, <1>8, <1>9, <1>10

\* The end of a trial removes none and starts none, and undoes no failure.
LEMMA EndedKeepsTotal ==
  ASSUME TypesInv, OlderInv, TrialEnds
  PROVE  /\ trials' \in [Trials -> TrialStates] /\ OlderInv'
         /\ InState(trials', "None") = InState(trials, "None")
         /\ Cardinality(ActiveTrials(trials')) <= Cardinality(ActiveTrials(trials))
         /\ ActiveTrials(trials) # {}
         /\ FailedTrials(trials) \subseteq FailedTrials(trials')
<1>0. UNCHANGED <<trialsSeen, revised>>
  BY Zenon DEF TrialEnds, caches, history
<1>1. PICK t \in ActiveTrials(trials), s \in {"Complete", "Failed"},
           m \in Metrics \union {Missing} :
             trials' = [trials EXCEPT ![t] = [state |-> s, metric |-> m, born |-> @.born]]
  BY Zenon DEF TrialEnds
<1>2. t \in Trials /\ trials[t].state = "Active" /\ trials \in [Trials -> TrialStates]
  BY DEF ActiveTrials, InState, TypesInv
<1>3. trials' = [trials EXCEPT ![t] = [state |-> s, metric |-> m, born |-> trials[t].born]]
  BY Zenon, <1>1, <1>2 DEF TrialStates
<1>4. trials' \in [Trials -> TrialStates]
  BY Zenon, <1>2, <1>3 DEF TrialStates
<1>5. ActiveTrials(trials') \subseteq ActiveTrials(trials)
  BY Zenon, <1>2, <1>3 DEF ActiveTrials, InState
<1>6. InState(trials', "None") = InState(trials, "None")
  BY <1>2, <1>3 DEF InState
<1>7. Cardinality(ActiveTrials(trials')) <= Cardinality(ActiveTrials(trials))
  BY Zenon, <1>5, StatesFinite, FS_Subset DEF ActiveTrials
<1>8. OlderInv'
  BY Zenon, <1>0, <1>2, <1>3 DEF OlderInv
<1>9. FailedTrials(trials) \subseteq FailedTrials(trials')
  BY Zenon, <1>2, <1>3 DEF FailedTrials, ValidTrials, InState, HasMetric
<1> QED
  BY Zenon, <1>1, <1>4, <1>6, <1>7, <1>8, <1>9

\* A late report changes no more than a metric.
LEMMA ReportKeepsStates ==
  ASSUME TypesInv, OlderInv, LateReport
  PROVE  /\ trials' \in [Trials -> TrialStates] /\ OlderInv'
         /\ \A s : InState(trials', s) = InState(trials, s)
<1>0. trialsSeen' = trialsSeen /\ revised'
  BY Zenon DEF LateReport, caches
<1>1. PICK t \in InState(trials, "Complete"), m \in Metrics \union {Missing} :
        trials' = [trials EXCEPT ![t] = [state |-> @.state, metric |-> m, born |-> @.born]]
  BY Zenon DEF LateReport
<1>2. t \in Trials /\ trials \in [Trials -> TrialStates]
  BY DEF InState, TypesInv
<1>3. trials' = [trials EXCEPT ![t] = [state |-> trials[t].state, metric |-> m,
                                       born |-> trials[t].born]]
  BY Zenon, <1>1, <1>2 DEF TrialStates
<1>4. trials' \in [Trials -> TrialStates]
  BY Zenon, <1>2, <1>3 DEF TrialStates
<1>5. \A u \in Trials : trials'[u].state = trials[u].state
  BY Zenon, <1>2, <1>3
<1>6. OlderInv'
  BY Zenon, <1>0, <1>5 DEF OlderInv
<1> QED
  BY <1>4, <1>5, <1>6 DEF InState

\* What a list that misses no trial tells of the trials there are.
LEMMA ListedTruly ==
  ASSUME TypesInv, OlderInv, ~Misses
  PROVE  /\ TotalTrials(trialsSeen) = TotalTrials(trials)
         /\ ActiveTrials(trials) \subseteq ActiveTrials(trialsSeen)
         /\ Cardinality(ActiveTrials(trials)) <= Cardinality(ActiveTrials(trialsSeen))
         /\ Passed(trialsSeen) => Done
         /\ ~revised => /\ Failing(trialsSeen) => Failing(trials)
                        /\ Passed(trialsSeen) => Passed(trials)
<1>1. InState(trialsSeen, "None") = InState(trials, "None")
  BY Zenon DEF Misses
<1>2. TotalTrials(trialsSeen) = TotalTrials(trials)
  BY Zenon, <1>1 DEF TotalTrials
<1>3. \A t \in Trials : /\ trials[t].state \in {"None", "Active", "Failed", "Complete"}
                        /\ trialsSeen[t].state \in {"None", "Active", "Failed", "Complete"}
  BY Zenon DEF TypesInv, TrialStates
<1>4. ActiveTrials(trials) \subseteq ActiveTrials(trialsSeen)
  BY Zenon, <1>1, <1>3 DEF ActiveTrials, InState, OlderInv
<1>5. Cardinality(ActiveTrials(trials)) <= Cardinality(ActiveTrials(trialsSeen))
  BY Zenon, <1>4, StatesFinite, FS_Subset DEF ActiveTrials
<1>6. Passed(trialsSeen) =>
        /\ ActiveTrials(trials) = {} /\ TotalTrials(trials) >= spec.numTrials
        /\ InState(trials, "Failed") = {}
  <2> SUFFICES ASSUME Passed(trialsSeen)
               PROVE  /\ ActiveTrials(trials) = {} /\ TotalTrials(trials) >= spec.numTrials
                      /\ InState(trials, "Failed") = {}
    OBVIOUS
  <2>1. /\ InState(trialsSeen, "Active") = {} /\ InState(trialsSeen, "Failed") = {}
        /\ TotalTrials(trialsSeen) >= spec.numTrials
    BY Zenon DEF Passed, Ended, ActiveTrials, FailedTrials
  <2>2. \A t \in Trials : trials[t].state # "Failed"
    BY Zenon, <1>1, <1>3, <2>1 DEF InState, OlderInv
  <2> QED BY Zenon, <1>2, <1>4, <2>1, <2>2 DEF InState, ActiveTrials
<1>7. ASSUME ~revised PROVE Failing(trialsSeen) => Failing(trials)
  BY Zenon, <1>7 DEF Failing, FailedTrials, ValidTrials, InState, HasMetric, OlderInv
<1>8. ASSUME ~revised, Passed(trialsSeen) PROVE Passed(trials)
  <2>1. Ended(trials) /\ InState(trials, "Failed") = {}
    BY Zenon, <1>6, <1>8 DEF Ended
  <2>2. InState(trials, "Complete") \subseteq InState(trialsSeen, "Complete")
    BY Zenon, <1>1, <1>3, <1>8 DEF InState, OlderInv, Passed, Ended, ActiveTrials, FailedTrials
  <2>3. InState(trials, "Complete") \subseteq ValidTrials(trials)
    BY Zenon, <1>8, <2>2 DEF Passed, FailedTrials, ValidTrials, InState, HasMetric, OlderInv
  <2> QED BY Zenon, <2>1, <2>3 DEF Passed, FailedTrials
<1> QED
  BY Zenon, <1>2, <1>4, <1>5, <1>6, <1>7, <1>8 DEF Done

-----------------------------------------------------------------------------
(***************************************************************************)
(* The inductive invariant.                                                *)
(***************************************************************************)
LEMMA IdleTypes ==
  /\ Idle.pc \in Steps /\ Idle.pc # "Suggest" /\ Idle.want \in Int /\ Idle.spawn \in Int
  /\ Idle = [pc |-> Idle.pc, prev |-> Idle.prev, next |-> Idle.next, want |-> Idle.want,
             request |-> Idle.request, spawn |-> Idle.spawn, failed |-> Idle.failed]
  /\ Idle.next = [conditions |-> Idle.next.conditions, result |-> Idle.next.result]
<1>1. Idle.pc \in Steps /\ Idle.pc # "Suggest" /\ Idle.want \in Int /\ Idle.spawn \in Int
  BY DEF Idle, Steps
<1>2. Idle = [pc |-> Idle.pc, prev |-> Idle.prev, next |-> Idle.next, want |-> Idle.want,
              request |-> Idle.request, spawn |-> Idle.spawn, failed |-> Idle.failed]
  BY Zenon DEF Idle
<1>3. Idle.next = [conditions |-> Idle.next.conditions, result |-> Idle.next.result]
  BY DEF Idle
<1> QED
  BY Zenon, <1>1, <1>2, <1>3

LEMMA InitIInv == Init => IInv
<1> SUFFICES ASSUME Init PROVE IInv
  OBVIOUS
<1>1. trials \in [Trials -> TrialStates] /\ trialsSeen = trials
  BY DEF Init, NoTrial, TrialStates
<1>2. TypesInv
  BY Zenon, <1>1, SpecAssumption, IdleTypes DEF Init, TypesInv
<1>3. ActiveTrials(trials) = {} /\ InState(trials, "None") = Trials
  BY DEF Init, ActiveTrials, InState, NoTrial
<1>4. Cardinality(ActiveTrials(trials)) = 0 /\ TotalTrials(trials) = 0
  <2>1. Trials \ InState(trials, "None") = {}
    BY <1>3
  <2> QED BY Zenon, <1>3, <2>1, FS_EmptySet DEF TotalTrials
<1>5. Spawns = 0
  BY DEF Init, Idle, Spawns, Before
<1>6. BudgetInv
  BY <1>2, <1>4, <1>5, Numbers DEF BudgetInv
<1>7. OlderInv /\ RandomInv /\ SeenInv /\ StickyInv
  BY Zenon, <1>1, <1>3 DEF Init, Idle, OlderInv, RandomInv, SeenInv, StickyInv, Before
<1>8. VerdictInv /\ ShownInv
  BY Zenon DEF Init, Idle, VerdictInv, ShownInv, Said
<1> QED
  BY Zenon, <1>2, <1>6, <1>7, <1>8 DEF IInv

\* A step of the reconcile that touches neither the trials nor the status.
LEMMA ControlStep ==
  ASSUME IInv, UNCHANGED <<spec, trials, trialsSeen, status, statusSeen, missed, revised>>,
         TypesInv', RandomInv', SeenInv',
         ~missed /\ ~revised => StickyInv',
         Spawns' <= Spawns \/ Spawns' <= 0,
         ctrl'.prev = ctrl.prev,
         Verdict(ctrl'.next) \subseteq Verdict(ctrl.next)
  PROVE  IInv'
<1>1. OlderInv'
  BY Zenon DEF IInv, OlderInv
<1>2. \A c \in {"Complete", "Failed"} : Said(c)' => Said(c)
  BY Zenon DEF Said, Verdict
<1>3. ASSUME ~missed PROVE BudgetInv' /\ VerdictInv'
  <2>1. /\ TotalTrials(trials') = TotalTrials(trials)
        /\ ActiveTrials(trials') = ActiveTrials(trials) /\ spec' = spec
    BY Zenon
  <2>2. Spawns' \in Int
    BY DEF TypesInv, Spawns
  <2>3. BudgetInv'
    BY SMTT(30), <1>3, <2>1, <2>2, Numbers DEF BudgetInv, IInv
  <2>4. VerdictInv'
    BY Zenon, <1>2, <1>3 DEF VerdictInv, IInv, Done
  <2> QED BY Zenon, <2>3, <2>4
<1>4. ASSUME ~missed, ~revised PROVE ShownInv'
  <2>1. \A ts : /\ Failing(ts)' <=> Failing(ts)
                /\ Passed(ts)' <=> Passed(ts)
    BY Zenon DEF Failing, Passed, Ended, FailedTrials, ValidTrials
  <2> QED BY Zenon, <1>2, <1>4, <2>1 DEF ShownInv, IInv
<1> QED
  BY Zenon, <1>1, <1>3, <1>4 DEF IInv

\* What Decide gives to whom.
LEMMA Decides ==
  ASSUME NEW ts, NEW s
  PROVE  LET d == Decide(ts, s)
         IN /\ d.pc \in {"CleanDeploy", "Patch", "Deploy"}
            /\ IsJobCompleted(s) => d.pc = "CleanDeploy" /\ d.condition = {}
            /\ ~IsJobCompleted(s) /\ (Failing(ts) \/ Passed(ts)) =>
                 d.pc = "Patch" /\ d.condition \in {{"Failed"}, {"Complete"}}
            /\ "Complete" \in d.condition => Passed(ts)
            /\ "Failed" \in d.condition => Failing(ts)
            /\ d.pc = "Deploy" => spec.random /\ d.condition = {}
<1>1. CASE IsJobCompleted(s)
  BY Zenon, <1>1 DEF Decide, Goes
<1>2. CASE ~IsJobCompleted(s) /\ FailedTrials(ts) # {}
  BY <1>2 DEF Decide, Goes, Failing, Passed
<1>3. CASE ~IsJobCompleted(s) /\ FailedTrials(ts) = {} /\ Ended(ts)
  BY <1>3 DEF Decide, Goes, Failing, Passed
<1>4. CASE ~IsJobCompleted(s) /\ FailedTrials(ts) = {} /\ ~Ended(ts)
  BY <1>4 DEF Decide, Goes, Failing, Passed
<1> QED BY Zenon, <1>1, <1>2, <1>3, <1>4

\* The two verdicts exclude each other.
LEMMA OneVerdict ==
  ASSUME TypesInv, RandomInv
  PROVE  ~(Failing(trials) /\ Passed(trials))
<1> SUFFICES ASSUME Failing(trials), Passed(trials) PROVE FALSE
  OBVIOUS
<1>1. ~spec.random /\ TotalTrials(trials) >= spec.numTrials
  BY Zenon DEF Failing, Passed, Ended
<1>2. Trials \ InState(trials, "None") = {}
  BY Zenon, <1>1 DEF RandomInv
<1>3. TotalTrials(trials) = 0
  BY Zenon, <1>2, FS_EmptySet DEF TotalTrials
<1> QED BY <1>1, <1>3, Numbers

LEMMA ReconcileIInv ==
  ASSUME IInv, Reconcile
  PROVE  IInv'
<1> DEFINE d == Decide(trialsSeen, statusSeen)
           n(r) == [conditions |-> statusSeen.conditions \union d.condition, result |-> r]
<1>1. /\ UNCHANGED <<spec, trials, trialsSeen, status, statusSeen, revised>>
      /\ missed' = (missed \/ Misses) /\ ctrl.pc = "Idle"
  BY Zenon DEF Reconcile, cluster, caches
<1>2. PICK r : ctrl' = [pc |-> d.pc, prev |-> statusSeen, want |-> TrialsToSpawn(trialsSeen),
                       next |-> n(r), request |-> BuildSuggestionRequest(trialsSeen),
                       spawn |-> 0, failed |-> FALSE]
  BY Zenon DEF Reconcile
<1>3. /\ ctrl'.pc = d.pc /\ ctrl'.want = TrialsToSpawn(trialsSeen) /\ ctrl'.spawn = 0
      /\ ctrl'.next = n(r) /\ ctrl'.prev = statusSeen /\ ctrl'.failed = FALSE
      /\ ctrl'.request = BuildSuggestionRequest(trialsSeen)
      /\ ctrl'.next.conditions = statusSeen.conditions \union d.condition
  BY Zenon, <1>2
<1>4. TypesInv
  BY DEF IInv
<1>5. /\ TrialsToSpawn(trialsSeen) \in Int
      /\ TrialsToSpawn(trialsSeen) <= spec.parallelTrials - Cardinality(ActiveTrials(trialsSeen))
      /\ TrialsToSpawn(trialsSeen) <= spec.numTrials - TotalTrials(trialsSeen)
  <2>1. /\ spec.parallelTrials - Cardinality(ActiveTrials(trialsSeen)) \in Int
        /\ spec.numTrials - TotalTrials(trialsSeen) \in Int
    BY <1>4, Numbers
  <2> QED
    BY <2>1, MinOfTwo, Zenon DEF TrialsToSpawn
<1>6. /\ d.pc \in {"CleanDeploy", "Patch", "Deploy"}
      /\ IsJobCompleted(statusSeen) => d.pc = "CleanDeploy" /\ d.condition = {}
      /\ ~IsJobCompleted(statusSeen) /\ (Failing(trialsSeen) \/ Passed(trialsSeen)) =>
           d.pc = "Patch" /\ d.condition \in {{"Failed"}, {"Complete"}}
      /\ "Complete" \in d.condition => Passed(trialsSeen)
      /\ "Failed" \in d.condition => Failing(trialsSeen)
      /\ d.pc = "Deploy" => spec.random /\ d.condition = {}
  BY Zenon, Decides
<1> HIDE DEF d
<1>7. TypesInv'
  <2>2. ctrl'.next = [conditions |-> ctrl'.next.conditions, result |-> ctrl'.next.result]
    BY <1>3
  <2>3. ctrl' = [pc |-> ctrl'.pc, prev |-> ctrl'.prev, next |-> ctrl'.next,
                 want |-> ctrl'.want, request |-> ctrl'.request, spawn |-> ctrl'.spawn,
                 failed |-> ctrl'.failed]
    BY <1>2, <1>3, Zenon
  <2>4. ctrl'.pc \in Steps /\ ctrl'.pc # "Suggest"
    BY Zenon, <1>3, <1>6 DEF Steps, Before, After
  <2>5. missed' \in BOOLEAN
    BY Zenon, <1>1
  <2>6. ctrl'.want \in Int /\ ctrl'.spawn \in Int
    BY <1>3, <1>5
  <2> QED
    BY Zenon, <1>1, <1>4, <2>2, <2>3, <2>4, <2>5, <2>6 DEF TypesInv
<1>8. OlderInv'
  BY Zenon, <1>1 DEF OlderInv, IInv
<1>9. RandomInv'
  BY Zenon, <1>1, <1>3, <1>6 DEF RandomInv, IInv, Before
<1>10. SeenInv'
  BY Zenon, <1>3, <1>6 DEF SeenInv, After
<1>11. ASSUME ~missed' PROVE ~missed /\ ~Misses /\ BudgetInv' /\ VerdictInv'
  <2>1. ~missed /\ ~Misses /\ OlderInv
    BY Zenon, <1>1, <1>11 DEF IInv
  <2>2. /\ TotalTrials(trialsSeen) = TotalTrials(trials)
        /\ Cardinality(ActiveTrials(trials)) <= Cardinality(ActiveTrials(trialsSeen))
        /\ Passed(trialsSeen) => Done
    BY Zenon, <1>4, <2>1, ListedTruly
  <2>3. Spawns' \in {0, TrialsToSpawn(trialsSeen)}
    BY Zenon, <1>3, <1>6 DEF Spawns, Before
  <2>4. /\ TotalTrials(trials') = TotalTrials(trials)
        /\ ActiveTrials(trials') = ActiveTrials(trials) /\ spec' = spec
    BY Zenon, <1>1
  <2>5. BudgetInv
    BY Zenon, <2>1 DEF IInv
  <2>6. BudgetInv'
    BY SMTT(30), <1>4, <1>5, <2>2, <2>3, <2>4, <2>5, Numbers DEF BudgetInv
  <2>7. VerdictInv'
    BY Zenon, <1>1, <1>3, <1>6, <2>1, <2>2 DEF VerdictInv, Said, IInv, Done
  <2> QED BY Zenon, <2>1, <2>6, <2>7
<1>12. ASSUME ~missed', ~revised' PROVE ShownInv' /\ StickyInv'
  <2>1. ~missed /\ ~Misses /\ ~revised /\ OlderInv
    BY Zenon, <1>1, <1>11, <1>12 DEF IInv
  <2>2. ShownInv
    BY Zenon, <2>1 DEF IInv
  <2>3. \A ts : /\ Failing(ts)' <=> Failing(ts)
                /\ Passed(ts)' <=> Passed(ts)
    BY Zenon, <1>1 DEF Failing, Passed, Ended, FailedTrials, ValidTrials
  <2>4. /\ Failing(trialsSeen) => Failing(trials)
        /\ Passed(trialsSeen) => Passed(trials)
    BY Zenon, <1>4, <2>1, ListedTruly
  <2>5. ShownInv'
    BY Zenon, <1>1, <1>3, <1>6, <2>2, <2>3, <2>4 DEF ShownInv, Said
  <2>6. StickyInv'
    <3> SUFFICES ASSUME IsJobCompleted(status)
                 PROVE  /\ ctrl'.pc \in After
                        /\ \/ ctrl'.next.conditions = ctrl'.prev.conditions
                           \/ IsJobCompleted(ctrl'.next)
      BY Zenon, <1>1 DEF StickyInv, IsJobCompleted, Verdict
    <3>1. Failing(trialsSeen) \/ Passed(trialsSeen)
      BY Zenon, <2>2 DEF ShownInv, Said, IsJobCompleted, Verdict
    <3>2. CASE IsJobCompleted(statusSeen)
      BY Zenon, <1>3, <1>6, <3>2 DEF After
    <3>3. CASE ~IsJobCompleted(statusSeen)
      <4>1. d.pc = "Patch" /\ d.condition \in {{"Failed"}, {"Complete"}}
        BY Zenon, <1>6, <3>1, <3>3
      <4> QED BY Zenon, <1>3, <4>1 DEF After, IsJobCompleted, Verdict
    <3> QED BY Zenon, <3>2, <3>3
  <2> QED BY Zenon, <2>5, <2>6
<1> QED
  BY Zenon, <1>7, <1>8, <1>9, <1>10, <1>11, <1>12 DEF IInv

LEMMA CreateIInv ==
  ASSUME IInv, CreateTrainJob
  PROVE  IInv'
<1>1. /\ ctrl.pc = "Create" /\ ctrl.spawn > 0
      /\ UNCHANGED <<spec, status, trialsSeen, statusSeen, missed, revised>>
      /\ \E failed : ctrl' = [ctrl EXCEPT !.spawn = @ - 1, !.failed = failed]
  BY Zenon DEF CreateTrainJob, caches
<1>2. /\ ctrl'.pc = "Create" /\ ctrl'.spawn = ctrl.spawn - 1 /\ ctrl'.want = ctrl.want
      /\ ctrl'.prev = ctrl.prev /\ ctrl'.next = ctrl.next
      /\ ctrl' = [pc |-> ctrl'.pc, prev |-> ctrl'.prev, next |-> ctrl'.next,
                  want |-> ctrl'.want, request |-> ctrl'.request, spawn |-> ctrl'.spawn,
                  failed |-> ctrl'.failed]
  BY Zenon, <1>1 DEF IInv, TypesInv
<1>3. \/ trials' = trials
      \/ \E t \in InState(trials, "None"), b \in 0 .. 1 : Created(t, b)
  BY Zenon DEF CreateTrainJob, NewNames, Seconds
<1>4. TypesInv /\ ctrl.spawn \in Int
  BY Zenon DEF IInv, TypesInv
<1>5. Spawns = ctrl.spawn /\ Spawns' = ctrl.spawn - 1
  BY Zenon, <1>1, <1>2 DEF Spawns, Before
<1>6. SeenInv' /\ (~missed /\ ~revised => StickyInv') /\ spec.random
  BY Zenon, <1>1, <1>2 DEF SeenInv, StickyInv, RandomInv, IInv, After
<1>7. RandomInv'
  BY Zenon, <1>1, <1>6 DEF RandomInv
<1>8. CASE trials' = trials
  <2>1. TypesInv'
    BY SMTT(30), <1>1, <1>2, <1>4, <1>8 DEF TypesInv
  <2> QED
    BY SMTT(30), <1>1, <1>2, <1>4, <1>5, <1>6, <1>7, <1>8, <2>1, ControlStep DEF Verdict
<1>9. CASE \E t \in InState(trials, "None"), b \in 0 .. 1 : Created(t, b)
  <2>1. /\ trials' \in [Trials -> TrialStates] /\ OlderInv'
        /\ TotalTrials(trials') = TotalTrials(trials) + 1
        /\ Cardinality(ActiveTrials(trials')) = Cardinality(ActiveTrials(trials)) + 1
        /\ FailedTrials(trials') = FailedTrials(trials)
    BY Zenon, <1>1, <1>9, CreatedAddsOne DEF IInv
  <2>2. TypesInv'
    BY SMTT(30), <1>1, <1>2, <1>4, <2>1 DEF TypesInv
  <2>3. ASSUME ~missed' PROVE BudgetInv' /\ ~Done /\ VerdictInv'
    <3>1. BudgetInv /\ VerdictInv
      BY Zenon, <1>1, <2>3 DEF IInv
    <3>2. BudgetInv' /\ ~Done
      BY SMTT(30), <1>1, <1>4, <1>5, <2>1, <3>1, Numbers DEF BudgetInv, Done
    <3>3. VerdictInv'
      BY Zenon, <1>1, <1>2, <3>1, <3>2 DEF VerdictInv, Said
    <3> QED BY Zenon, <3>2, <3>3
  <2>4. ASSUME ~missed', ~revised' PROVE ShownInv'
    <3>1. ShownInv /\ VerdictInv /\ ~Done
      BY Zenon, <1>1, <2>3, <2>4 DEF IInv
    <3>2. Failing(trials') = Failing(trials) /\ Failing(trialsSeen)' = Failing(trialsSeen)
      BY Zenon, <1>1, <2>1 DEF Failing, FailedTrials, ValidTrials
    <3>3. Failing(trials)' = Failing(trials') /\ ~Said("Complete")'
      BY Zenon, <1>1, <1>2, <3>1 DEF Failing, VerdictInv, Said
    <3> QED BY Zenon, <1>1, <1>2, <3>1, <3>2, <3>3 DEF ShownInv, Said
  <2> QED
    BY Zenon, <1>1, <1>6, <1>7, <2>1, <2>2, <2>3, <2>4 DEF IInv
<1> QED
  BY Zenon, <1>3, <1>8, <1>9

\* The reconcile ends, with the status it found or the one it computed.
LEMMA EndIInv ==
  ASSUME IInv, ctrl' = Idle, UNCHANGED <<spec, trials, missed, revised>>,
         trialsSeen' \in {trialsSeen, trials}, statusSeen' \in {statusSeen, status},
         status'.conditions \in {status.conditions, ctrl.next.conditions}
  PROVE  IInv'
<1>1. TypesInv'
  BY Zenon, IdleTypes DEF TypesInv, IInv
<1>2. OlderInv'
  BY Zenon DEF OlderInv, IInv
<1>3. RandomInv' /\ SeenInv' /\ StickyInv'
  BY Zenon DEF RandomInv, SeenInv, StickyInv, IInv, Idle, Before
<1>4. \A c : Said(c)' => Said(c)
  BY Zenon DEF Said, Idle
<1>5. ASSUME ~missed' PROVE BudgetInv' /\ VerdictInv'
  <2>1. BudgetInv /\ VerdictInv /\ TypesInv
    BY Zenon, <1>5 DEF IInv
  <2>2. Spawns' = 0
    BY DEF Spawns, Before, Idle
  <2>3. /\ TotalTrials(trials') = TotalTrials(trials)
        /\ ActiveTrials(trials') = ActiveTrials(trials) /\ spec' = spec
    BY Zenon
  <2>4. BudgetInv'
    BY SMTT(30), <2>1, <2>2, <2>3, Numbers DEF BudgetInv
  <2>5. VerdictInv'
    BY Zenon, <1>4, <2>1 DEF VerdictInv, Done
  <2> QED BY Zenon, <2>4, <2>5
<1>6. ASSUME ~missed', ~revised' PROVE ShownInv'
  <2>1. ShownInv
    BY Zenon, <1>6 DEF IInv
  <2>2. \A ts : /\ Failing(ts)' <=> Failing(ts)
                /\ Passed(ts)' <=> Passed(ts)
    BY Zenon DEF Failing, Passed, Ended, FailedTrials, ValidTrials
  <2> QED BY Zenon, <1>4, <2>1, <2>2 DEF ShownInv
<1> QED
  BY Zenon, <1>1, <1>2, <1>3, <1>5, <1>6 DEF IInv

LEMMA PatchIInv ==
  ASSUME IInv, Patch
  PROVE  /\ IInv'
         /\ IsJobCompleted(status) /\ ~missed /\ ~revised =>
              Verdict(status') = Verdict(status)
<1>1. /\ ctrl.pc = "Patch" /\ ctrl' = Idle
      /\ UNCHANGED <<spec, trials, trialsSeen, statusSeen, missed, revised>>
      /\ status'.conditions \in {status.conditions, ctrl.next.conditions}
      /\ ctrl.next.conditions = ctrl.prev.conditions => status'.conditions = status.conditions
  BY Zenon DEF Patch, caches, history
<1>2. IInv'
  BY Zenon, <1>1, EndIInv
<1>3. ASSUME IsJobCompleted(status), ~missed, ~revised
      PROVE  Verdict(status') = Verdict(status)
  <2>1. TypesInv /\ RandomInv /\ ShownInv /\ StickyInv
    BY Zenon, <1>3 DEF IInv
  <2>2. ~(Said("Failed") /\ Said("Complete"))
    BY Zenon, <2>1, OneVerdict DEF ShownInv
  <2>3. CASE status'.conditions = status.conditions
    BY Zenon, <2>3 DEF Verdict
  <2>4. CASE status'.conditions # status.conditions
    <3>1. status'.conditions = ctrl.next.conditions /\ IsJobCompleted(ctrl.next)
      BY Zenon, <1>1, <1>3, <2>1, <2>4 DEF StickyInv
    <3> QED BY Zenon, <1>3, <2>2, <3>1 DEF Said, IsJobCompleted, Verdict
  <2> QED BY Zenon, <2>3, <2>4
<1> QED
  BY Zenon, <1>2, <1>3

\* The steps of a reconcile that only move it on.
Moves ==
  (Before \X {"Patch"}) \union
  {<<"Deploy", "Service">>, <<"Service", "Ready">>, <<"Suggest", "Create">>,
   <<"Create", "Patch">>, <<"CleanDeploy", "CleanService">>, <<"CleanDeploy", "Patch">>,
   <<"CleanService", "Patch">>}

LEMMA MoveIInv ==
  ASSUME IInv, UNCHANGED <<spec, trials, trialsSeen, status, statusSeen, missed, revised>>,
         NEW pc, NEW failed, <<ctrl.pc, pc>> \in Moves,
         ctrl' = [ctrl EXCEPT !.pc = pc, !.failed = failed]
  PROVE  IInv'
<1>0. /\ pc \in Steps \ {"Idle", "Suggest"} /\ ctrl.pc # "Idle"
      /\ pc \in Before \union {"Create"} => ctrl.pc \in Before \union {"Create"}
      /\ pc \in Before => ctrl.pc \in Before
      /\ pc = "Create" => ctrl.pc = "Suggest"
      /\ ctrl.pc \in After => pc \in After
  BY DEF Moves, Steps, Before, After
<1>1. /\ ctrl'.pc = pc /\ ctrl'.spawn = ctrl.spawn /\ ctrl'.want = ctrl.want
      /\ ctrl'.prev = ctrl.prev /\ ctrl'.next = ctrl.next
      /\ ctrl' = [pc |-> ctrl'.pc, prev |-> ctrl'.prev, next |-> ctrl'.next,
                  want |-> ctrl'.want, request |-> ctrl'.request, spawn |-> ctrl'.spawn,
                  failed |-> ctrl'.failed]
  BY Zenon DEF IInv, TypesInv
<1>2. TypesInv'
  BY Zenon, <1>0, <1>1 DEF IInv, TypesInv
<1>3. RandomInv' /\ SeenInv' /\ (~missed /\ ~revised => StickyInv')
  <2>1. RandomInv'
    BY Zenon, <1>0, <1>1 DEF IInv, RandomInv
  <2>2. SeenInv'
    BY Zenon, <1>0, <1>1 DEF IInv, SeenInv
  <2>3. ~missed /\ ~revised => StickyInv'
    BY Zenon, <1>0, <1>1 DEF IInv, StickyInv
  <2> QED BY Zenon, <2>1, <2>2, <2>3
<1>4. Spawns' <= Spawns \/ Spawns' <= 0
  BY <1>0, <1>1 DEF Spawns, Before, IInv, TypesInv
<1> QED
  BY Zenon, <1>1, <1>2, <1>3, <1>4, ControlStep

LEMMA CheckReadyIInv ==
  ASSUME IInv, CheckReady
  PROVE  IInv'
<1>1. /\ UNCHANGED <<spec, trials, trialsSeen, status, statusSeen, missed, revised>>
      /\ ctrl.pc = "Ready"
  BY DEF CheckReady, cluster, caches, history
<1>2. CASE ctrl' = [ctrl EXCEPT !.pc = "Patch"]
  <2>1. ctrl' = [ctrl EXCEPT !.pc = "Patch", !.failed = ctrl.failed]
    BY Zenon, <1>2 DEF IInv, TypesInv
  <2> QED
    <3>1. <<ctrl.pc, "Patch">> \in Moves
      BY <1>1 DEF Moves, Before
    <3> QED
      BY Zenon, <1>1, <2>1, <3>1, MoveIInv
<1>3. CASE ctrl' = [ctrl EXCEPT !.next.conditions = @ \union {"Created"},
                                !.pc = IF ctrl.want > 0 THEN "Suggest" ELSE "Patch",
                                !.spawn = ctrl.want]
  <2>1. /\ ctrl'.pc \in {"Suggest", "Patch"} /\ ctrl'.spawn = ctrl.want
        /\ ctrl'.want = ctrl.want /\ ctrl'.prev = ctrl.prev
        /\ ctrl' = [pc |-> ctrl'.pc, prev |-> ctrl'.prev, next |-> ctrl'.next,
                    want |-> ctrl'.want, request |-> ctrl'.request, spawn |-> ctrl'.spawn,
                    failed |-> ctrl'.failed]
    BY Zenon, <1>3 DEF IInv, TypesInv
  <2>2. ctrl'.next = [ctrl.next EXCEPT !.conditions = @ \union {"Created"}]
    BY Zenon, <1>3 DEF IInv, TypesInv
  <2>3. /\ ctrl'.next = [conditions |-> ctrl'.next.conditions, result |-> ctrl'.next.result]
        /\ ctrl'.next.conditions = ctrl.next.conditions \union {"Created"}
    BY Zenon, <2>2 DEF IInv, TypesInv
  <2>4. TypesInv'
    BY Zenon, <1>1, <2>1, <2>3 DEF IInv, TypesInv, Steps, Before, After
  <2>5. ~IsJobCompleted(ctrl.prev) /\ (~missed /\ ~revised => ~IsJobCompleted(status))
    BY Zenon, <1>1 DEF IInv, SeenInv, StickyInv, After
  <2>6. SeenInv' /\ (~missed /\ ~revised => StickyInv')
    BY Zenon, <1>1, <2>1, <2>5 DEF SeenInv, StickyInv, IsJobCompleted, Verdict
  <2>7. RandomInv'
    BY Zenon, <1>1 DEF IInv, RandomInv, Before
  <2>8. Spawns' <= Spawns \/ Spawns' <= 0
    BY <1>1, <2>1 DEF Spawns, Before, IInv, TypesInv
  <2>9. Verdict(ctrl'.next) \subseteq Verdict(ctrl.next)
    BY <2>3 DEF Verdict
  <2> QED
    BY Zenon, <1>1, <2>1, <2>4, <2>6, <2>7, <2>8, <2>9, ControlStep
<1> QED
  BY Zenon, <1>2, <1>3 DEF CheckReady

\* What the informers, the Deployment and the trials do.
LEMMA OutsideIInv ==
  ASSUME IInv,
         \/ SyncTrials \/ SyncStatus \/ SyncDeployment \/ DeploymentAvailable
         \/ DeploymentUnavailable \/ TrialEnds \/ LateReport \/ UNCHANGED vars
  PROVE  IInv' /\ status' = status
<1>1. /\ UNCHANGED <<spec, ctrl, status, missed>> /\ statusSeen' \in {statusSeen, status}
      /\ (revised' = revised) \/ LateReport
  BY Zenon DEF SyncTrials, SyncStatus, SyncDeployment, DeploymentAvailable, DeploymentUnavailable,
         TrialEnds, LateReport, vars, cluster, caches, history
<1>2. \/ trials' = trials /\ trialsSeen' \in {trialsSeen, trials}
      \/ TrialEnds /\ trialsSeen' = trialsSeen
      \/ LateReport /\ trialsSeen' = trialsSeen
  BY Zenon DEF SyncTrials, SyncStatus, SyncDeployment, DeploymentAvailable, DeploymentUnavailable,
         TrialEnds, LateReport, vars, cluster, caches
<1>3. TypesInv /\ OlderInv
  BY DEF IInv
<1>4. /\ trials' \in [Trials -> TrialStates] /\ OlderInv'
      /\ InState(trials', "None") = InState(trials, "None")
      /\ Cardinality(ActiveTrials(trials')) <= Cardinality(ActiveTrials(trials))
      /\ Done => Done'
      /\ ~revised' => /\ FailedTrials(trials) \subseteq FailedTrials(trials')
                      /\ Passed(trials) => Passed(trials')
  <2>1. CASE trials' = trials /\ trialsSeen' \in {trialsSeen, trials}
    <3>1. OlderInv'
      <4>1. revised' \/ ~revised
        BY Zenon, <1>1, <1>3 DEF TypesInv, LateReport
      <4> QED BY Zenon, <1>3, <2>1, <4>1 DEF OlderInv
    <3>2. Cardinality(ActiveTrials(trials')) <= Cardinality(ActiveTrials(trials))
      BY <1>3, <2>1, Numbers
    <3>3. Done => Done'
      BY Zenon, <1>1, <2>1 DEF Done
    <3> QED BY Zenon, <1>3, <2>1, <3>1, <3>2, <3>3 DEF TypesInv
  <2>2. CASE TrialEnds /\ trialsSeen' = trialsSeen
    BY Zenon, <1>3, <2>2, EndedKeepsTotal DEF Done, Passed, Ended
  <2>3. CASE LateReport /\ trialsSeen' = trialsSeen
    <3>1. /\ trials' \in [Trials -> TrialStates] /\ OlderInv'
          /\ \A s : InState(trials', s) = InState(trials, s)
      BY Zenon, <1>3, <2>3, ReportKeepsStates
    <3>2. ActiveTrials(trials') = ActiveTrials(trials) /\ TotalTrials(trials') = TotalTrials(trials)
      BY Zenon, <3>1 DEF ActiveTrials, TotalTrials
    <3>3. Cardinality(ActiveTrials(trials')) <= Cardinality(ActiveTrials(trials))
      BY <1>3, <3>2, Numbers
    <3>4. revised'
      BY Zenon, <2>3 DEF LateReport
    <3> QED BY Zenon, <1>1, <3>1, <3>2, <3>3, <3>4 DEF Done
  <2> QED BY Zenon, <1>2, <2>1, <2>2, <2>3
<1>5. TypesInv'
  <2>1. trialsSeen' \in [Trials -> TrialStates]
    BY Zenon, <1>2, <1>3 DEF TypesInv
  <2>2. revised' \in BOOLEAN
    BY Zenon, <1>1, <1>3 DEF TypesInv, LateReport
  <2> QED BY Zenon, <1>1, <1>3, <1>4, <2>1, <2>2 DEF TypesInv
<1>6. RandomInv' /\ SeenInv' /\ (~missed /\ ~revised => StickyInv')
  BY Zenon, <1>1, <1>4 DEF IInv, RandomInv, SeenInv, StickyInv
<1>7. \A c : Said(c)' => Said(c)
  BY Zenon, <1>1 DEF Said
<1>8. ASSUME ~missed' PROVE BudgetInv' /\ VerdictInv'
  <2>1. BudgetInv /\ VerdictInv
    BY Zenon, <1>1, <1>8 DEF IInv
  <2>2. TotalTrials(trials') = TotalTrials(trials) /\ Spawns' = Spawns /\ spec' = spec
    BY Zenon, <1>1, <1>4 DEF TotalTrials, Spawns
  <2>3. BudgetInv'
    BY SMTT(30), <1>3, <1>4, <2>1, <2>2, Numbers DEF BudgetInv
  <2>4. VerdictInv'
    BY Zenon, <1>4, <1>7, <2>1 DEF VerdictInv
  <2> QED BY Zenon, <2>3, <2>4
<1>9. ASSUME ~missed', ~revised' PROVE ~revised /\ ShownInv'
  <2>1. ~missed /\ ~revised /\ ~LateReport
    BY Zenon, <1>1, <1>3, <1>9 DEF TypesInv, LateReport
  <2>2. ShownInv
    BY Zenon, <2>1 DEF IInv
  <2>3. \A ts : /\ Failing(ts)' <=> Failing(ts)
                /\ Passed(ts)' <=> Passed(ts)
    BY Zenon, <1>1 DEF Failing, Passed, Ended, FailedTrials, ValidTrials
  <2>4. /\ Failing(trials) => Failing(trials')
        /\ Passed(trials) => Passed(trials')
    BY Zenon, <1>4, <1>9 DEF Failing
  <2>5. trialsSeen' \in {trialsSeen, trials}
    BY Zenon, <1>2
  <2>6. /\ Failing(trials)' <=> Failing(trials')
        /\ Passed(trials)' <=> Passed(trials')
        /\ Failing(trialsSeen)' <=> Failing(trialsSeen')
        /\ Passed(trialsSeen)' <=> Passed(trialsSeen')
    BY Zenon, <1>1 DEF Failing, Passed, Ended, FailedTrials, ValidTrials
  <2> QED BY Zenon, <1>7, <2>1, <2>2, <2>4, <2>5, <2>6 DEF ShownInv
<1> QED
  BY Zenon, <1>1, <1>4, <1>5, <1>6, <1>8, <1>9 DEF IInv

LEMMA MovesIInv ==
  ASSUME IInv,
         \/ ApplyDeployment \/ ApplyService \/ GetSuggestions \/ CreateTrainJobsDone
         \/ DeleteDeployment \/ DeleteService \/ Fails
  PROVE  IInv' /\ status' = status
<1>1. UNCHANGED <<spec, trials, trialsSeen, status, statusSeen, missed, revised>>
  BY Zenon DEF ApplyDeployment, ApplyService, GetSuggestions, CreateTrainJobsDone,
         DeleteDeployment, DeleteService, Fails, cluster, caches, history
<1>2. \E pc, failed : /\ <<ctrl.pc, pc>> \in Moves
                      /\ ctrl' = [ctrl EXCEPT !.pc = pc, !.failed = failed]
  <2>1. ASSUME NEW pc, ctrl' = [ctrl EXCEPT !.pc = pc]
        PROVE  ctrl' = [ctrl EXCEPT !.pc = pc, !.failed = ctrl.failed]
    BY Zenon, <2>1 DEF IInv, TypesInv
  <2>2. CASE ApplyDeployment
    <3>1. <<ctrl.pc, "Service">> \in Moves /\ ctrl' = [ctrl EXCEPT !.pc = "Service"]
      BY Zenon, <2>2 DEF ApplyDeployment, Moves
    <3> QED
      BY Zenon, <2>1, <3>1
  <2>3. CASE ApplyService
    <3>1. <<ctrl.pc, "Ready">> \in Moves /\ ctrl' = [ctrl EXCEPT !.pc = "Ready"]
      BY Zenon, <2>3 DEF ApplyService, Moves
    <3> QED
      BY Zenon, <2>1, <3>1
  <2>4. CASE GetSuggestions
    <3>1. /\ <<ctrl.pc, "Create">> \in Moves /\ <<ctrl.pc, "Patch">> \in Moves
          /\ ctrl' = [ctrl EXCEPT !.pc = IF ctrl.request THEN "Create" ELSE "Patch",
                                  !.failed = ~ctrl.request]
      BY Zenon, <2>4 DEF GetSuggestions, Moves, Before
    <3> QED
      BY Zenon, <3>1
  <2>5. CASE CreateTrainJobsDone
    <3>1. <<ctrl.pc, "Patch">> \in Moves /\ ctrl' = [ctrl EXCEPT !.pc = "Patch"]
      BY Zenon, <2>5 DEF CreateTrainJobsDone, Moves
    <3> QED
      BY Zenon, <2>1, <3>1
  <2>6. CASE DeleteDeployment
    <3>1. <<ctrl.pc, "CleanService">> \in Moves /\ ctrl' = [ctrl EXCEPT !.pc = "CleanService"]
      BY Zenon, <2>6 DEF DeleteDeployment, Moves
    <3> QED
      BY Zenon, <2>1, <3>1
  <2>7. CASE DeleteService
    <3>1. <<ctrl.pc, "Patch">> \in Moves /\ ctrl' = [ctrl EXCEPT !.pc = "Patch"]
      BY Zenon, <2>7 DEF DeleteService, Moves
    <3> QED
      BY Zenon, <2>1, <3>1
  <2>8. CASE Fails
    <3>1. /\ <<ctrl.pc, "Patch">> \in Moves
          /\ ctrl' = [ctrl EXCEPT !.pc = "Patch", !.failed = TRUE]
      BY Zenon, <2>8 DEF Fails, Moves, Before
    <3> QED
      BY Zenon, <3>1
  <2> QED
    BY Zenon, <2>2, <2>3, <2>4, <2>5, <2>6, <2>7, <2>8
<1> QED
  BY Zenon, <1>1, <1>2, MoveIInv

LEMMA RestartIInv ==
  ASSUME IInv, Restart
  PROVE  IInv' /\ status' = status
<1>1. /\ UNCHANGED <<spec, trials, status, missed, revised>> /\ ctrl' = Idle
      /\ statusSeen' = status /\ trialsSeen' = trials
  BY Zenon DEF Restart, cluster, history
<1> QED
  BY Zenon, <1>1, EndIInv

\* Every step keeps the invariant, and a verdict once it is given.
LEMMA NextIInv ==
  ASSUME IInv, [Next]_vars
  PROVE  /\ IInv'
         /\ IsJobCompleted(status) /\ ~missed /\ ~revised =>
              Verdict(status') = Verdict(status)
<1>1. CASE Reconcile
  BY Zenon, <1>1, ReconcileIInv DEF Reconcile, cluster
<1>2. CASE CreateTrainJob
  BY Zenon, <1>2, CreateIInv DEF CreateTrainJob
<1>3. CASE CheckReady
  BY Zenon, <1>3, CheckReadyIInv DEF CheckReady, cluster
<1>4. CASE Patch
  BY Zenon, <1>4, PatchIInv
<1>5. CASE \/ ApplyDeployment \/ ApplyService \/ GetSuggestions \/ CreateTrainJobsDone
           \/ DeleteDeployment \/ DeleteService \/ Fails
  BY Zenon, <1>5, MovesIInv
<1>6. CASE Restart
  BY Zenon, <1>6, RestartIInv
<1>7. CASE \/ SyncTrials \/ SyncStatus \/ SyncDeployment \/ DeploymentAvailable
           \/ DeploymentUnavailable \/ TrialEnds \/ LateReport \/ UNCHANGED vars
  BY Zenon, <1>7, OutsideIInv
<1> QED
  BY Zenon, <1>1, <1>2, <1>3, <1>4, <1>5, <1>6, <1>7 DEF Next, Controller

-----------------------------------------------------------------------------
(***************************************************************************)
(* The controller never creates more than numTrials trials nor runs more   *)
(* than parallelTrials of them, for every spec, whatever calls fail,       *)
(* whenever it restarts and however old its caches are, as long as no list *)
(* of a reconcile misses a trial that was created.                         *)
(***************************************************************************)
THEOREM TrialsKeepToBudget == Spec => []TrialBudget
<1>1. IInv => TrialBudget
  BY Zenon DEF IInv, BudgetInv, TrialBudget
<1>2. IInv /\ [Next]_vars => IInv'
  BY Zenon, NextIInv
<1> QED
  BY <1>1, <1>2, InitIInv, PTL DEF Spec

(***************************************************************************)
(* An OptimizationJob is Complete only when all its trials have run and    *)
(* none has failed, as long as no list of a reconcile misses one.          *)
(***************************************************************************)
THEOREM CompleteIsTrue == Spec => []CompleteMeansFinished
<1>1. IInv => CompleteMeansFinished
  BY Zenon DEF IInv, VerdictInv, Said, Done, CompleteMeansFinished
<1>2. IInv /\ [Next]_vars => IInv'
  BY Zenon, NextIInv
<1> QED
  BY <1>1, <1>2, InitIInv, PTL DEF Spec

(***************************************************************************)
(* The merge patch of a reconcile that has not seen the Complete or Failed *)
(* condition of an OptimizationJob does not take it back, nor add the      *)
(* other, as long as no list misses a trial and no metric is late.         *)
(***************************************************************************)
THEOREM VerdictSticks == Spec => TerminalSticky
<1>1. IInv /\ [Next]_vars => IInv'
  BY Zenon, NextIInv
<1>2. IInv /\ [Next]_vars =>
        [IsJobCompleted(status) /\ ~missed /\ ~revised =>
           Verdict(status') = Verdict(status)]_vars
  BY Zenon, NextIInv
<1> QED
  BY <1>1, <1>2, InitIInv, PTL DEF Spec, TerminalSticky

-----------------------------------------------------------------------------
(***************************************************************************)
(* What holds at rest: an inductive form has to say what is under way when *)
(* it does not hold yet.                                                   *)
(***************************************************************************)

\* The cache has the current status.
Current == statusSeen.conditions = status.conditions /\ statusSeen.result = status.result

\* A reconcile works on the status that the cache holds, unless the job is queued.
ReadInv ==
  ctrl.pc # "Idle" /\ ~queued =>
    /\ ctrl.prev.conditions = statusSeen.conditions
    /\ ctrl.prev.result = statusSeen.result

\* Who will see to it that an ended job's service goes away.
CleanInv ==
  IsJobCompleted(status) =>
    \/ queued \/ ~Current
    \/ ctrl.pc = "CleanDeploy"
    \/ ctrl.pc = "CleanService" /\ deploy = "None"
    \/ ctrl.pc = "Patch" /\ (ctrl.failed \/ (deploy = "None" /\ ~service))
    \/ ctrl.pc = "Idle" /\ deploy = "None" /\ ~service

\* The result, or the one about to be written, is the best of the trials the cache
\* holds, unless the job is queued or will be.
BestInv ==
  ~queued /\ ValidTrials(trialsSeen) # {} =>
    IF ctrl.pc = "Idle" THEN Current => IsBest(trialsSeen, status.result)
    ELSE IsBest(trialsSeen, ctrl.next.result)

RestInv == IInv /\ ReadInv /\ CleanInv /\ BestInv

-----------------------------------------------------------------------------
\* ExtractBestResult prefers t to u.
Prefers(ts, t, u) ==
  \/ spec.direction = "minimize" /\ ts[t].metric < ts[u].metric
  \/ spec.direction = "maximize" /\ ts[t].metric > ts[u].metric
  \/ ts[t].metric = ts[u].metric /\ ts[t].born < ts[u].born
  \/ ts[t].metric = ts[u].metric /\ ts[t].born = ts[u].born /\ t < u

\* It is a strict order on the trials with a metric, in which any two compare.
LEMMA PrefersOrders ==
  ASSUME NEW ts \in [Trials -> TrialStates], spec \in AllSpecs,
         NEW t \in ValidTrials(ts), NEW u \in ValidTrials(ts), NEW v \in ValidTrials(ts)
  PROVE  /\ Better(ts, t, u) <=> Prefers(ts, t, u)
         /\ t # u => Prefers(ts, t, u) \/ Prefers(ts, u, t)
         /\ Prefers(ts, t, u) /\ Prefers(ts, u, v) => Prefers(ts, t, v)
         /\ ~Prefers(ts, t, t)
<1>1. \A w \in ValidTrials(ts) :
        w \in Nat /\ w # 0 /\ ts[w].metric \in Nat /\ ts[w].born \in 0 .. 1
  <2> SUFFICES ASSUME NEW w \in ValidTrials(ts)
               PROVE  w \in Nat /\ w # 0 /\ ts[w].metric \in Nat /\ ts[w].born \in 0 .. 1
    BY Zenon
  <2>1. w \in Trials /\ ts[w].metric \in Metrics
    BY Zenon DEF ValidTrials, InState, HasMetric
  <2>2. ts[w] \in TrialStates
    BY Zenon, <2>1
  <2>3. ts[w].born \in 0 .. 1
    BY Zenon, <2>2 DEF TrialStates
  <2>4. MaxTrials \in Nat /\ \A m \in Metrics : m \in Nat
    BY Zenon, SpecAssumption
  <2>5. w \in Nat /\ w # 0
    BY <2>1, <2>4 DEF Trials
  <2> QED BY Zenon, <2>1, <2>3, <2>4, <2>5
<1>2. spec.direction \in {"minimize", "maximize"}
  BY Zenon DEF AllSpecs
<1>3. Better(ts, t, u) <=> Prefers(ts, t, u)
  BY Zenon, <1>1, <1>2 DEF Better, Beats, Prefers, None
<1>4. t # u => Prefers(ts, t, u) \/ Prefers(ts, u, t)
  BY <1>1, <1>2 DEF Prefers
<1>5. Prefers(ts, t, u) /\ Prefers(ts, u, v) => Prefers(ts, t, v)
  BY <1>1, <1>2 DEF Prefers
<1>6. ~Prefers(ts, t, t)
  BY <1>1 DEF Prefers
<1> QED BY Zenon, <1>3, <1>4, <1>5, <1>6

\* A list of a finite set has every element of it (SetToSeqs).
LEMMA ListsAll ==
  ASSUME NEW S, IsFiniteSet(S), NEW order \in SetToSeqs(S)
  PROVE  /\ Cardinality(S) \in Nat /\ order \in [1 .. Cardinality(S) -> S]
         /\ \A t \in S : \E i \in 1 .. Cardinality(S) : order[i] = t
<1> DEFINE D == 1 .. Cardinality(S)
<1>1. Cardinality(S) \in Nat /\ order \in [D -> S] /\ \A i, j \in D : i # j => order[i] # order[j]
  BY Zenon, FS_CardinalityType DEF SetToSeqs
<1>2. order \in Injection(D, S)
  BY Zenon, <1>1 DEF Injection, IsInjective
<1>3. Cardinality(D) = Cardinality(S)
  BY <1>1, FS_Interval
<1>4. order \in Surjection(D, S)
  BY Zenon, <1>2, <1>3, FS_Injection
<1> QED BY Zenon, <1>1, <1>4 DEF Surjection

\* The loop of ExtractBestResult ends with the best trial, whatever the order of
\* the list, and with none only when no trial has a metric.
LEMMA ExtractIsBest ==
  ASSUME NEW ts \in [Trials -> TrialStates], spec \in AllSpecs,
         NEW order \in SetToSeqs(ValidTrials(ts))
  PROVE  /\ ValidTrials(ts) = {} => ExtractBestResult(ts, order) = None
         /\ ValidTrials(ts) # {} =>
              /\ ExtractBestResult(ts, order) # None
              /\ IsBest(ts, ExtractBestResult(ts, order))
<1> DEFINE S == ValidTrials(ts)
           n == Cardinality(S)
           D == 1 .. n
           V == Trials \union {None}
           Round(i, v) == IF Better(ts, order[i], v) THEN order[i] ELSE v
           Loop(iter) == iter = [T \in SUBSET DOMAIN order |->
                                   IF T = {} THEN None ELSE Round(Max(T), iter[T \ {Max(T)}])]
           it == CHOOSE iter : Loop(iter)
           Good(k) == IF k = 0 THEN it[1 .. k] = None
                      ELSE /\ it[1 .. k] \in S
                           /\ \A j \in 1 .. k : order[j] # it[1 .. k] =>
                                                   Prefers(ts, it[1 .. k], order[j])
<1>1. IsFiniteSet(S) /\ S \subseteq Trials
  <2>1. S \subseteq InState(ts, "Complete") /\ S \subseteq Trials
    BY Zenon DEF ValidTrials, InState
  <2> QED BY Zenon, <2>1, StatesFinite, FS_Subset
<1>2. /\ n \in Nat /\ order \in [D -> S] /\ DOMAIN order = D
      /\ \A t \in S : \E i \in D : order[i] = t
  BY <1>1, ListsAll
<1>3. n = 0 <=> S = {}
  BY Zenon, <1>1, FS_EmptySet
<1>4. \A t \in S : t # None
  BY <1>1 DEF None, Trials
<1> HIDE DEF S, n
<1>5. \E iter : Loop(iter)
  <2> DEFINE step == [i \in D |-> [v \in V |-> Round(i, v)]]
             pick == [T \in SUBSET D |-> Max(T)]
  <2>1. step \in [D -> [V -> V]]
    BY Zenon, <1>1, <1>2
  <2>2. \A T \in SUBSET D : T # {} => Max(T) \in T
    BY Zenon, <1>2, MaxOfSubset
  <2>3. Picks(pick, D)
    BY Zenon, <2>2 DEF Picks
  <2>4. IsFiniteSet(D)
    BY <1>2, FS_Interval
  <2>5. \A i \in D, v \in V : step[i][v] = Round(i, v)
    OBVIOUS
  <2>6. \A T \in SUBSET D : pick[T] = Max(T)
    OBVIOUS
  <2> HIDE DEF step, pick, D, V
  <2>7. None \in V
    BY DEF V
  <2>8. PICK f \in [SUBSET D -> V] : IsFold(f, D, None, step, pick)
    BY Zenon, <2>1, <2>3, <2>4, <2>7, FoldExists
  <2>9. \A T \in SUBSET D :
          f[T] = IF T = {} THEN None ELSE Round(Max(T), f[T \ {Max(T)}])
    <3> SUFFICES ASSUME NEW T \in SUBSET D, T # {}
                 PROVE  step[pick[T]][f[T \ {pick[T]}]] = Round(Max(T), f[T \ {Max(T)}])
      BY Zenon, <2>8 DEF IsFold
    <3>1. Max(T) \in D /\ f[T \ {Max(T)}] \in V
      BY Zenon, <2>2
    <3>2. step[Max(T)][f[T \ {Max(T)}]] = Round(Max(T), f[T \ {Max(T)}])
      <4> HIDE DEF Round
      <4> QED BY <2>5, <3>1, Zenon
    <3>3. pick[T] = Max(T)
      BY Zenon, <2>6
    <3> HIDE DEF Round
    <3> QED BY Zenon, <3>2, <3>3
  <2> HIDE DEF Round
  <2>10. f = [T \in SUBSET D |-> IF T = {} THEN None ELSE Round(Max(T), f[T \ {Max(T)}])]
    BY Zenon, <2>9
  <2> QED BY Zenon, <1>2, <2>10 DEF D
<1>6. Loop(it)
  <2> HIDE DEF Loop
  <2> QED BY Zenon, <1>5
<1>7. ExtractBestResult(ts, order) = it[D]
  BY Zenon, <1>2 DEF ExtractBestResult, FoldLeft, MapThenFoldSet
<1>8. /\ it[1 .. 0] = None
      /\ \A k \in 1 .. n : it[1 .. k] = Round(k, it[1 .. (k - 1)])
  <2> HIDE DEF it, Round
  <2>0. \A T \in SUBSET DOMAIN order :
          it[T] = IF T = {} THEN None ELSE Round(Max(T), it[T \ {Max(T)}])
    BY Zenon, <1>6
  <2>1. it[{}] = None /\ 1 .. 0 = {}
    BY SMTT(30), <2>0
  <2>2. ASSUME NEW k \in 1 .. n PROVE it[1 .. k] = Round(k, it[1 .. (k - 1)])
    <3>1. Max(1 .. k) = k /\ (1 .. k) \ {k} = 1 .. (k - 1)
      BY <1>2, MaxOfInterval
    <3>2. 1 .. k \in SUBSET (DOMAIN order) /\ 1 .. k # {}
      <4>1. n \in Nat /\ DOMAIN order = 1 .. n
        BY Zenon, <1>2
      <4>2. 1 .. k \subseteq 1 .. n /\ 1 \in 1 .. k
        BY <4>1
      <4> QED BY <4>1, <4>2, Zenon
    <3>3. it[1 .. k] = Round(Max(1 .. k), it[(1 .. k) \ {Max(1 .. k)}])
      BY <2>0, <3>2, Zenon
    <3> QED BY Zenon, <3>1, <3>3
  <2> QED BY Zenon, <2>1, <2>2
<1> HIDE DEF it, Loop
<1>9. Good(0)
  BY Zenon, <1>8
<1>10. ASSUME NEW k \in 1 .. n, Good(k - 1) PROVE Good(k)
  <2> DEFINE t == order[k]
             b == it[1 .. (k - 1)]
             r == it[1 .. k]
  <2>1. t \in S /\ r = Round(k, b) /\ k # 0
    BY SMTT(30), <1>2, <1>8
  <2>2. CASE k = 1
    <3>1. b = None /\ r = t
      BY SMTT(30), <1>10, <2>1, <2>2 DEF Better
    <3> QED BY SMTT(30), <2>1, <2>2, <3>1
  <2>3. CASE k # 1
    <3>1. b \in S /\ \A j \in 1 .. (k - 1) : order[j] # b => Prefers(ts, b, order[j])
      BY SMTT(30), <1>2, <1>10, <2>3
    <3>2. r = IF Prefers(ts, t, b) THEN t ELSE b
      BY SMTT(30), <2>1, <3>1, PrefersOrders DEF S
    <3>3. r \in S
      BY Zenon, <2>1, <3>1, <3>2
    <3>4. ASSUME NEW j \in 1 .. k, order[j] # r PROVE Prefers(ts, r, order[j])
      <4>1. order[j] \in S
        BY SMTT(30), <1>2
      <4>2. CASE j = k
        BY ZenonT(30), <2>1, <3>1, <3>2, <3>4, <4>2, PrefersOrders DEF S
      <4>3. CASE j # k
        <5>1. order[j] = b \/ Prefers(ts, b, order[j])
          BY <3>1, <4>3
        <5> QED BY ZenonT(30), <2>1, <3>1, <3>2, <3>4, <4>1, <5>1, PrefersOrders DEF S
      <4> QED BY Zenon, <4>2, <4>3
    <3> QED BY Zenon, <2>1, <3>3, <3>4
  <2> QED BY Zenon, <2>2, <2>3
<1>11. Good(n)
  <2> DEFINE T == {k \in 0 .. n : Good(k)}
  <2> HIDE DEF Good
  <2>1. 0 \in T /\ \A k \in 1 .. n : k - 1 \in T => k \in T
    BY <1>2, <1>9, <1>10
  <2> HIDE DEF T
  <2>2. 0 .. n \subseteq T
    BY Zenon, <1>2, <2>1, IntervalInduction
  <2> QED BY <1>2, <2>2 DEF T
<1>12. CASE S = {}
  BY Zenon, <1>3, <1>7, <1>11, <1>12 DEF S
<1>13. CASE S # {}
  <2>1. /\ it[D] \in S
        /\ \A j \in D : order[j] # it[D] => Prefers(ts, it[D], order[j])
    BY Zenon, <1>3, <1>11, <1>13
  <2>2. \A u \in S \ {it[D]} : Prefers(ts, it[D], u)
    BY Zenon, <1>2, <2>1
  <2> QED BY SMTT(30), <1>4, <1>7, <1>13, <2>1, <2>2 DEF IsBest, Prefers, S
<1> QED BY Zenon, <1>12, <1>13

-----------------------------------------------------------------------------
LEMMA ReconcileRestInv ==
  ASSUME RestInv, Reconcile
  PROVE  ReadInv' /\ CleanInv' /\ BestInv'
<1>1. UNCHANGED <<spec, trials, trialsSeen, status, statusSeen>>
  BY Zenon DEF Reconcile, cluster, caches
<1>2. PICK order \in SetToSeqs(ValidTrials(trialsSeen)) :
        LET best == ExtractBestResult(trialsSeen, order)
            d == Decide(trialsSeen, statusSeen)
        IN ctrl' = [pc |-> d.pc, prev |-> statusSeen, want |-> TrialsToSpawn(trialsSeen),
                    next |-> [conditions |-> statusSeen.conditions \union d.condition,
                              result |-> IF best = None THEN statusSeen.result ELSE best],
                    request |-> BuildSuggestionRequest(trialsSeen),
                    spawn |-> 0, failed |-> FALSE]
  BY ZenonT(30) DEF Reconcile
<1> DEFINE best == ExtractBestResult(trialsSeen, order)
<1>3. /\ ctrl'.pc = Decide(trialsSeen, statusSeen).pc /\ ctrl'.prev = statusSeen
      /\ ctrl'.next.result = IF best = None THEN statusSeen.result ELSE best
  BY Zenon, <1>2
<1>4. /\ ctrl'.pc # "Idle" /\ (IsJobCompleted(statusSeen) => ctrl'.pc = "CleanDeploy")
  BY Zenon, <1>1, <1>3, Decides
<1>5. /\ trialsSeen \in [Trials -> TrialStates]
      /\ ValidTrials(trialsSeen) # {} => best # None /\ IsBest(trialsSeen, best)
  BY Zenon, ExtractIsBest DEF RestInv, IInv, TypesInv
<1>6. \A ts, t : IsBest(ts, t)' <=> IsBest(ts, t)
  BY SMTT(30), <1>1 DEF IsBest
<1>7. BestInv'
  BY Zenon, <1>1, <1>3, <1>4, <1>5, <1>6 DEF BestInv
<1>8. CleanInv'
  BY Zenon, <1>1, <1>4 DEF CleanInv, Current, IsJobCompleted, Verdict
<1> QED BY Zenon, <1>1, <1>3, <1>7, <1>8 DEF ReadInv

\* The deferred patch writes what the reconcile found, or queues the job again.
LEMMA PatchRestInv ==
  ASSUME RestInv, Patch
  PROVE  ReadInv' /\ CleanInv' /\ BestInv'
<1>1. /\ ctrl.pc = "Patch" /\ ctrl'.pc = "Idle"
      /\ UNCHANGED <<spec, trialsSeen, statusSeen, deploy, service>>
  BY DEF Patch, caches, Idle
<1>2. PICK fails \in BOOLEAN :
        /\ status' = IF fails THEN status
                     ELSE [f \in {"conditions", "result"} |->
                             IF ctrl.next[f] # ctrl.prev[f] THEN ctrl.next[f] ELSE status[f]]
        /\ queued' = (queued \/ fails \/ ctrl.failed)
  BY Zenon DEF Patch
<1>3. ReadInv'
  BY Zenon, <1>1 DEF ReadInv
\* If nothing is queued and the cache is current, the patch had nothing to change.
<1>4. ASSUME ~queued', Current'
      PROVE  /\ ~queued /\ ~ctrl.failed /\ Current
             /\ status'.conditions = status.conditions /\ status'.result = ctrl.next.result
  <2>1. ~queued /\ ~fails /\ ~ctrl.failed
    BY Zenon, <1>2, <1>4
  <2>2. /\ status'.conditions = IF ctrl.next.conditions # ctrl.prev.conditions
                                THEN ctrl.next.conditions ELSE status.conditions
        /\ status'.result = IF ctrl.next.result # ctrl.prev.result
                            THEN ctrl.next.result ELSE status.result
    BY Zenon, <1>2, <2>1
  <2>3. /\ ctrl.prev.conditions = statusSeen.conditions
        /\ ctrl.prev.result = statusSeen.result
    BY Zenon, <1>1, <2>1 DEF RestInv, ReadInv
  <2>4. statusSeen.conditions = status'.conditions /\ statusSeen.result = status'.result
    BY Zenon, <1>1, <1>4 DEF Current
  <2>5. status'.conditions = status.conditions /\ status'.result = status.result
    BY Zenon, <2>2, <2>3, <2>4
  <2>6. status'.result = ctrl.next.result
    BY Zenon, <2>2, <2>3, <2>4
  <2> QED BY Zenon, <2>1, <2>4, <2>5, <2>6 DEF Current
<1>5. \A ts, t : IsBest(ts, t)' <=> IsBest(ts, t)
  BY <1>1 DEF IsBest
<1>6. BestInv'
  <2> SUFFICES ASSUME ~queued', ValidTrials(trialsSeen)' # {}, Current'
               PROVE  IsBest(trialsSeen, status.result)'
    BY Zenon, <1>1 DEF BestInv
  <2>1. IsBest(trialsSeen, ctrl.next.result)
    BY Zenon, <1>1, <1>4 DEF RestInv, BestInv
  <2> QED BY Zenon, <1>1, <1>4, <1>5, <2>1
<1>7. CleanInv'
  <2> SUFFICES ASSUME IsJobCompleted(status)', ~queued', Current'
               PROVE  deploy' = "None" /\ ~service'
    BY Zenon, <1>1 DEF CleanInv
  <2>1. IsJobCompleted(status)
    BY Zenon, <1>4 DEF IsJobCompleted, Verdict
  <2> QED BY Zenon, <1>1, <1>4, <2>1 DEF RestInv, CleanInv
<1> QED BY Zenon, <1>3, <1>6, <1>7

\* The steps of a reconcile after it has counted the trials.
LEMMA MovesRestInv ==
  ASSUME RestInv,
         \/ ApplyDeployment \/ ApplyService \/ CheckReady \/ GetSuggestions
         \/ CreateTrainJob \/ CreateTrainJobsDone
         \/ DeleteDeployment \/ DeleteService \/ Fails
  PROVE  ReadInv' /\ CleanInv' /\ BestInv'
<1>1. /\ UNCHANGED <<spec, trialsSeen, status, statusSeen>> /\ ctrl.pc # "Idle"
      /\ queued => queued'
  <2>1. CASE ApplyDeployment \/ CheckReady
    BY <2>1 DEF ApplyDeployment, CheckReady, cluster, caches
  <2>2. CASE GetSuggestions \/ CreateTrainJobsDone
    BY SMTT(30), <2>2 DEF GetSuggestions, CreateTrainJobsDone, cluster, caches
  <2>3. CASE CreateTrainJob
    BY Zenon, <2>3 DEF CreateTrainJob, caches
  <2>4. CASE DeleteDeployment \/ Fails
    BY <2>4 DEF DeleteDeployment, Fails, cluster, caches
  <2>5. CASE ApplyService \/ DeleteService
    <3>1. UNCHANGED <<spec, trialsSeen, status, statusSeen>> /\ ctrl.pc # "Idle"
      BY <2>5 DEF ApplyService, DeleteService, caches
    <3>2. queued => queued'
      BY <2>5, Zenon DEF ApplyService, DeleteService
    <3> QED BY Zenon, <3>1, <3>2
  <2> QED BY Zenon, <2>1, <2>2, <2>3, <2>4, <2>5
<1>2. /\ ctrl = [pc |-> ctrl.pc, prev |-> ctrl.prev, next |-> ctrl.next, want |-> ctrl.want,
                 request |-> ctrl.request, spawn |-> ctrl.spawn, failed |-> ctrl.failed]
      /\ ctrl.next = [conditions |-> ctrl.next.conditions, result |-> ctrl.next.result]
  BY Zenon DEF RestInv, IInv, TypesInv
<1>3. ctrl'.pc # "Idle" /\ ctrl'.next.result = ctrl.next.result /\ ctrl'.prev = ctrl.prev
  <2>1. CASE CheckReady
    BY Zenon, <1>2, <2>1 DEF CheckReady
  <2>2. CASE CreateTrainJob
    BY Zenon, <1>2, <2>2 DEF CreateTrainJob
  <2>3. CASE ApplyDeployment \/ ApplyService
    BY Zenon, <1>2, <2>3 DEF ApplyDeployment, ApplyService
  <2>4. CASE GetSuggestions \/ CreateTrainJobsDone
    BY ZenonT(30), <1>2, <2>4 DEF GetSuggestions, CreateTrainJobsDone
  <2>5. CASE DeleteDeployment \/ DeleteService
    BY Zenon, <1>2, <2>5 DEF DeleteDeployment, DeleteService
  <2>6. CASE Fails
    BY Zenon, <1>2, <2>6 DEF Fails
  <2> QED BY Zenon, <2>1, <2>2, <2>3, <2>4, <2>5, <2>6
<1>4. \A ts, t : IsBest(ts, t)' <=> IsBest(ts, t)
  BY SMTT(30), <1>1 DEF IsBest
<1>5. BestInv'
  BY Zenon, <1>1, <1>3, <1>4 DEF RestInv, BestInv
<1>6. ReadInv'
  BY Zenon, <1>1, <1>3 DEF RestInv, ReadInv
<1>7. CleanInv'
  <2>1. (IsJobCompleted(status)' <=> IsJobCompleted(status)) /\ (Current' <=> Current)
    BY Zenon, <1>1 DEF IsJobCompleted, Verdict, Current
  <2> SUFFICES ASSUME IsJobCompleted(status), ~queued', Current
               PROVE  \/ ctrl'.pc = "CleanService" /\ deploy' = "None"
                      \/ ctrl'.pc = "Patch" /\ (ctrl'.failed \/ (deploy' = "None" /\ ~service'))
    BY Zenon, <2>1 DEF CleanInv
  <2>2. IsJobCompleted(ctrl.prev)
    BY Zenon, <1>1 DEF RestInv, ReadInv, Current, IsJobCompleted, Verdict
  <2>3. /\ ctrl.pc \in {"CleanDeploy", "CleanService", "Patch"}
        /\ ctrl.pc = "CleanService" => deploy = "None"
    BY Zenon, <1>1, <2>2 DEF RestInv, CleanInv, IInv, SeenInv, After
  <2>4. DeleteDeployment \/ DeleteService \/ Fails
    BY Zenon, <2>3 DEF ApplyDeployment, ApplyService, CheckReady, GetSuggestions, CreateTrainJob,
         CreateTrainJobsDone
  <2>5. CASE DeleteDeployment
    BY Zenon, <1>2, <2>5 DEF DeleteDeployment
  <2>6. CASE DeleteService
    BY Zenon, <1>2, <2>3, <2>6 DEF DeleteService
  <2>7. CASE Fails
    BY Zenon, <1>2, <2>7 DEF Fails
  <2> QED BY Zenon, <2>4, <2>5, <2>6, <2>7
<1> QED BY Zenon, <1>5, <1>6, <1>7

LEMMA OutsideRestInv ==
  ASSUME RestInv,
         \/ SyncTrials \/ SyncStatus \/ SyncDeployment \/ DeploymentAvailable
         \/ DeploymentUnavailable \/ TrialEnds \/ LateReport \/ Restart \/ UNCHANGED vars
  PROVE  ReadInv' /\ CleanInv' /\ BestInv'
<1>1. UNCHANGED <<spec, status, service>>
  BY Zenon DEF SyncTrials, SyncStatus, SyncDeployment, DeploymentAvailable, DeploymentUnavailable,
         TrialEnds, LateReport, Restart, vars, cluster, caches
<1>2. \A ts, t : IsBest(ts, t)' <=> IsBest(ts, t)
  BY <1>1 DEF IsBest
<1>3. IsJobCompleted(status)' <=> IsJobCompleted(status)
  BY Zenon, <1>1 DEF IsJobCompleted, Verdict
<1>4. CASE SyncTrials \/ SyncStatus \/ SyncDeployment \/ Restart
  <2>1. queued' = TRUE
    BY Zenon, <1>4 DEF SyncTrials, SyncStatus, SyncDeployment, Restart
  <2> QED BY ZenonT(30), <2>1 DEF ReadInv, CleanInv, BestInv
<1>5. CASE \/ DeploymentAvailable \/ DeploymentUnavailable \/ TrialEnds \/ LateReport
           \/ UNCHANGED vars
  <2>1. UNCHANGED <<trialsSeen, statusSeen, ctrl, queued>>
    BY Zenon, <1>5 DEF DeploymentAvailable, DeploymentUnavailable, TrialEnds, LateReport, vars, caches
  <2>2. deploy = "None" => deploy' = "None"
    BY Zenon, <1>5 DEF DeploymentAvailable, DeploymentUnavailable, TrialEnds, LateReport, vars, cluster
  <2>3. ReadInv' /\ BestInv'
    BY Zenon, <1>1, <1>2, <2>1 DEF RestInv, ReadInv, BestInv, Current
  <2>4. CleanInv'
    BY Zenon, <1>1, <1>3, <2>1, <2>2 DEF RestInv, CleanInv, Current
  <2> QED BY Zenon, <2>3, <2>4
<1> QED BY Zenon, <1>4, <1>5

LEMMA InitRestInv == Init => RestInv
<1> SUFFICES ASSUME Init PROVE RestInv
  BY Zenon
<1>1. IInv
  BY Zenon, InitIInv
<1>2. queued = TRUE /\ ctrl.pc = "Idle"
  BY Zenon DEF Init, Idle
<1> QED BY Zenon, <1>1, <1>2 DEF RestInv, ReadInv, CleanInv, BestInv

LEMMA NextRestInv ==
  ASSUME RestInv, [Next]_vars
  PROVE  RestInv'
<1>1. IInv'
  BY Zenon, NextIInv DEF RestInv
<1>2. ReadInv' /\ CleanInv' /\ BestInv'
  BY Zenon, ReconcileRestInv, PatchRestInv, MovesRestInv, OutsideRestInv DEF Next, Controller
<1> QED BY Zenon, <1>1, <1>2 DEF RestInv

(***************************************************************************)
(* At rest the result is the best trial, for every list order, number of   *)
(* trials, late report and fault (ExtractBestResult), however old the      *)
(* caches of the reconciles before were.                                   *)
(***************************************************************************)
THEOREM ResultIsTheBest == Spec => []ResultIsBest
<1>1. RestInv => ResultIsBest
  BY Zenon DEF RestInv, BestInv, ResultIsBest, Settled, Current
<1>2. RestInv /\ [Next]_vars => RestInv'
  BY Zenon, NextRestInv
<1> QED
  BY <1>1, <1>2, InitRestInv, PTL DEF Spec

(***************************************************************************)
(* At rest an ended OptimizationJob has no algorithm service left,         *)
(* whichever of its deletes or its status patch failed before and however  *)
(* late its verdict was seen (cleanupAlgorithmService).                    *)
(***************************************************************************)
THEOREM ServiceIsCleanedUp == Spec => []CleanedUp
<1>1. RestInv => CleanedUp
  BY Zenon DEF RestInv, CleanInv, CleanedUp, Settled, Current
<1>2. RestInv /\ [Next]_vars => RestInv'
  BY NextRestInv
<1> QED
  BY <1>1, <1>2, InitRestInv, PTL DEF Spec
=============================================================================
