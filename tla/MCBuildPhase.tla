---------------------------- MODULE MCBuildPhase ----------------------------
(* Instances of BuildPhase: three shapes of runtime template, with the sizes *)
(* varied around the boundaries (unset, 0, 1, not divisible).                *)
EXTENDS BuildPhase

Job(name, ancestor, replicas, parallelism, gpus, dependsOn) ==
  [name |-> name, ancestor |-> ancestor, replicas |-> replicas,
   parallelism |-> parallelism, gpus |-> gpus, dependsOn |-> dependsOn]

Initializers ==
  {<<"dataset-initializer", "Complete">>, <<"model-initializer", "Complete">>}

NodeOnly(replicas, gpus) == <<Job("node", "trainer", replicas, Unset, gpus, {})>>

WithInitializers(replicas, gpus, deps) ==
  <<Job("dataset-initializer", "dataset-initializer", 1, Unset, 0, {}),
    Job("model-initializer", "model-initializer", 1, Unset, 0, {}),
    Job("node", "trainer", replicas, Unset, gpus, deps)>>

NodeAndLauncher(replicas, parallelism, gpus, deps) ==
  <<Job("node", "None", replicas, parallelism, gpus, {}),
    Job("launcher", "trainer", 1, Unset, gpus, deps)>>

RuntimesOf(templates, policies, numNodes, procs, asNode, subdomains, gang) ==
  [jobs: templates, policy: policies, numNodes: numNodes, procs: procs,
   launcherAsNode: asNode, subdomain: subdomains, gang: gang]

TrainersOf(numNodes, gpus) ==
  [numNodes: numNodes, procs: {Unset, 3}, gpus: gpus]

Trainable ==
  {NodeOnly(r, g) : r \in 0 .. 3, g \in {0, 2}}
    \union {WithInitializers(r, 2, {}) : r \in 1 .. 2}
MPITrainable == {NodeAndLauncher(r, p, 2, {}) : r \in 1 .. 2, p \in {Unset, 2}}

\* Gangs of jobs that start at once, and jobs that wait for others, in a gang or not.
Shapes ==
  RuntimesOf(Trainable, MLPolicies \ {"MPI", "Flux"}, {Unset, 1, 3, 4}, {1}, {FALSE},
             {"default"}, {TRUE})
  \union RuntimesOf(Trainable, {"Flux"}, {Unset, 1, 3, 4}, {1, 2}, {FALSE},
                    {"default"}, {TRUE})
  \union RuntimesOf(Trainable \union MPITrainable, {"MPI"}, {Unset, 1}, {1, 2}, BOOLEAN,
                    {"default", "custom"}, {TRUE})
  \union RuntimesOf({WithInitializers(r, 0, Initializers) : r \in 1 .. 2},
                    {"JAX", "Torch"}, {Unset, 2, 3}, {1}, {FALSE}, {"default"}, BOOLEAN)
  \union RuntimesOf({NodeAndLauncher(1, Unset, 0, {<<"node", "Ready">>})}, {"MPI"},
                    {1}, {1}, BOOLEAN, {"default"}, BOOLEAN)

\* The theorems about BuildPhase are about such templates.
ASSUME ShapesAreWellFormed == \A rt \in Shapes : WellFormed(rt)

Sizes == TrainersOf({Unset, 0, 1, 2, 3}, {Unset, 0, 4})
=============================================================================
