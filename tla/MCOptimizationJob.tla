-------------------------- MODULE MCOptimizationJob --------------------------
(***************************************************************************)
(* Both directions, one trial after the other and two at a time, and an    *)
(* algorithm that is not supported.                                        *)
(***************************************************************************)
EXTENDS OptimizationJob

Of(random, direction, numTrials, parallelTrials) ==
  [random |-> random, direction |-> direction,
   numTrials |-> numTrials, parallelTrials |-> parallelTrials]

MCSpecs == {Of(TRUE, "minimize", 2, 1), Of(TRUE, "maximize", 2, 2),
            Of(FALSE, "minimize", 1, 1)}
=============================================================================
