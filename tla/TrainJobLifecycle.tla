-------------------------- MODULE TrainJobLifecycle --------------------------
(***************************************************************************)
(* What a TrainJob promises to whoever watches it, without controllers,    *)
(* caches or requests: its workload ends, and the TrainJob reports how.    *)
(* An outcome is reported only after the workload reached it, a verdict is *)
(* never taken back, and an end of the workload is reported in the end     *)
(* unless its owner suspends the TrainJob meanwhile.                       *)
(***************************************************************************)
CONSTANT MayExpire    \* the TrainJob has an activeDeadlineSeconds

VARIABLES
  exists,      \* the TrainJob was created
  held,        \* its owner asks for it to be suspended
  reached,     \* the outcomes its workload has come to
  complete,    \* the Complete condition
  failed       \* the reason of the Failed condition, "None" when it is not set

vars == <<exists, held, reached, complete, failed>>

Finished == complete \/ failed # "None"

Init == ~exists /\ ~held /\ reached = {} /\ ~complete /\ failed = "None"

Create ==
  /\ ~exists /\ exists' = TRUE
  /\ held' \in BOOLEAN
  /\ UNCHANGED <<reached, complete, failed>>

Hold ==
  /\ exists /\ held' = ~held
  /\ UNCHANGED <<exists, reached, complete, failed>>

Reach(outcome) ==
  /\ exists /\ outcome \notin reached
  /\ reached' = reached \union {outcome}
  /\ UNCHANGED <<exists, held, complete, failed>>

ReportComplete ==
  /\ "Completed" \in reached
  /\ ~complete /\ complete' = TRUE
  /\ UNCHANGED <<exists, held, reached, failed>>

ReportFailed ==
  /\ "Failed" \in reached
  /\ failed = "None" /\ failed' = "JobSetFailed"
  /\ UNCHANGED <<exists, held, reached, complete>>

\* Only a TrainJob without a verdict expires.
Expire ==
  /\ MayExpire /\ exists /\ ~Finished
  /\ failed' = "DeadlineExceeded"
  /\ UNCHANGED <<exists, held, reached, complete>>

Next == \/ Create \/ Hold \/ ReportComplete \/ ReportFailed \/ Expire
        \/ \E outcome \in {"Completed", "Failed"} : Reach(outcome)

Safe == Init /\ [][Next]_vars

Spec == Safe /\ (reached # {} ~> Finished \/ held)
=============================================================================
