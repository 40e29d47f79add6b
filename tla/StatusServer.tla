---------------------------- MODULE StatusServer ----------------------------
(***************************************************************************)
(* The runtime status server: the trainer's rank 0 posts its progress, the *)
(* server (which runs on every replica of the manager, without leader      *)
(* election) applies it to TrainJob.status.trainerStatus with a forced     *)
(* server-side apply, and the TrainJob controller meanwhile patches the    *)
(* conditions of the same status.  A report is its lastUpdatedTime, the    *)
(* position at which the reporter took it.                                 *)
(***************************************************************************)
EXTENDS Integers, FiniteSets

CONSTANTS
  MaxReports,     \* reports taken by one TrainJob's reporter
  MaxTimeouts,    \* times the reporter gives up on an answer
  MaxFaults,      \* API server or token verification errors, replicas that stop
  MaxRecreations, \* times the TrainJob is deleted and created again
  MaxPatches      \* condition patches of the controller

ASSUME BoundsAssumption ==
  {MaxReports, MaxTimeouts, MaxFaults, MaxRecreations, MaxPatches} \subseteq Nat

VARIABLES
  uid,       \* the TrainJob stored under the name (0: none)
  created,   \* TrainJobs created so far under this name
  trainer,   \* status.trainerStatus: [of, time], time 0 when nil
  conds,     \* status.conditions, as the number of patches applied to them
  read,      \* the controller's cached copy between its read and its patch
  requests,  \* requests in the handlers, on any replica
  sent,      \* reports the reporter has taken
  waiting,   \* the reporter blocks on its last request
  acked,     \* the last report answered with 200
  timeouts, faults

vars == <<uid, created, trainer, conds, read, requests, sent, waiting, acked,
          timeouts, faults>>

Kinds == {"status", "empty", "malformed"}
Stages == {"received", "authorized", "applied"}
Nil(u) == [of |-> u, time |-> 0]
NoCopy == [trainer |-> Nil(0), conds |-> -1]

Init ==
  /\ uid = 1 /\ created = 1 /\ trainer = Nil(1) /\ conds = 0
  /\ read = NoCopy /\ requests = {}
  /\ sent = 0 /\ waiting = FALSE /\ acked = 0
  /\ timeouts = 0 /\ faults = 0

-----------------------------------------------------------------------------
(* The reporter: one request at a time, given up after its own timeout.    *)

Report(kind) ==
  /\ uid # 0 /\ ~waiting /\ sent < MaxReports
  /\ sent' = sent + 1 /\ waiting' = TRUE
  /\ requests' = requests \cup
       {[of |-> uid, time |-> sent + 1, kind |-> kind, stage |-> "received"]}
  /\ UNCHANGED <<uid, created, trainer, conds, read, acked, timeouts, faults>>

\* The reporter closes the connection, which cancels the handler's context: the
\* handler ends, or goes on with an apply that is under way.
GiveUp ==
  /\ waiting /\ timeouts < MaxTimeouts
  /\ timeouts' = timeouts + 1 /\ waiting' = FALSE
  /\ \/ UNCHANGED requests
     \/ requests' = {r \in requests : ~(r.of = uid /\ r.time = sent)}
  /\ UNCHANGED <<uid, created, trainer, conds, read, sent, acked, faults>>

-----------------------------------------------------------------------------
(* The handler.  Answer ends request r; ok says whether it answers 200.    *)

Awaited(r) == waiting /\ r.of = uid /\ r.time = sent

AnswerAlwaysOK(r, ok) ==
  /\ requests' = requests \ {r}
  /\ waiting' = (waiting /\ ~Awaited(r))
  /\ acked' = IF Awaited(r) /\ r.kind = "status" THEN r.time ELSE acked

Answer(r, ok) ==
  /\ requests' = requests \ {r}
  /\ waiting' = (waiting /\ ~Awaited(r))
  /\ acked' = IF ok /\ Awaited(r) /\ r.kind = "status" THEN r.time ELSE acked

\* The token's audience names the TrainJob, and its issuer says it is bound to
\* a Pod of the namespace: the Pods of every TrainJob of that name pass.
Authorize(r) ==
  /\ r \in requests /\ r.stage = "received"
  /\ requests' = (requests \ {r}) \cup {[r EXCEPT !.stage = "authorized"]}
  /\ UNCHANGED <<uid, created, trainer, conds, read, sent, waiting, acked, timeouts, faults>>

\* 500 for a provider that is not initialised, 403 for a token that expired.
Refuse(r) ==
  /\ r \in requests /\ r.stage = "received" /\ faults < MaxFaults
  /\ faults' = faults + 1
  /\ Answer(r, FALSE)
  /\ UNCHANGED <<uid, created, trainer, conds, read, sent, timeouts>>

\* 422 for a payload that does not decode, 200 without a write for an empty
\* one, 404 for a report of a TrainJob that is gone.
ApplyNothing(r) ==
  /\ r \in requests /\ r.stage = "authorized" /\ (r.kind = "status" => uid = 0)
  /\ Answer(r, r.kind = "empty")
  /\ UNCHANGED <<uid, created, trainer, conds, read, sent, timeouts, faults>>

\* What the apply of a report writes.
ToApplyConfig(r) == [of |-> r.of, time |-> r.time]

CanApply(r) == r.stage = "authorized" /\ r.kind = "status" /\ uid # 0

\* The forced apply of trainerStatus, whatever is stored and whichever
\* TrainJob of that name it is stored in.
Apply(r) ==
  /\ r \in requests /\ CanApply(r)
  /\ trainer' = ToApplyConfig(r)
  /\ requests' = (requests \ {r}) \cup {[r EXCEPT !.stage = "applied"]}
  /\ UNCHANGED <<uid, created, conds, read, sent, waiting, acked, timeouts, faults>>

\* The 200 that echoes the payload.
Respond(r) ==
  /\ r \in requests /\ r.stage = "applied"
  /\ Answer(r, TRUE)
  /\ UNCHANGED <<uid, created, trainer, conds, read, sent, timeouts, faults>>

\* An apply whose outcome nobody is told may have been committed.
MaybeApplied(r) ==
  \/ UNCHANGED trainer
  \/ CanApply(r) /\ trainer' = ToApplyConfig(r)

\* Every other error of the client is answered with 500.
ApplyFails(r) ==
  /\ r \in requests /\ r.stage = "authorized" /\ r.kind = "status"
  /\ faults < MaxFaults
  /\ faults' = faults + 1
  /\ MaybeApplied(r) /\ Answer(r, FALSE)
  /\ UNCHANGED <<uid, created, conds, read, sent, timeouts>>

\* The replica stops before the handler is done: the reporter's connection breaks.
Stop(r) ==
  /\ r \in requests /\ faults < MaxFaults
  /\ faults' = faults + 1
  /\ MaybeApplied(r) /\ Answer(r, FALSE)
  /\ UNCHANGED <<uid, created, conds, read, sent, timeouts>>

-----------------------------------------------------------------------------
(* The TrainJob controller's status patch, against the copy it read.       *)

ControllerReads ==
  /\ uid # 0 /\ read = NoCopy /\ conds < MaxPatches
  /\ read' = [trainer |-> trainer, conds |-> conds]
  /\ UNCHANGED <<uid, created, trainer, conds, requests, sent, waiting, acked, timeouts, faults>>

\* Mutant: the whole status is written back.
ControllerUpdates ==
  /\ read # NoCopy /\ read' = NoCopy
  /\ conds' = IF uid = 0 THEN conds ELSE read.conds + 1
  /\ trainer' = IF uid = 0 THEN trainer ELSE read.trainer
  /\ UNCHANGED <<uid, created, requests, sent, waiting, acked, timeouts, faults>>

\* A merge patch carries only what the reconcile changed: the conditions.  It goes
\* to the TrainJob of that name, whichever that is, and fails when there is none.
ControllerPatches ==
  /\ read # NoCopy /\ read' = NoCopy
  /\ conds' = IF uid = 0 THEN conds ELSE read.conds + 1
  /\ UNCHANGED <<uid, created, trainer, requests, sent, waiting, acked, timeouts, faults>>

\* The user deletes the TrainJob; its Pods, and with them the reporter, stop.
Delete ==
  /\ uid # 0 /\ created <= MaxRecreations
  /\ uid' = 0 /\ trainer' = Nil(0) /\ conds' = 0
  /\ sent' = 0 /\ waiting' = FALSE /\ acked' = 0
  /\ UNCHANGED <<created, read, requests, timeouts, faults>>

Recreate ==
  /\ uid = 0
  /\ uid' = created + 1 /\ created' = created + 1 /\ trainer' = Nil(created + 1)
  /\ UNCHANGED <<conds, read, requests, sent, waiting, acked, timeouts, faults>>

Next ==
  \/ \E k \in Kinds : Report(k)
  \/ GiveUp
  \/ \E r \in requests : \/ Authorize(r) \/ Refuse(r)
                         \/ ApplyNothing(r) \/ Apply(r) \/ ApplyFails(r)
                         \/ Respond(r) \/ Stop(r)
  \/ ControllerReads \/ ControllerPatches
  \/ Delete \/ Recreate

Spec == Init /\ [][Next]_vars

-----------------------------------------------------------------------------
(* Every variable of the server, the reporter and the stored status holds  *)
(* a value of its type.                                                    *)
TypeOK ==
  /\ created \in 1..(MaxRecreations + 1) /\ uid \in {0, created}
  /\ trainer \in [of : 0..created, time : 0..MaxReports]
  /\ conds \in 0..MaxPatches
  /\ read \in [trainer : [of : 0..created, time : 0..MaxReports], conds : -1..(MaxPatches - 1)]
  /\ requests \subseteq [of : 1..created, time : 1..MaxReports, kind : Kinds, stage : Stages]
  /\ sent \in 0..MaxReports /\ waiting \in BOOLEAN /\ acked \in 0..MaxReports
  /\ timeouts \in 0..MaxTimeouts /\ faults \in 0..MaxFaults

(* A report answered with 200 is in the TrainJob's status, or a later one  *)
(* is, as long as the reporter waited for every answer: nothing between    *)
(* the apply and the 200, no replica that stops there, no error path of    *)
(* the handler, no patch of the same status by the controller and no       *)
(* re-creation of the TrainJob loses it (handleTrainJobRuntimeStatus,      *)
(* TrainJobReconciler.Reconcile), except that a request of the earlier     *)
(* TrainJob of that name may overwrite it.                                 *)
AckedIsStored ==
  timeouts = 0 /\ uid # 0 /\ trainer.of = uid => trainer.time >= acked

(* The progress shown by one TrainJob never steps back while the reporter  *)
(* waits for its answers: the apply is forced and compares no times        *)
(* (toApplyConfig), so the order rests on one request being under way at a *)
(* time and on the controller's patch leaving trainerStatus out.           *)
ProgressAdvances ==
  [][timeouts = 0 /\ uid' = uid /\ trainer.of = uid /\ trainer'.of = uid
       => trainer'.time >= trainer.time]_vars
=============================================================================
