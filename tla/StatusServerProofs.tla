------------------------- MODULE StatusServerProofs -------------------------
(***************************************************************************)
(* No report that was answered with 200 is lost, for any number of         *)
(* reports, faults and condition patches of the controller.                *)
(***************************************************************************)
EXTENDS StatusServer, TLAPS

(* While the reporter has waited for every answer, of the stored TrainJob's *)
(* requests only the last is in a handler; once it is applied, the stored   *)
(* report of that TrainJob is the last one, so its 200 finds it there.      *)
InOrder ==
  timeouts = 0 /\ uid # 0 =>
    /\ acked <= sent
    /\ \A r \in requests : r.of = uid =>
         /\ waiting /\ r.time = sent
         /\ r.stage = "applied" /\ trainer.of = uid => trainer.time = sent
    /\ \A r, s \in requests : r.of = uid /\ s.of = uid => r = s
    /\ trainer.of = uid => acked <= trainer.time /\ trainer.time <= sent

IInv ==
  /\ TypeOK
  /\ uid = 0 => created <= MaxRecreations /\ sent = 0 /\ acked = 0
  /\ InOrder

LEMMA InitIInv == Init => IInv
<1> SUFFICES ASSUME Init PROVE IInv
  OBVIOUS
<1>1. waiting \in BOOLEAN
  BY Zenon DEF Init
<1>2. /\ created \in 1..(MaxRecreations + 1) /\ conds \in 0..MaxPatches
      /\ sent \in 0..MaxReports /\ acked \in 0..MaxReports
      /\ timeouts \in 0..MaxTimeouts /\ faults \in 0..MaxFaults
  BY BoundsAssumption DEF Init
<1>3. trainer \in [of : 0..created, time : 0..MaxReports]
  BY BoundsAssumption DEF Init, Nil
<1>4. read \in [trainer : [of : 0..created, time : 0..MaxReports],
                conds : -1..(MaxPatches - 1)]
  BY BoundsAssumption DEF Init, NoCopy, Nil
<1>5. TypeOK
  BY <1>1, <1>2, <1>3, <1>4 DEF Init, TypeOK
<1> QED BY <1>5 DEF Init, IInv, InOrder, Nil

(* Every answer of the handler leaves the reporter and acked well typed.   *)
LEMMA AnswerKeepsTypes ==
  ASSUME TypeOK, NEW r \in requests, NEW ok, Answer(r, ok)
  PROVE  /\ requests' \subseteq requests /\ waiting' \in BOOLEAN
         /\ acked' \in 0..MaxReports /\ (waiting' => waiting)
         /\ uid = 0 => acked' = acked
<1>1. requests' \subseteq requests
  BY DEF Answer
<1>2. waiting' \in BOOLEAN /\ (waiting' => waiting)
  BY Zenon DEF Answer
<1>3. acked' \in 0..MaxReports
  BY BoundsAssumption DEF Answer, TypeOK
<1>4. uid = 0 => acked' = acked
  BY DEF Answer, Awaited, TypeOK
<1> QED BY <1>1, <1>2, <1>3, <1>4

LEMMA NextIInv == IInv /\ [Next]_vars => IInv'
<1> SUFFICES ASSUME IInv, [Next]_vars PROVE IInv'
  OBVIOUS
<1> USE BoundsAssumption DEF IInv, TypeOK, InOrder
<1>1. ASSUME NEW k \in Kinds, Report(k) PROVE IInv'
  BY <1>1 DEF Report, Kinds, Stages
<1>2. CASE GiveUp
  <2>1. waiting' \in BOOLEAN
    BY <1>2, Zenon DEF GiveUp
  <2> QED BY <1>2, <2>1 DEF GiveUp
<1>3. ASSUME NEW r \in requests, Authorize(r) PROVE IInv'
  BY <1>3 DEF Authorize, Kinds, Stages
<1>4. ASSUME NEW r \in requests, Refuse(r) PROVE IInv'
  <2>1. Answer(r, FALSE)
    BY <1>4 DEF Refuse
  <2>2. /\ requests' \subseteq requests /\ waiting' \in BOOLEAN
        /\ acked' \in 0..MaxReports /\ (uid = 0 => acked' = acked)
    BY <2>1, AnswerKeepsTypes
  <2>3. TypeOK'
    BY <1>4, <2>2 DEF Refuse
  <2>4. InOrder'
    BY <1>4, <2>1, <2>2 DEF Refuse, Answer, Awaited
  <2> QED BY <1>4, <2>2, <2>3, <2>4 DEF Refuse
<1>5. ASSUME NEW r \in requests, Apply(r) PROVE IInv'
  <2>1. TypeOK'
    BY <1>5 DEF Apply, CanApply, ToApplyConfig, Kinds, Stages
  <2>2. InOrder'
    BY <1>5 DEF Apply, CanApply, ToApplyConfig, Kinds, Stages
  <2> QED BY <1>5, <2>1, <2>2 DEF Apply
<1>6. ASSUME NEW r \in requests, ApplyNothing(r) PROVE IInv'
  <2>1. Answer(r, r.kind = "empty")
    BY <1>6 DEF ApplyNothing
  <2>2. /\ requests' \subseteq requests /\ waiting' \in BOOLEAN
        /\ acked' \in 0..MaxReports /\ (uid = 0 => acked' = acked)
    BY <2>1, AnswerKeepsTypes
  <2>3. TypeOK'
    BY <1>6, <2>2 DEF ApplyNothing
  <2>4. InOrder'
    BY <1>6, <2>1, <2>2 DEF ApplyNothing, Answer, Awaited
  <2> QED BY <1>6, <2>2, <2>3, <2>4 DEF ApplyNothing
<1>7. ASSUME NEW r \in requests, Respond(r) PROVE IInv'
  <2>1. Answer(r, TRUE)
    BY <1>7 DEF Respond
  <2>2. /\ requests' \subseteq requests /\ waiting' \in BOOLEAN
        /\ acked' \in 0..MaxReports /\ (uid = 0 => acked' = acked)
    BY <2>1, AnswerKeepsTypes
  <2>3. TypeOK'
    BY <1>7, <2>2 DEF Respond
  <2>4. InOrder'
    BY <1>7, <2>1, <2>2 DEF Respond, Answer, Awaited
  <2> QED BY <1>7, <2>2, <2>3, <2>4 DEF Respond
<1>8. ASSUME NEW r \in requests, ApplyFails(r) \/ Stop(r) PROVE IInv'
  <2>1. Answer(r, FALSE)
    BY <1>8 DEF ApplyFails, Stop
  <2>2. /\ requests' \subseteq requests /\ waiting' \in BOOLEAN
        /\ acked' \in 0..MaxReports /\ (uid = 0 => acked' = acked)
    BY <2>1, AnswerKeepsTypes
  <2>3. UNCHANGED <<uid, created, conds, read, sent, timeouts>> /\ MaybeApplied(r)
    BY <1>8 DEF ApplyFails, Stop
  <2>4. trainer' \in [of : 0..created, time : 0..MaxReports]
    BY <2>3 DEF MaybeApplied, CanApply, ToApplyConfig
  <2>5. faults' \in 0..MaxFaults
    <3>1. faults < MaxFaults /\ faults' = faults + 1
      BY <1>8, Zenon DEF ApplyFails, Stop
    <3> QED BY <3>1
  <2>6. TypeOK'
    <3>1. /\ uid' = uid /\ created' = created /\ conds' = conds /\ read' = read
          /\ sent' = sent /\ timeouts' = timeouts
      BY <2>3
    <3> QED BY <2>2, <2>4, <2>5, <3>1
  <2>7. InOrder'
    <3>1. ASSUME timeouts = 0, uid # 0, r.of # uid PROVE InOrder'
      BY <2>1, <2>3, <3>1 DEF MaybeApplied, CanApply, ToApplyConfig, Answer, Awaited
    <3>2. ASSUME timeouts = 0, uid # 0, r.of = uid PROVE InOrder'
      <4>1. /\ waiting /\ r.time = sent /\ acked' = acked
            /\ \A s \in requests' : s.of # uid
        BY <2>1, <3>2 DEF Answer
      <4>2. trainer'.of = uid => acked <= trainer'.time /\ trainer'.time <= sent
        BY <2>3, <3>2, <4>1 DEF MaybeApplied, ToApplyConfig
      <4> QED BY <2>3, <3>2, <4>1, <4>2
    <3> QED BY <2>3, <3>1, <3>2
  <2> QED BY <2>2, <2>3, <2>6, <2>7
<1>9. CASE ControllerReads
  BY <1>9 DEF ControllerReads
<1>10. CASE ControllerPatches
  BY <1>10 DEF ControllerPatches, NoCopy, Nil
<1>11. CASE Delete
  <2>1. waiting' \in BOOLEAN
    BY <1>11, Zenon DEF Delete
  <2> QED BY <1>11, <2>1 DEF Delete, NoCopy, Nil
<1>12. CASE Recreate
  BY <1>12 DEF Recreate, Nil
<1>13. CASE UNCHANGED vars
  BY <1>13 DEF vars
<1> QED
  BY <1>1, <1>2, <1>3, <1>4, <1>5, <1>6, <1>7, <1>8, <1>9, <1>10, <1>11,
     <1>12, <1>13, Zenon DEF Next

(* The type invariant of the status server holds for every bound.          *)
THEOREM StatusTypeOK == Spec => []TypeOK
<1>1. IInv => TypeOK
  BY DEF IInv
<1> QED BY InitIInv, NextIInv, <1>1, PTL DEF Spec

(* A report answered with 200 is never lost to an error path of the        *)
(* handler, to a replica that stops, to what happens between the apply and *)
(* the 200, or to the controller's own status patch, while the reporter    *)
(* waits for each answer                                                   *)
(* (handleTrainJobRuntimeStatus, TrainJobReconciler.Reconcile).            *)
THEOREM NoReportLost == Spec => []AckedIsStored
<1>1. IInv => AckedIsStored
  BY DEF IInv, InOrder, AckedIsStored, TypeOK
<1> QED BY InitIInv, NextIInv, <1>1, PTL DEF Spec

(* The progress a TrainJob shows never steps back while the reporter waits *)
(* for each answer, although the forced apply compares no times            *)
(* (handleTrainJobRuntimeStatus, toApplyConfig).                           *)
THEOREM ProgressNeverStepsBack == Spec => ProgressAdvances
<1> DEFINE Advances ==
      timeouts = 0 /\ uid' = uid /\ trainer.of = uid /\ trainer'.of = uid
        => trainer'.time >= trainer.time
<1>1. ASSUME IInv, [Next]_vars PROVE Advances
  <2> USE <1>1 DEF IInv
  <2>1. ASSUME NEW r \in requests, Apply(r) \/ ApplyFails(r) \/ Stop(r) PROVE Advances
    <3>1. trainer' = trainer \/ trainer' = ToApplyConfig(r)
      BY <2>1 DEF Apply, ApplyFails, Stop, MaybeApplied
    <3>2. CASE trainer' = trainer
      BY <3>2 DEF TypeOK
    <3>3. CASE trainer' = ToApplyConfig(r)
      <4>1. trainer'.of = r.of /\ trainer'.time = r.time
        BY <3>3 DEF ToApplyConfig
      <4>2. r.of \in 1..created /\ created \in Nat /\ r.time \in Nat /\ trainer.time \in Nat
        BY BoundsAssumption DEF TypeOK
      <4>3. timeouts = 0 /\ r.of = uid /\ trainer.of = uid => trainer.time <= r.time
        BY <4>2 DEF TypeOK, InOrder
      <4> QED BY <4>1, <4>2, <4>3
    <3> QED BY <3>1, <3>2, <3>3
  <2>2. CASE Delete \/ Recreate
    BY <2>2 DEF Delete, Recreate, TypeOK
  <2>3. ASSUME trainer' = trainer PROVE Advances
    BY <2>3 DEF TypeOK
  <2> QED
    BY <2>1, <2>2, <2>3 DEF Next, Report, GiveUp, Authorize, Refuse, ApplyNothing,
       Respond, ControllerReads, ControllerPatches, vars
<1>2. IInv /\ [Next]_vars => [Advances]_vars
  BY <1>1
<1> QED BY InitIInv, NextIInv, <1>2, PTL DEF Spec, ProgressAdvances
=============================================================================
