------------------------- MODULE WorkflowRuntimeProofs -------------------------
(* Proofs about WorkflowRuntime for every number of tasks and every bound: *)
(* its invariants and action properties and, in the second part, that it   *)
(* implements TaskLifecycle.                                               *)
EXTENDS WorkflowRuntime, TLAPS

(* The rows of task u are what they were. *)
RowsUnchanged(u) ==
  /\ phase'[u] = phase[u] /\ waiting_from_phase'[u] = waiting_from_phase[u]
  /\ plan_status'[u] = plan_status[u] /\ current_plan_id'[u] = current_plan_id[u]
  /\ permits'[u] = permits[u] /\ revoked_permits'[u] = revoked_permits[u]
  /\ execution_attempt'[u] = execution_attempt[u] /\ executions'[u] = executions[u]
  /\ validation_round'[u] = validation_round[u] /\ validations'[u] = validations[u]
  /\ results'[u] = results[u] /\ approvals'[u] = approvals[u]
  /\ revoked_approvals'[u] = revoked_approvals[u]

(* The invariant of a task depends on its own rows and the thread's mode   *)
(* only, so a step on another task cannot disturb it.                      *)
LEMMA Frame ==
  ASSUME NEW u \in Task, TaskInv(u), RowsUnchanged(u),
         interaction_mode' = interaction_mode
  PROVE  TaskInv(u)'
  BY DEF TaskInv, RowsUnchanged, PlanLedger, PermitLedger, WorkLedger, ResultLedger,
         WaitLedger, AuthorityLedger, WorkPhase, OpenPermits, Authorizes, expected_mode,
         AcceptRecorded, ExecutionRecorded, ResultOfAttempt

(* A step of the owner that keeps it at work keeps ownership serial.       *)
LEMMA OwnerStep ==
  ASSUME IInv, NEW t \in Task, cycle_status = "ACTIVE", active_task_id = t,
         UNCHANGED cycleVars, NEW p \in TaskPhase \ {"PENDING", "DONE", "FAILED"},
         phase' = [phase EXCEPT ![t] = p]
  PROVE  SerialOwnership' /\ CycleLedger'
<1> USE DEF IInv, TypeOK, SerialOwnership, CycleLedger, cycleVars
<1>1. t # NoTask
  BY NumTasksAssumption DEF Task, NoTask
<1>2. phase[t] \notin {"PENDING", "DONE", "FAILED"}
  BY <1>1
<1>3. \A u \in Task : phase'[u] = IF u = t THEN p ELSE phase[u]
  OBVIOUS
<1>4. \A u \in Task : phase'[u] # "PENDING" => \A d \in Deps[u] : phase'[d] = "DONE"
  <2> SUFFICES ASSUME NEW u \in Task, phase'[u] # "PENDING", NEW d \in Deps[u]
               PROVE  phase'[d] = "DONE"
    OBVIOUS
  <2>1. d \in Task
    BY DepsAssumption
  <2>2. phase[d] = "DONE"
    BY <1>2, <1>3
  <2> QED BY <1>2, <1>3, <2>1, <2>2
<1> QED
  BY <1>1, <1>3, <1>4

(* A step that re-establishes the invariant of t and leaves the rows of    *)
(* every other task alone re-establishes it for all tasks.                 *)
LEMMA Others ==
  ASSUME IInv, NEW t \in Task, interaction_mode' = interaction_mode,
         \A u \in Task \ {t} : RowsUnchanged(u), TaskInv(t)'
  PROVE  \A u \in Task : TaskInv(u)'
<1> SUFFICES ASSUME NEW u \in Task, u # t PROVE TaskInv(u)'
  OBVIOUS
<1> QED BY Frame DEF IInv

LEMMA SubmitStep ==
  ASSUME IInv, NEW t \in Task, submit_posted_plan(t)
  PROVE  IInv'
<1> PICK v \in Version :
      /\ owned_task(t, "PLANNING")
      /\ NextVersion(t, v)
      /\ plan_status' = [plan_status EXCEPT ![t] =
           [w \in Version |-> IF w = v THEN "POSTED"
                              ELSE IF plan_status[t][w] \in {"POSTED", "APPROVED"}
                              THEN "SUPERSEDED" ELSE plan_status[t][w]]]
      /\ posted_at' = [posted_at EXCEPT ![t][v] = now]
      /\ current_plan_id' = [current_plan_id EXCEPT ![t] = v]
      /\ revoked_permits' = [revoked_permits EXCEPT ![t] = permits[t]]
      /\ phase' = [phase EXCEPT ![t] = "WAITING_FOR_PLAN_APPROVAL"]
      /\ UNCHANGED <<cycleVars, threadVars, waitVars, permits, workVars, resultVars, clockVars>>
  BY DEF submit_posted_plan
<1> USE DEF owned_task, cycleVars, threadVars, waitVars, workVars, resultVars, clockVars
<1>0. TypeOK /\ TaskInv(t)
  BY DEF IInv
<1>1. TypeOK'
  <2>1. plan_status' \in [Task -> [Version -> PlanStatus]]
    BY <1>0 DEF TypeOK, PlanStatus
  <2>2. posted_at' \in [Task -> [Version -> Time]]
    BY <1>0, BoundsAssumption DEF TypeOK, Time
  <2>3. /\ current_plan_id' \in [Task -> Version \cup {NoPlan}]
        /\ revoked_permits' \in [Task -> SUBSET TaskPermit]
        /\ phase' \in [Task -> TaskPhase]
    BY <1>0 DEF TypeOK, TaskPhase
  <2> QED BY <1>0, <2>1, <2>2, <2>3 DEF TypeOK
<1>2. SerialOwnership' /\ CycleLedger'
  BY OwnerStep DEF TaskPhase
<1>3. PlanLedger(t)'
  <2>1. /\ current_plan_id'[t] = v /\ WorkPhase(t)' = "WAITING_FOR_PLAN_APPROVAL"
        /\ plan_status'[t] = [w \in Version |-> IF w = v THEN "POSTED"
                              ELSE IF plan_status[t][w] \in {"POSTED", "APPROVED"}
                              THEN "SUPERSEDED" ELSE plan_status[t][w]]
    BY <1>0 DEF TypeOK, WorkPhase
  <2>2. \A w \in Version : plan_status[t][w] \in PlanStatus
    BY <1>0 DEF TypeOK
  <2>3. v - 1 = current_plan_id[t]
    BY <1>0, BoundsAssumption DEF TypeOK, TaskInv, PlanLedger, NextVersion, Version, NoPlan
  <2> QED
    BY <1>0, <2>1, <2>2, <2>3, BoundsAssumption
    DEF TypeOK, TaskInv, PlanLedger, PlanStatus, Version, NoPlan
<1>4. PermitLedger(t)'
  <2>1. permits'[t] = permits[t] /\ revoked_permits'[t] = permits[t]
    BY <1>0 DEF TypeOK
  <2>2. ASSUME NEW p \in permits[t] PROVE plan_status'[t][p.plan] = "SUPERSEDED"
    <3>1. p.plan \in Version /\ plan_status[t][p.plan] \in {"APPROVED", "SUPERSEDED"}
      BY <1>0 DEF TypeOK, TaskInv, PermitLedger, TaskPermit
    <3>2. p.plan # v
      BY <3>1, BoundsAssumption DEF NextVersion, Version
    <3> QED BY <1>0, <3>1, <3>2 DEF TypeOK
  <2> QED BY <1>0, <2>1, <2>2 DEF TaskInv, PermitLedger, expected_mode
<1>5. WorkLedger(t)' /\ ResultLedger(t)' /\ WaitLedger(t)' /\ AuthorityLedger(t)'
  <2>1. WorkPhase(t) = "PLANNING" /\ WorkPhase(t)' = "WAITING_FOR_PLAN_APPROVAL"
    BY <1>0 DEF TypeOK, WorkPhase
  <2> QED
    BY <1>0, <2>1 DEF TypeOK, TaskInv, WorkLedger, ResultLedger, WaitLedger,
       AuthorityLedger, OpenPermits
<1>6. \A u \in Task \ {t} : RowsUnchanged(u)
  BY <1>0 DEF RowsUnchanged, TypeOK
<1> QED
  BY <1>1, <1>2, <1>3, <1>4, <1>5, <1>6, Others DEF IInv, TaskInv

(* Approving the posted plan v, by a human or by policy. *)
LEMMA GrantStep ==
  ASSUME IInv, NEW t \in Task, owned_task(t, "WAITING_FOR_PLAN_APPROVAL"),
         NEW p \in TaskPermit, p.plan = current_plan_id[t], p.mode = expected_mode,
         p.mode = "AUTO" <=> p.by = AutoPolicy,
         GrantPermit(t, current_plan_id[t], p)
  PROVE  IInv'
<1> USE DEF owned_task, cycleVars, threadVars, waitVars, workVars, resultVars, clockVars,
            GrantPermit
<1>0. TypeOK /\ TaskInv(t)
  BY DEF IInv
<1>a. current_plan_id[t] \in Version /\ current_plan_id[t] # NoPlan
  BY BoundsAssumption DEF TaskPermit, Version, NoPlan
<1>1. TypeOK'
  <2>1. plan_status' \in [Task -> [Version -> PlanStatus]]
    BY <1>0, <1>a DEF TypeOK, PlanStatus
  <2>2. permits' \in [Task -> SUBSET TaskPermit] /\ phase' \in [Task -> TaskPhase]
    BY <1>0 DEF TypeOK, TaskPhase
  <2> QED BY <1>0, <2>1, <2>2 DEF TypeOK
<1>2. SerialOwnership' /\ CycleLedger'
  BY OwnerStep DEF TaskPhase
<1>3. /\ WorkPhase(t) = "WAITING_FOR_PLAN_APPROVAL" /\ WorkPhase(t)' = "EXECUTING"
      /\ plan_status'[t] = [plan_status[t] EXCEPT ![current_plan_id[t]] = "APPROVED"]
      /\ permits'[t] = permits[t] \cup {p}
      /\ expected_mode' = expected_mode
  BY <1>0, <1>a DEF TypeOK, WorkPhase, expected_mode
<1>4. PlanLedger(t)'
  BY <1>0, <1>a, <1>3 DEF TypeOK, TaskInv, PlanLedger
<1>5. \A q \in permits[t] : q.plan \in Version /\ q.plan # p.plan
  <2>1. plan_status[t][p.plan] = "POSTED"
    OBVIOUS
  <2>2. \A q \in permits[t] : plan_status[t][q.plan] \in {"APPROVED", "SUPERSEDED"}
    BY <1>0 DEF TaskInv, PermitLedger
  <2>3. \A q \in permits[t] : q.plan \in Version
    BY <1>0 DEF TypeOK, TaskPermit
  <2> QED BY <2>1, <2>2, <2>3
<1>6. PermitLedger(t)'
  BY <1>0, <1>a, <1>3, <1>5 DEF TypeOK, TaskInv, PermitLedger
<1>7. AuthorityLedger(t)'
  <2>1. OpenPermits(t)' = {p}
    BY <1>0, <1>3, <1>5 DEF TaskInv, PermitLedger, AuthorityLedger, OpenPermits
  <2>2. Authorizes(t, p)'
    BY <1>0, <1>a, <1>3, <2>1 DEF TypeOK, Authorizes
  <2> QED BY <1>3, <2>1, <2>2 DEF AuthorityLedger
<1>8. WorkLedger(t)' /\ ResultLedger(t)' /\ WaitLedger(t)'
  BY <1>0, <1>3 DEF TypeOK, TaskInv, WorkLedger, ResultLedger, WaitLedger
<1>9. \A u \in Task \ {t} : RowsUnchanged(u)
  BY <1>0 DEF RowsUnchanged, TypeOK
<1> QED
  BY <1>1, <1>2, <1>4, <1>6, <1>7, <1>8, <1>9, Others DEF IInv, TaskInv

LEMMA ApprovePlanStep ==
  ASSUME IInv, NEW t \in Task, NEW occ \in Version, NEW e \in Event,
         approve_plan(t, occ, e)
  PROVE  IInv'
<1>1. [plan |-> occ, mode |-> "HUMAN", by |-> e] \in TaskPermit
  BY DEF TaskPermit, ApprovalMode, Authority
<1> QED
  BY <1>1, GrantStep, IdentityAssumption DEF approve_plan, expected_mode

LEMMA AutoAuthorizeStep ==
  ASSUME IInv, NEW t \in Task, auto_authorize_plan(t)
  PROVE  IInv'
<1>1. current_plan_id[t] \in Version
  BY DEF auto_authorize_plan, owned_task, IInv, TypeOK, TaskInv, PlanLedger, WorkPhase
<1>2. [plan |-> current_plan_id[t], mode |-> "AUTO", by |-> AutoPolicy] \in TaskPermit
  BY <1>1 DEF TaskPermit, ApprovalMode, Authority
<1> QED
  BY <1>2, GrantStep DEF auto_authorize_plan, expected_mode

-----------------------------------------------------------------------------
(* Superseding the current plan leaves no open permit. *)
LEMMA SupersedeRows ==
  ASSUME TypeOK, NEW t \in Task, TaskInv(t), current_plan_id[t] # NoPlan,
         phase[t] # "WAITING_FOR_INPUT", Supersede(t)
  PROVE  /\ PlanLedger(t)' /\ PermitLedger(t)' /\ AuthorityLedger(t)' /\ WaitLedger(t)'
         /\ WorkPhase(t)' = "PLANNING"
         /\ plan_status' \in [Task -> [Version -> PlanStatus]]
<1> USE DEF Supersede, cycleVars, threadVars, waitVars, clockVars
<1>1. /\ WorkPhase(t)' = "PLANNING" /\ current_plan_id[t] \in Version
      /\ plan_status'[t] =
           [w \in Version |-> IF w = current_plan_id[t] THEN "SUPERSEDED" ELSE plan_status[t][w]]
      /\ permits'[t] = permits[t] /\ revoked_permits'[t] = permits[t]
      /\ current_plan_id'[t] = current_plan_id[t] /\ expected_mode' = expected_mode
  BY DEF TypeOK, WorkPhase, expected_mode
<1>2. PlanLedger(t)'
  <2>1. \A v \in Version : v > current_plan_id[t] <=> plan_status[t][v] = "NONE"
    BY DEF TaskInv, PlanLedger
  <2>2. \A v \in Version : v # current_plan_id[t] => plan_status[t][v] \in {"NONE", "SUPERSEDED"}
    BY DEF TaskInv, PlanLedger
  <2>3. ~(current_plan_id[t] > current_plan_id[t])
    BY <1>1, BoundsAssumption DEF Version
  <2> QED BY <1>1, <2>1, <2>2, <2>3 DEF PlanLedger
<1>3. PermitLedger(t)'
  <2>1. \A p \in permits[t] : p.plan \in Version
    BY DEF TypeOK, TaskPermit
  <2> QED BY <1>1, <2>1 DEF TaskInv, PermitLedger
<1>4. AuthorityLedger(t)' /\ WaitLedger(t)'
  BY <1>1 DEF TypeOK, AuthorityLedger, OpenPermits, WaitLedger
<1>5. plan_status' \in [Task -> [Version -> PlanStatus]]
  BY <1>1 DEF TypeOK, PlanStatus
<1> QED BY <1>1, <1>2, <1>3, <1>4, <1>5

(* A replan that neither executes nor validates anything. *)
LEMMA ReplanStep ==
  ASSUME IInv, NEW t \in Task, Supersede(t), UNCHANGED workVars,
         owned_task(t, "WAITING_FOR_PLAN_APPROVAL") \/
         owned_task(t, "WAITING_FOR_RESULT_APPROVAL"),
         UNCHANGED revoked_approvals \/
         revoked_approvals' = [revoked_approvals EXCEPT ![t] = approvals[t]]
  PROVE  IInv'
<1> USE DEF owned_task, cycleVars, threadVars, waitVars, workVars, clockVars
<1>0. TypeOK /\ TaskInv(t)
  BY DEF IInv
<1>1. current_plan_id[t] # NoPlan /\ WorkPhase(t) = phase[t]
  BY <1>0 DEF TaskInv, PlanLedger, AuthorityLedger, Authorizes, WorkPhase
<1>2. /\ PlanLedger(t)' /\ PermitLedger(t)' /\ AuthorityLedger(t)' /\ WaitLedger(t)'
      /\ WorkPhase(t)' = "PLANNING"
      /\ plan_status' \in [Task -> [Version -> PlanStatus]]
  BY <1>0, <1>1, SupersedeRows
<1>3. revoked_approvals' = revoked_approvals
  <2>1. approvals[t] = {} /\ revoked_approvals[t] = {}
    BY <1>0 DEF TaskInv, ResultLedger
  <2>2. revoked_approvals \in [Task -> SUBSET TaskResultApproval]
    BY <1>0 DEF TypeOK
  <2> QED BY <2>1, <2>2
<1>4. TypeOK'
  BY <1>0, <1>2, <1>3 DEF TypeOK, Supersede, TaskPhase
<1>5. SerialOwnership' /\ CycleLedger'
  BY OwnerStep DEF Supersede, TaskPhase
<1>6. WorkLedger(t)'
  BY <1>0, <1>1, <1>2 DEF TaskInv, WorkLedger, AcceptRecorded
<1>7. ResultLedger(t)'
  BY <1>0, <1>1, <1>2, <1>3 DEF TypeOK, TaskInv, ResultLedger, Supersede
<1>8. \A u \in Task \ {t} : RowsUnchanged(u)
  BY <1>0, <1>3 DEF RowsUnchanged, TypeOK, Supersede
<1> QED
  BY <1>2, <1>4, <1>5, <1>6, <1>7, <1>8, Others DEF IInv, TaskInv, Supersede

LEMMA FinishExecutionStep ==
  ASSUME IInv, NEW t \in Task, finish_execution(t)
  PROVE  IInv'
<1> USE DEF owned_task, cycleVars, threadVars, waitVars, planVars, permitVars, resultVars,
            clockVars
<1> PICK permit \in permits[t] :
      /\ assert_execution_authorized(t, permit)
      /\ owned_task(t, "EXECUTING")
      /\ execution_attempt[t] < MaxAttempts
      /\ execution_attempt' = [execution_attempt EXCEPT ![t] = @ + 1]
      /\ executions' = [executions EXCEPT ![t] = @ \cup
           {[attempt |-> execution_attempt[t] + 1, plan |-> current_plan_id[t],
             permit |-> permit]}]
      /\ phase' = [phase EXCEPT ![t] = "VALIDATING"]
      /\ UNCHANGED <<cycleVars, threadVars, waitVars, planVars, permitVars,
                     validation_round, validations, resultVars, clockVars>>
  BY DEF finish_execution
<1> DEFINE x == [attempt |-> execution_attempt[t] + 1, plan |-> current_plan_id[t],
                 permit |-> permit]
<1>0. TypeOK /\ TaskInv(t)
  BY DEF IInv
<1>1. /\ permit \in OpenPermits(t) /\ permit \in TaskPermit
      /\ current_plan_id[t] \in Version
  BY <1>0 DEF assert_execution_authorized, Authorizes, TypeOK, TaskPermit
<1>2. /\ execution_attempt[t] \in Nat /\ execution_attempt[t] + 1 \in Attempt
      /\ validation_round[t] \in Nat
  BY <1>0, BoundsAssumption DEF TypeOK, Attempt
<1>3. x \in TaskExecution
  BY <1>1, <1>2 DEF TaskExecution
<1>4. TypeOK'
  <2>1. execution_attempt' \in [Task -> 0 .. MaxAttempts]
    BY <1>0, <1>2 DEF TypeOK, Attempt
  <2>2. executions' \in [Task -> SUBSET TaskExecution] /\ phase' \in [Task -> TaskPhase]
    BY <1>0, <1>3 DEF TypeOK, TaskPhase
  <2> QED BY <1>0, <2>1, <2>2 DEF TypeOK
<1>5. SerialOwnership' /\ CycleLedger'
  BY OwnerStep DEF TaskPhase
<1>6. /\ WorkPhase(t) = "EXECUTING" /\ WorkPhase(t)' = "VALIDATING"
      /\ phase[t] # "DONE" /\ phase'[t] = "VALIDATING"
      /\ execution_attempt'[t] = execution_attempt[t] + 1
      /\ executions'[t] = executions[t] \cup {x}
      /\ expected_mode' = expected_mode
  BY <1>0 DEF TypeOK, WorkPhase, expected_mode
<1>7. PlanLedger(t)' /\ PermitLedger(t)' /\ WaitLedger(t)' /\ AuthorityLedger(t)'
  BY <1>0, <1>6 DEF TaskInv, PlanLedger, PermitLedger, WaitLedger, AuthorityLedger,
     OpenPermits, Authorizes
<1>8. WorkLedger(t)'
  <2>1. x \in executions'[t] /\ x.attempt = execution_attempt'[t]
        /\ x.plan = current_plan_id'[t] /\ x.permit \in OpenPermits(t)'
    BY <1>1, <1>6 DEF OpenPermits
  <2>2. ExecutionRecorded(t)'
    BY <2>1 DEF ExecutionRecorded
  <2>3. \A y \in executions[t] : y.attempt \in Nat /\ y.attempt <= execution_attempt[t]
    BY <1>0 DEF TypeOK, TaskExecution, Attempt, TaskInv, WorkLedger
  <2>4. validation_round[t] = execution_attempt[t]
    BY <1>0, <1>6 DEF TaskInv, WorkLedger
  <2>5. \A y \in executions'[t] : y.attempt <= execution_attempt'[t]
    BY <1>2, <1>6, <2>3
  <2>6. \A y, z \in executions'[t] : y.attempt = z.attempt => y = z
    <3>1. \A y, z \in executions[t] : y.attempt = z.attempt => y = z
      BY <1>0 DEF TaskInv, WorkLedger
    <3>2. \A y \in executions[t] : y.attempt # x.attempt
      BY <1>2, <2>3
    <3> HIDE DEF x
    <3> QED BY <1>6, <3>1, <3>2
  <2>7. /\ \A d \in validations'[t] : d.round = d.attempt /\ d.round <= validation_round'[t]
        /\ \A d, e \in validations'[t] : d.round = e.round => d = e
    BY <1>0 DEF TaskInv, WorkLedger
  <2> QED BY <1>2, <1>6, <2>2, <2>4, <2>5, <2>6, <2>7 DEF WorkLedger
<1>9. ResultLedger(t)'
  <2>1. \A r \in results[t] : r.attempt \in Nat /\ r.attempt <= validation_round[t]
    BY <1>0 DEF TypeOK, TaskResult, Attempt, TaskInv, ResultLedger
  <2>2. validation_round[t] = execution_attempt[t]
    BY <1>0, <1>6 DEF TaskInv, WorkLedger
  <2>3. \A r \in results'[t] : r.attempt < execution_attempt'[t]
    BY <1>2, <1>6, <2>1, <2>2
  <2> QED BY <1>0, <1>6, <2>3 DEF TaskInv, ResultLedger
<1>10. \A u \in Task \ {t} : RowsUnchanged(u)
  BY <1>0 DEF RowsUnchanged, TypeOK
<1> QED
  BY <1>4, <1>5, <1>7, <1>8, <1>9, <1>10, Others DEF IInv, TaskInv

-----------------------------------------------------------------------------
(* Recording a decision keeps rounds and attempts in lockstep.             *)
LEMMA RecordFacts ==
  ASSUME IInv, NEW t \in Task, NEW verdict \in ValidationVerdict,
         RecordValidation(t, verdict)
  PROVE  /\ validation_round' \in [Task -> 0 .. MaxAttempts]
         /\ validations' \in [Task -> SUBSET TaskValidation]
         /\ execution_attempt' = execution_attempt /\ executions' = executions
         /\ validation_round'[t] = execution_attempt[t]
         /\ validation_round[t] = execution_attempt[t] - 1
         /\ \E d \in validations'[t] :
              /\ d.attempt = execution_attempt[t] /\ d.round = execution_attempt[t]
              /\ d.plan = current_plan_id[t] /\ d.verdict = verdict
         /\ \A d \in validations'[t] : d.round = d.attempt /\ d.round <= validation_round'[t]
         /\ \A d, e \in validations'[t] : d.round = e.round => d = e
         /\ \A u \in Task \ {t} : validation_round'[u] = validation_round[u]
                               /\ validations'[u] = validations[u]
<1> USE DEF RecordValidation, owned_task
<1> DEFINE n == [round |-> validation_round[t] + 1, plan |-> current_plan_id[t],
                 attempt |-> execution_attempt[t], verdict |-> verdict]
<1>0. TypeOK /\ TaskInv(t) /\ WorkPhase(t) = "VALIDATING"
  BY DEF IInv, WorkPhase
<1>1. ~AcceptRecorded(t)
  BY DEF AcceptRecorded, Decided
<1>2. /\ validation_round[t] = execution_attempt[t] - 1
      /\ execution_attempt[t] \in Attempt /\ execution_attempt[t] \in Nat
      /\ validation_round[t] \in Nat /\ current_plan_id[t] \in Version
  <2>1. validation_round[t] = execution_attempt[t] - 1
    BY <1>0, <1>1 DEF TaskInv, WorkLedger
  <2>2. execution_attempt[t] \in 0 .. MaxAttempts /\ validation_round[t] \in 0 .. MaxAttempts
    BY <1>0 DEF TypeOK
  <2> QED BY <1>0, <2>1, <2>2, BoundsAssumption DEF TypeOK, Attempt
<1>3. validation_round[t] + 1 = execution_attempt[t] /\ n \in TaskValidation
  BY <1>2 DEF TaskValidation
<1>4. /\ validation_round' \in [Task -> 0 .. MaxAttempts]
      /\ validation_round'[t] = execution_attempt[t]
  BY <1>0, <1>2, <1>3, BoundsAssumption DEF TypeOK, Attempt
<1>5. /\ validations' \in [Task -> SUBSET TaskValidation]
      /\ validations'[t] = validations[t] \cup {n}
  BY <1>0, <1>3 DEF TypeOK
<1>6. \A d \in validations[t] :
        d.round \in Nat /\ d.round = d.attempt /\ d.round <= validation_round[t]
  BY <1>0 DEF TypeOK, TaskValidation, Attempt, TaskInv, WorkLedger
<1>7. \A d \in validations'[t] : d.round = d.attempt /\ d.round <= validation_round'[t]
  BY <1>2, <1>3, <1>4, <1>5, <1>6
<1>8. \A d, e \in validations'[t] : d.round = e.round => d = e
  <2>1. \A d, e \in validations[t] : d.round = e.round => d = e
    BY <1>0 DEF TaskInv, WorkLedger
  <2>2. \A d \in validations[t] : d.round # n.round
    BY <1>2, <1>6
  <2> HIDE DEF n
  <2> QED BY <1>5, <2>1, <2>2
<1>9. \E d \in validations'[t] :
        /\ d.attempt = execution_attempt[t] /\ d.round = execution_attempt[t]
        /\ d.plan = current_plan_id[t] /\ d.verdict = verdict
  <2>1. n \in validations'[t]
    BY <1>5
  <2> QED BY <1>3, <2>1
<1>10. \A u \in Task \ {t} : validation_round'[u] = validation_round[u]
                          /\ validations'[u] = validations[u]
  BY <1>0 DEF TypeOK
<1> QED BY <1>2, <1>4, <1>5, <1>7, <1>8, <1>9, <1>10

LEMMA AcceptStep ==
  ASSUME IInv, NEW t \in Task, validation_accept(t)
  PROVE  IInv'
<1> USE DEF validation_accept, cycleVars, threadVars, waitVars, planVars, permitVars,
            resultVars, clockVars
<1>0. TypeOK /\ TaskInv(t) /\ WorkPhase(t) = "VALIDATING" /\ WorkPhase(t)' = "VALIDATING"
      /\ RecordValidation(t, "ACCEPT")
  BY DEF IInv, RecordValidation, owned_task, WorkPhase
<1>1. "ACCEPT" \in ValidationVerdict
  BY DEF ValidationVerdict
<1>2. TypeOK'
  BY <1>0, <1>1, RecordFacts DEF TypeOK
<1>3. SerialOwnership' /\ CycleLedger'
  BY DEF IInv, SerialOwnership, CycleLedger
<1>4. PlanLedger(t)' /\ PermitLedger(t)' /\ WaitLedger(t)' /\ AuthorityLedger(t)'
  BY <1>0 DEF TaskInv, PlanLedger, PermitLedger, WaitLedger, AuthorityLedger,
     OpenPermits, Authorizes, expected_mode
<1>5. WorkLedger(t)'
  <2>1. AcceptRecorded(t)'
    BY <1>0, <1>1, RecordFacts DEF AcceptRecorded
  <2>2. ExecutionRecorded(t)'
    BY <1>0, <1>1, RecordFacts DEF TaskInv, WorkLedger, ExecutionRecorded, OpenPermits
  <2>3. validation_round'[t] = execution_attempt'[t] /\ execution_attempt[t] \in Nat
    BY <1>0, <1>1, RecordFacts DEF TypeOK
  <2> QED
    BY <1>0, <1>1, <2>1, <2>2, <2>3, RecordFacts DEF TaskInv, WorkLedger
<1>6. ResultLedger(t)'
  <2>1. /\ validation_round[t] \in Nat /\ execution_attempt[t] \in Nat
        /\ validation_round[t] <= validation_round'[t]
        /\ \A r \in results[t] : r.round \in Nat /\ r.round <= validation_round[t]
    BY <1>0, <1>1, RecordFacts DEF TypeOK, TaskResult, Attempt, TaskInv, ResultLedger
  <2> QED BY <1>0, <1>1, <2>1, RecordFacts
          DEF TaskInv, ResultLedger, RecordValidation, owned_task
<1>7. \A u \in Task \ {t} : RowsUnchanged(u)
  BY <1>0, <1>1, RecordFacts DEF RowsUnchanged
<1> QED
  BY <1>2, <1>3, <1>4, <1>5, <1>6, <1>7, Others DEF IInv, TaskInv

LEMMA NeedsFixesStep ==
  ASSUME IInv, NEW t \in Task, validation_needs_fixes(t)
  PROVE  IInv'
<1> USE DEF validation_needs_fixes, cycleVars, threadVars, waitVars, planVars, permitVars,
            resultVars, clockVars
<1>0. TypeOK /\ TaskInv(t) /\ RecordValidation(t, "NEEDS_FIXES")
      /\ phase[t] = "VALIDATING" /\ phase'[t] = "EXECUTING"
  BY DEF IInv, RecordValidation, owned_task, TypeOK
<1>a. WorkPhase(t) = "VALIDATING" /\ WorkPhase(t)' = "EXECUTING"
  BY <1>0 DEF WorkPhase
<1>1. "NEEDS_FIXES" \in ValidationVerdict
  BY DEF ValidationVerdict
<1>2. TypeOK'
  <2>1. phase' \in [Task -> TaskPhase]
    BY <1>0 DEF TypeOK, TaskPhase
  <2> QED BY <1>0, <1>1, <2>1, RecordFacts DEF TypeOK
<1>3. SerialOwnership' /\ CycleLedger'
  BY <1>0, OwnerStep DEF TaskPhase, RecordValidation, owned_task
<1>4. PlanLedger(t)' /\ PermitLedger(t)' /\ WaitLedger(t)' /\ AuthorityLedger(t)'
  BY <1>0, <1>a DEF TaskInv, PlanLedger, PermitLedger, WaitLedger, AuthorityLedger,
     OpenPermits, Authorizes, expected_mode
<1>5. WorkLedger(t)'
  <2>1. validation_round'[t] = execution_attempt'[t] /\ execution_attempt[t] \in Nat
    BY <1>0, <1>1, RecordFacts DEF TypeOK
  <2> QED BY <1>0, <1>a, <1>1, <2>1, RecordFacts DEF TaskInv, WorkLedger
<1>6. ResultLedger(t)'
  <2>1. /\ validation_round[t] \in Nat /\ validation_round[t] <= validation_round'[t]
        /\ validation_round'[t] \in Nat
        /\ \A r \in results[t] : r.round \in Nat /\ r.round <= validation_round[t]
    BY <1>0, <1>1, RecordFacts DEF TypeOK, TaskResult, Attempt, TaskInv, ResultLedger
  <2> QED BY <1>0, <1>a, <2>1 DEF TaskInv, ResultLedger
<1>7. \A u \in Task \ {t} : RowsUnchanged(u)
  BY <1>0, <1>1, RecordFacts DEF RowsUnchanged, TypeOK
<1> QED
  BY <1>2, <1>3, <1>4, <1>5, <1>6, <1>7, Others DEF IInv, TaskInv

LEMMA ValidationReplanStep ==
  ASSUME IInv, NEW t \in Task, validation_replan(t)
  PROVE  IInv'
<1> USE DEF validation_replan, cycleVars, threadVars, waitVars, planVars, permitVars,
            resultVars, clockVars
<1>0. TypeOK /\ TaskInv(t) /\ RecordValidation(t, "REPLAN") /\ Supersede(t)
      /\ phase[t] = "VALIDATING" /\ current_plan_id[t] # NoPlan
  BY DEF IInv, RecordValidation, owned_task
<1>1. "REPLAN" \in ValidationVerdict
  BY DEF ValidationVerdict
<1>2. /\ PlanLedger(t)' /\ PermitLedger(t)' /\ AuthorityLedger(t)' /\ WaitLedger(t)'
      /\ WorkPhase(t)' = "PLANNING"
      /\ plan_status' \in [Task -> [Version -> PlanStatus]]
  BY <1>0, SupersedeRows
<1>3. phase'[t] = "PLANNING" /\ phase' \in [Task -> TaskPhase]
      /\ revoked_permits' \in [Task -> SUBSET TaskPermit]
  BY <1>0 DEF TypeOK, Supersede, TaskPhase
<1>4. TypeOK'
  BY <1>0, <1>1, <1>2, <1>3, RecordFacts DEF TypeOK, Supersede
<1>5. SerialOwnership' /\ CycleLedger'
  BY <1>0, OwnerStep DEF TaskPhase, RecordValidation, owned_task, Supersede
<1>6. WorkLedger(t)'
  <2>1. validation_round'[t] = execution_attempt'[t] /\ execution_attempt[t] \in Nat
    BY <1>0, <1>1, RecordFacts DEF TypeOK
  <2> QED BY <1>0, <1>1, <1>2, <2>1, RecordFacts DEF TaskInv, WorkLedger
<1>7. ResultLedger(t)'
  <2>1. /\ validation_round[t] \in Nat /\ validation_round[t] <= validation_round'[t]
        /\ validation_round'[t] \in Nat
        /\ \A r \in results[t] : r.round \in Nat /\ r.round <= validation_round[t]
    BY <1>0, <1>1, RecordFacts DEF TypeOK, TaskResult, Attempt, TaskInv, ResultLedger
  <2> QED BY <1>0, <1>2, <1>3, <2>1 DEF TaskInv, ResultLedger, Supersede
<1>8. \A u \in Task \ {t} : RowsUnchanged(u)
  BY <1>0, <1>1, RecordFacts DEF RowsUnchanged, TypeOK, Supersede
<1> QED
  BY <1>0, <1>2, <1>4, <1>5, <1>6, <1>7, <1>8, Others DEF IInv, TaskInv, Supersede

LEMMA BlockedStep ==
  ASSUME IInv, NEW t \in Task, validation_blocked(t)
  PROVE  IInv'
<1> USE DEF validation_blocked, cycleVars, threadVars, waitVars, planVars, permitVars,
            resultVars, clockVars
<1>0. TypeOK /\ TaskInv(t) /\ RecordValidation(t, "BLOCKED")
      /\ phase[t] = "VALIDATING" /\ phase'[t] = "FAILED" /\ active_task_id = t
  BY DEF IInv, RecordValidation, owned_task, TypeOK
<1>a. WorkPhase(t) = "VALIDATING" /\ WorkPhase(t)' = "FAILED"
  BY <1>0 DEF WorkPhase
<1>1. "BLOCKED" \in ValidationVerdict
  BY DEF ValidationVerdict
<1>2. TypeOK'
  <2>1. phase' \in [Task -> TaskPhase] /\ cycle_status' \in WorkflowCycleStatus
    BY <1>0 DEF TypeOK, TaskPhase, WorkflowCycleStatus
  <2> QED BY <1>0, <1>1, <2>1, RecordFacts DEF TypeOK
<1>3. SerialOwnership' /\ CycleLedger'
  <2>1. \A u \in Task : phase'[u] = IF u = t THEN "FAILED" ELSE phase[u]
    BY <1>0 DEF TypeOK
  <2>2. \A u \in Task : \A d \in Deps[u] : d \in Task
    BY DepsAssumption
  <2>3. \A u \in Task : phase'[u] # "PENDING" => \A d \in Deps[u] : phase'[d] = "DONE"
    BY <1>0, <2>1, <2>2 DEF IInv, SerialOwnership
  <2> QED BY <1>0, <2>1, <2>3 DEF IInv, SerialOwnership, CycleLedger
<1>4. PlanLedger(t)' /\ PermitLedger(t)' /\ WaitLedger(t)' /\ AuthorityLedger(t)'
  BY <1>0, <1>a DEF TaskInv, PlanLedger, PermitLedger, WaitLedger, AuthorityLedger,
     expected_mode
<1>5. WorkLedger(t)'
  <2>1. validation_round'[t] = execution_attempt'[t] /\ execution_attempt[t] \in Nat
    BY <1>0, <1>1, RecordFacts DEF TypeOK
  <2> QED BY <1>0, <1>a, <1>1, <2>1, RecordFacts DEF TaskInv, WorkLedger
<1>6. ResultLedger(t)'
  <2>1. /\ validation_round[t] \in Nat /\ validation_round[t] <= validation_round'[t]
        /\ validation_round'[t] \in Nat
        /\ \A r \in results[t] : r.round \in Nat /\ r.round <= validation_round[t]
    BY <1>0, <1>1, RecordFacts DEF TypeOK, TaskResult, Attempt, TaskInv, ResultLedger
  <2> QED BY <1>0, <1>a, <2>1 DEF TaskInv, ResultLedger
<1>7. \A u \in Task \ {t} : RowsUnchanged(u)
  BY <1>0, <1>1, RecordFacts DEF RowsUnchanged, TypeOK
<1> QED
  BY <1>2, <1>3, <1>4, <1>5, <1>6, <1>7, Others DEF IInv, TaskInv

(* The validated attempt has no result yet, so exactly one is inserted. *)
LEMMA PublishStep ==
  ASSUME IInv, NEW t \in Task, publish_validated_result(t)
  PROVE  IInv'
<1> USE DEF owned_task, cycleVars, threadVars, waitVars, planVars, permitVars, workVars,
            clockVars
<1> PICK d \in Decided(t), x \in executions[t] :
      /\ owned_task(t, "VALIDATING")
      /\ \A other \in Decided(t) : other.round <= d.round
      /\ d.verdict = "ACCEPT"
      /\ x.plan = current_plan_id[t] /\ x.attempt = execution_attempt[t]
      /\ results' = [results EXCEPT ![t] =
           IF \E r \in @ : r.plan = x.plan /\ r.attempt = x.attempt /\ r.round = d.round
           THEN @
           ELSE @ \cup {[plan |-> x.plan, attempt |-> x.attempt, round |-> d.round,
                         posted |-> now]}]
      /\ phase' = [phase EXCEPT ![t] = "WAITING_FOR_RESULT_APPROVAL"]
      /\ UNCHANGED <<cycleVars, threadVars, waitVars, planVars, permitVars, workVars,
                     approvals, revoked_approvals, clockVars>>
  BY DEF publish_validated_result
<1> DEFINE n == [plan |-> x.plan, attempt |-> x.attempt, round |-> d.round, posted |-> now]
<1>0. TypeOK /\ TaskInv(t) /\ phase[t] = "VALIDATING" /\ WorkPhase(t) = "VALIDATING"
  BY DEF IInv, WorkPhase
<1>1. /\ d \in validations[t] /\ d.plan = current_plan_id[t]
      /\ d.attempt = execution_attempt[t] /\ d.round = d.attempt
      /\ d.round <= validation_round[t]
  BY <1>0 DEF Decided, TaskInv, WorkLedger
<1>2. /\ execution_attempt[t] \in Nat /\ validation_round[t] \in Nat
      /\ validation_round[t] = execution_attempt[t] /\ d.round = execution_attempt[t]
  <2>1. execution_attempt[t] \in Nat /\ validation_round[t] \in Nat
    BY <1>0 DEF TypeOK
  <2> QED BY <1>0, <1>1, <2>1 DEF TaskInv, WorkLedger
<1>3. n \in TaskResult
  <2>1. d \in TaskValidation /\ x \in TaskExecution /\ now \in Time
    BY <1>0, <1>1, BoundsAssumption DEF TypeOK, Time
  <2> QED BY <2>1 DEF TaskValidation, TaskExecution, TaskResult
<1>4. \A r \in results[t] : r.attempt \in Nat /\ r.attempt # execution_attempt[t]
                            /\ r.round = r.attempt
  <2>1. \A r \in results[t] : r.attempt \in Nat
    BY <1>0 DEF TypeOK, TaskResult, Attempt
  <2> QED BY <1>0, <1>2, <2>1 DEF TaskInv, ResultLedger
<1>5. /\ results'[t] = results[t] \cup {n} /\ phase'[t] = "WAITING_FOR_RESULT_APPROVAL"
      /\ results' \in [Task -> SUBSET TaskResult] /\ phase' \in [Task -> TaskPhase]
  BY <1>0, <1>3, <1>4 DEF TypeOK, TaskPhase
<1>a. WorkPhase(t)' = "WAITING_FOR_RESULT_APPROVAL" /\ expected_mode' = expected_mode
  BY <1>5 DEF WorkPhase, expected_mode
<1>6. TypeOK'
  BY <1>0, <1>5 DEF TypeOK
<1>7. SerialOwnership' /\ CycleLedger'
  BY OwnerStep DEF TaskPhase
<1>8. PlanLedger(t)' /\ PermitLedger(t)' /\ WaitLedger(t)' /\ AuthorityLedger(t)'
  BY <1>0, <1>a, <1>5 DEF TaskInv, PlanLedger, PermitLedger, WaitLedger, AuthorityLedger,
     OpenPermits, Authorizes
<1>9. WorkLedger(t)'
  <2>1. ExecutionRecorded(t)' /\ AcceptRecorded(t)'
    BY <1>0, <1>1, <1>2 DEF TaskInv, WorkLedger, ExecutionRecorded, AcceptRecorded,
       OpenPermits
  <2> QED BY <1>0, <1>a, <2>1 DEF TaskInv, WorkLedger
<1>10. ResultLedger(t)'
  <2>1. /\ n \in results'[t] /\ n.plan = current_plan_id'[t]
        /\ n.attempt = execution_attempt'[t] /\ n.round = validation_round'[t]
    BY <1>1, <1>2, <1>5
  <2>2. \A r \in results'[t] : r.round = r.attempt /\ r.round <= validation_round'[t]
    BY <1>0, <1>1, <1>2, <1>5 DEF TaskInv, ResultLedger
  <2>3. \A r, q \in results'[t] : r.round = q.round => r = q
    <3>1. \A r, q \in results[t] : r.round = q.round => r = q
      BY <1>0 DEF TaskInv, ResultLedger
    <3>2. \A r \in results[t] : r.round # n.round
      BY <1>2, <1>4
    <3> HIDE DEF n
    <3> QED BY <1>5, <3>1, <3>2
  <2> HIDE DEF n
  <2>4. \E r \in results'[t] : ResultOfAttempt(t, r)'
    BY <2>1 DEF ResultOfAttempt
  <2>5. /\ revoked_approvals'[t] = {} /\ approvals'[t] = {} /\ phase'[t] # "DONE"
    BY <1>0, <1>5 DEF TaskInv, ResultLedger
  <2> QED BY <1>a, <2>2, <2>3, <2>4, <2>5 DEF ResultLedger
<1>11. \A u \in Task \ {t} : RowsUnchanged(u)
  BY <1>0 DEF RowsUnchanged, TypeOK
<1> QED
  BY <1>6, <1>7, <1>8, <1>9, <1>10, <1>11, Others DEF IInv, TaskInv

(* The result of the highest round is the one of the current attempt. *)
LEMMA CurrentResult ==
  ASSUME TypeOK, NEW t \in Task, TaskInv(t), phase[t] = "WAITING_FOR_RESULT_APPROVAL",
         NEW r \in results[t], current_result(t, r)
  PROVE  ResultOfAttempt(t, r)
<1>1. PICK c \in results[t] : ResultOfAttempt(t, c)
  BY DEF TaskInv, ResultLedger, WorkPhase
<1>2. c.round <= r.round /\ r.round <= validation_round[t] /\ c.round = validation_round[t]
  BY <1>1 DEF current_result, TaskInv, ResultLedger, ResultOfAttempt
<1>3. c.round \in Nat /\ r.round \in Nat
  BY DEF TypeOK, TaskResult, Attempt
<1>4. c.round = r.round
  BY <1>2, <1>3
<1>5. c = r
  BY <1>4 DEF TaskInv, ResultLedger
<1> QED BY <1>1, <1>5

(* The approved result is the one of the current attempt. *)
LEMMA AcceptResultStep ==
  ASSUME IInv, NEW t \in Task, NEW r \in results[t], NEW by \in Authority,
         AcceptResult(t, r, by)
  PROVE  IInv'
<1> USE DEF owned_task, AcceptResult, threadVars, waitVars, planVars, permitVars, workVars,
            clockVars
<1> DEFINE a == [result |-> r, mode |-> expected_mode, by |-> by]
<1>0. TypeOK /\ TaskInv(t) /\ phase[t] = "WAITING_FOR_RESULT_APPROVAL"
      /\ WorkPhase(t) = "WAITING_FOR_RESULT_APPROVAL" /\ active_task_id = t
  BY DEF IInv, WorkPhase
<1>1. ResultOfAttempt(t, r)
  BY <1>0, CurrentResult
<1>2. approvals[t] = {} /\ a \in TaskResultApproval
  BY <1>0 DEF TaskInv, ResultLedger, TypeOK, TaskResultApproval, expected_mode, ApprovalMode
<1>3. /\ approvals'[t] = {a} /\ phase'[t] = "DONE" /\ WorkPhase(t)' = "DONE"
      /\ approvals' \in [Task -> SUBSET TaskResultApproval]
      /\ phase' \in [Task -> TaskPhase] /\ expected_mode' = expected_mode
  BY <1>0, <1>2 DEF TypeOK, TaskPhase, WorkPhase, expected_mode
<1>4. TypeOK'
  BY <1>0, <1>3 DEF TypeOK, NoTask
<1>5. SerialOwnership' /\ CycleLedger'
  <2>1. \A u \in Task : phase'[u] = IF u = t THEN "DONE" ELSE phase[u]
    BY <1>0 DEF TypeOK
  <2>2. \A u \in Task : \A d \in Deps[u] : d \in Task
    BY DepsAssumption
  <2>3. \A u \in Task : phase'[u] # "PENDING" => \A d \in Deps[u] : phase'[d] = "DONE"
    BY <1>0, <2>1, <2>2 DEF IInv, SerialOwnership
  <2> QED BY <1>0, <2>1, <2>3 DEF IInv, SerialOwnership, CycleLedger
<1>6. PlanLedger(t)' /\ PermitLedger(t)' /\ WaitLedger(t)' /\ AuthorityLedger(t)'
  BY <1>0, <1>3 DEF TaskInv, PlanLedger, PermitLedger, WaitLedger, AuthorityLedger,
     OpenPermits, Authorizes
<1>7. WorkLedger(t)'
  <2>1. ExecutionRecorded(t)' /\ AcceptRecorded(t)'
    BY <1>0 DEF TaskInv, WorkLedger, ExecutionRecorded, AcceptRecorded, OpenPermits
  <2> QED BY <1>0, <1>3, <2>1 DEF TaskInv, WorkLedger
<1>8. ResultLedger(t)'
  <2>1. /\ a.result = r /\ r \in results'[t] /\ r.plan = current_plan_id'[t]
        /\ r.attempt = execution_attempt'[t] /\ r.round = validation_round'[t]
        /\ a.mode = expected_mode'
    BY <1>1, <1>3 DEF ResultOfAttempt
  <2> HIDE DEF a
  <2>2. \E c \in results'[t] : ResultOfAttempt(t, c)'
    BY <1>1 DEF ResultOfAttempt
  <2>3. \E b \in approvals'[t] : /\ ResultOfAttempt(t, b.result)' /\ b.mode = expected_mode'
                                 /\ approvals'[t] = {b}
    BY <1>3, <2>1 DEF ResultOfAttempt
  <2>4. /\ \A c \in results'[t] : c.round = c.attempt /\ c.round <= validation_round'[t]
        /\ \A c, q \in results'[t] : c.round = q.round => c = q
        /\ revoked_approvals'[t] = {}
    BY <1>0 DEF TaskInv, ResultLedger
  <2> QED BY <1>3, <2>2, <2>3, <2>4 DEF ResultLedger
<1>9. \A u \in Task \ {t} : RowsUnchanged(u)
  BY <1>0 DEF RowsUnchanged, TypeOK
<1> QED
  BY <1>4, <1>5, <1>6, <1>7, <1>8, <1>9, Others DEF IInv, TaskInv

LEMMA AutoAcceptStep ==
  ASSUME IInv, NEW t \in Task, auto_accept_result(t)
  PROVE  IInv'
  BY AcceptResultStep DEF auto_accept_result, Authority

-----------------------------------------------------------------------------
(* A clarification changes where the task stands, not the work it is in.   *)
LEMMA SameWork ==
  ASSUME IInv, NEW t \in Task, cycle_status = "ACTIVE", active_task_id = t,
         NEW p \in TaskPhase \ {"PENDING", "DONE", "FAILED"},
         phase' = [phase EXCEPT ![t] = p], phase[t] # "DONE",
         WorkPhase(t)' = WorkPhase(t), WaitLedger(t)',
         waiting_from_phase' \in [Task -> RunnablePhase \cup {"NONE"}],
         \A u \in Task \ {t} : waiting_from_phase'[u] = waiting_from_phase[u],
         clarification_key' \in [Task -> Question \cup {NoQuestion}],
         asks' \in 0 .. MaxAsks,
         UNCHANGED <<cycleVars, threadVars, planVars, permitVars, workVars, resultVars,
                     clockVars>>
  PROVE  IInv'
<1> USE DEF cycleVars, threadVars, planVars, permitVars, workVars, resultVars, clockVars
<1>0. TypeOK /\ TaskInv(t)
  BY DEF IInv
<1>1. TypeOK'
  <2>1. phase' \in [Task -> TaskPhase]
    BY <1>0 DEF TypeOK
  <2> QED BY <1>0, <2>1 DEF TypeOK
<1>2. SerialOwnership' /\ CycleLedger'
  BY OwnerStep
<1>3. phase'[t] # "DONE"
  BY <1>0 DEF TypeOK
<1>4. PlanLedger(t)' /\ PermitLedger(t)' /\ AuthorityLedger(t)'
  BY <1>0 DEF TaskInv, PlanLedger, PermitLedger, AuthorityLedger, OpenPermits, Authorizes,
     expected_mode
<1>5. WorkLedger(t)' /\ ResultLedger(t)'
  BY <1>0, <1>3 DEF TaskInv, WorkLedger, ResultLedger, ExecutionRecorded, AcceptRecorded,
     OpenPermits, ResultOfAttempt
<1>6. \A u \in Task \ {t} : RowsUnchanged(u)
  BY <1>0 DEF RowsUnchanged, TypeOK
<1> QED
  BY <1>1, <1>2, <1>4, <1>5, <1>6, Others DEF IInv, TaskInv

LEMMA PauseStep ==
  ASSUME IInv, NEW t \in Task, NEW q \in Question, pause_for_clarification(t, q)
  PROVE  IInv'
<1> USE DEF owned_task
<1> PICK p \in RunnablePhase :
      /\ owned_task(t, p)
      /\ asks < MaxAsks
      /\ asks' = asks + 1
      /\ waiting_from_phase' = [waiting_from_phase EXCEPT ![t] = p]
      /\ clarification_key' = [clarification_key EXCEPT ![t] = q]
      /\ phase' = [phase EXCEPT ![t] = "WAITING_FOR_INPUT"]
      /\ UNCHANGED <<cycleVars, threadVars, planVars, permitVars, workVars, resultVars, clockVars>>
  BY DEF pause_for_clarification
<1>0. TypeOK
  BY DEF IInv
<1>1. phase'[t] = "WAITING_FOR_INPUT" /\ waiting_from_phase'[t] = p /\ phase[t] = p
  BY <1>0 DEF TypeOK
<1>2. WorkPhase(t)' = WorkPhase(t) /\ WaitLedger(t)' /\ phase[t] # "DONE"
  BY <1>1 DEF WorkPhase, WaitLedger, RunnablePhase
<1>3. /\ waiting_from_phase' \in [Task -> RunnablePhase \cup {"NONE"}]
      /\ \A u \in Task \ {t} : waiting_from_phase'[u] = waiting_from_phase[u]
      /\ clarification_key' \in [Task -> Question \cup {NoQuestion}]
  BY <1>0 DEF TypeOK
<1>4. asks' \in 0 .. MaxAsks
  BY <1>0, BoundsAssumption DEF TypeOK
<1>5. "WAITING_FOR_INPUT" \in TaskPhase \ {"PENDING", "DONE", "FAILED"}
  BY DEF TaskPhase
<1> QED BY <1>2, <1>3, <1>4, <1>5, SameWork

LEMMA ResumeStep ==
  ASSUME IInv, NEW t \in Task, NEW q \in Question, resume_clarification(t, q)
  PROVE  IInv'
<1> USE DEF owned_task, resume_clarification
<1>0. TypeOK
  BY DEF IInv
<1>1. /\ waiting_from_phase[t] \in RunnablePhase /\ phase'[t] = waiting_from_phase[t]
      /\ waiting_from_phase[t] \in TaskPhase \ {"PENDING", "DONE", "FAILED"}
  BY <1>0 DEF TypeOK, RunnablePhase, TaskPhase
<1>2. WorkPhase(t)' = WorkPhase(t) /\ WaitLedger(t)' /\ phase[t] # "DONE"
  BY <1>1 DEF WorkPhase, WaitLedger, RunnablePhase
<1>3. /\ waiting_from_phase' \in [Task -> RunnablePhase \cup {"NONE"}]
      /\ \A u \in Task \ {t} : waiting_from_phase'[u] = waiting_from_phase[u]
      /\ clarification_key' \in [Task -> Question \cup {NoQuestion}]
      /\ asks' \in 0 .. MaxAsks
  BY <1>0 DEF TypeOK
<1> QED BY <1>1, <1>2, <1>3, SameWork

-----------------------------------------------------------------------------
LEMMA SelectStep ==
  ASSUME IInv, NEW t \in Task, select_ready_task(t)
  PROVE  IInv'
<1> USE DEF select_ready_task, threadVars, waitVars, planVars, permitVars, workVars,
            resultVars, clockVars
<1>0. TypeOK /\ TaskInv(t) /\ phase[t] = "PENDING"
  BY DEF IInv, Ready
<1>1. /\ phase' \in [Task -> TaskPhase] /\ active_task_id' = t
      /\ \A u \in Task : phase'[u] = IF u = t THEN "PLANNING" ELSE phase[u]
  BY <1>0 DEF TypeOK, TaskPhase
<1>2. TypeOK'
  BY <1>0, <1>1 DEF TypeOK
<1>3. SerialOwnership' /\ CycleLedger'
  <2>1. \A u \in Task : phase[u] \in {"PENDING", "DONE"}
    <3>1. NoTask \notin Task
      BY NumTasksAssumption DEF Task, NoTask
    <3> QED BY <3>1 DEF IInv, SerialOwnership
  <2>2. \A u \in Task : \A d \in Deps[u] : d \in Task
    BY DepsAssumption
  <2>3. \A u \in Task : phase'[u] # "PENDING" => \A d \in Deps[u] : phase'[d] = "DONE"
    BY <1>0, <1>1, <2>1, <2>2 DEF IInv, SerialOwnership, Ready
  <2> QED BY <1>1, <2>1, <2>3 DEF SerialOwnership, CycleLedger
<1>4. WorkPhase(t) = "PENDING" /\ WorkPhase(t)' = "PLANNING" /\ phase'[t] = "PLANNING"
  BY <1>0, <1>1 DEF WorkPhase
<1>5. TaskInv(t)'
  BY <1>0, <1>4 DEF TaskInv, PlanLedger, PermitLedger, WorkLedger, ResultLedger, WaitLedger,
     AuthorityLedger, OpenPermits, expected_mode
<1>6. \A u \in Task \ {t} : RowsUnchanged(u)
  BY <1>1 DEF RowsUnchanged
<1> QED BY <1>2, <1>3, <1>5, <1>6, Others DEF IInv

(* Steps that leave every task's rows alone. *)
LEMMA AllRows ==
  ASSUME IInv, interaction_mode' = interaction_mode, \A u \in Task : RowsUnchanged(u)
  PROVE  \A u \in Task : TaskInv(u)'
  BY Frame DEF IInv

LEMMA CompleteStep ==
  ASSUME IInv, complete_cycle
  PROVE  IInv'
<1> USE DEF complete_cycle, waitVars, planVars, permitVars, workVars, resultVars, clockVars
<1>1. TypeOK'
  BY DEF IInv, TypeOK, WorkflowCycleStatus
<1>2. SerialOwnership' /\ CycleLedger'
  BY DEF IInv, SerialOwnership, CycleLedger
<1>3. \A u \in Task : RowsUnchanged(u)
  BY DEF RowsUnchanged
<1> QED BY <1>1, <1>2, <1>3, AllRows DEF IInv

LEMMA FailStep ==
  ASSUME IInv, fail_active_task
  PROVE  IInv'
<1> USE DEF fail_active_task, threadVars, waitVars, planVars, permitVars, workVars,
            resultVars, clockVars
<1>0. TypeOK
  BY DEF IInv
<1>1. /\ \A u \in Task : phase'[u] = IF u = active_task_id THEN "FAILED" ELSE phase[u]
      /\ phase' \in [Task -> TaskPhase]
  BY <1>0 DEF TypeOK, TaskPhase
<1>2. TypeOK'
  BY <1>0, <1>1 DEF TypeOK, WorkflowCycleStatus
<1>3. NoTask \notin Task
  BY NumTasksAssumption DEF Task, NoTask
<1>4. active_task_id \in Task => phase[active_task_id] \notin {"PENDING", "DONE", "FAILED"}
  BY <1>3 DEF IInv, SerialOwnership
<1>5. SerialOwnership' /\ CycleLedger'
  <2>1. \A u \in Task : \A d \in Deps[u] : d \in Task
    BY DepsAssumption
  <2>2. \A u \in Task : phase'[u] # "PENDING" => \A d \in Deps[u] : phase'[d] = "DONE"
    BY <1>1, <1>4, <2>1 DEF IInv, SerialOwnership
  <2> QED BY <1>1, <2>2 DEF IInv, SerialOwnership, CycleLedger
<1>6. ASSUME NEW u \in Task PROVE TaskInv(u)'
  <2>1. CASE u # active_task_id
    BY <1>1, <2>1, Frame DEF IInv, RowsUnchanged
  <2>2. CASE u = active_task_id
    <3>1. phase'[u] = "FAILED" /\ WorkPhase(u)' = "FAILED" /\ phase[u] # "DONE" /\ TaskInv(u)
      BY <1>1, <1>4, <2>2 DEF WorkPhase, IInv
    <3> QED
      BY <3>1 DEF TaskInv, PlanLedger, PermitLedger, WorkLedger, ResultLedger, WaitLedger,
         AuthorityLedger, expected_mode
  <2> QED BY <2>1, <2>2
<1> QED BY <1>2, <1>5, <1>6 DEF IInv

-----------------------------------------------------------------------------
(* The rows initialize_cycle inserts. *)
FreshRows ==
  /\ phase = [t \in Task |-> "PENDING"]
  /\ waiting_from_phase = [t \in Task |-> "NONE"]
  /\ clarification_key = [t \in Task |-> NoQuestion]
  /\ plan_status = [t \in Task |-> [v \in Version |-> "NONE"]]
  /\ posted_at = [t \in Task |-> [v \in Version |-> 0]]
  /\ current_plan_id = [t \in Task |-> NoPlan]
  /\ permits = [t \in Task |-> {}]
  /\ revoked_permits = [t \in Task |-> {}]
  /\ execution_attempt = [t \in Task |-> 0]
  /\ executions = [t \in Task |-> {}]
  /\ validation_round = [t \in Task |-> 0]
  /\ validations = [t \in Task |-> {}]
  /\ results = [t \in Task |-> {}]
  /\ approvals = [t \in Task |-> {}]
  /\ revoked_approvals = [t \in Task |-> {}]
  /\ asks = 0

RowTypes ==
  /\ phase \in [Task -> TaskPhase]
  /\ waiting_from_phase \in [Task -> RunnablePhase \cup {"NONE"}]
  /\ clarification_key \in [Task -> Question \cup {NoQuestion}]
  /\ asks \in 0 .. MaxAsks
  /\ plan_status \in [Task -> [Version -> PlanStatus]]
  /\ posted_at \in [Task -> [Version -> Time]]
  /\ current_plan_id \in [Task -> Version \cup {NoPlan}]
  /\ permits \in [Task -> SUBSET TaskPermit]
  /\ revoked_permits \in [Task -> SUBSET TaskPermit]
  /\ execution_attempt \in [Task -> 0 .. MaxAttempts]
  /\ executions \in [Task -> SUBSET TaskExecution]
  /\ validation_round \in [Task -> 0 .. MaxAttempts]
  /\ validations \in [Task -> SUBSET TaskValidation]
  /\ results \in [Task -> SUBSET TaskResult]
  /\ approvals \in [Task -> SUBSET TaskResultApproval]
  /\ revoked_approvals \in [Task -> SUBSET TaskResultApproval]

FreshInv ==
  RowTypes /\ (\A t \in Task : phase[t] = "PENDING") /\ (\A t \in Task : TaskInv(t))

LEMMA Fresh == FreshRows => FreshInv
<1> SUFFICES ASSUME FreshRows PROVE FreshInv
  OBVIOUS
<1> USE DEF FreshRows
<1>1. RowTypes
  BY BoundsAssumption DEF RowTypes, TaskPhase, PlanStatus, Time
<1>2. ASSUME NEW t \in Task PROVE TaskInv(t)
  <2>1. PlanLedger(t)
    BY BoundsAssumption DEF PlanLedger, WorkPhase, Version, NoPlan
  <2>2. PermitLedger(t) /\ AuthorityLedger(t) /\ WaitLedger(t)
    BY DEF PermitLedger, AuthorityLedger, WaitLedger, WorkPhase, OpenPermits
  <2>3. WorkLedger(t) /\ ResultLedger(t)
    BY DEF WorkLedger, ResultLedger, WorkPhase
  <2> QED BY <2>1, <2>2, <2>3 DEF TaskInv
<1> QED BY <1>1, <1>2 DEF FreshInv

LEMMA InitIInv == Init => IInv
<1> SUFFICES ASSUME Init PROVE IInv
  OBVIOUS
<1>1. FreshRows
  BY DEF Init, FreshRows
<1>2. RowTypes /\ (\A t \in Task : phase[t] = "PENDING") /\ (\A t \in Task : TaskInv(t))
  BY <1>1, Fresh DEF FreshInv
<1>3. /\ cycle_id \in 0 .. MaxCycles /\ cycle_kind \in {"INITIAL", "REVISION"}
      /\ cycle_status = "NONE" /\ active_task_id = NoTask
      /\ initial_state \in {"NOT_STARTED", "ACTIVE", "COMPLETE"}
      /\ initializing \in BOOLEAN /\ interaction_mode \in Modes
  <2>1. cycle_id \in 0 .. MaxCycles
    BY BoundsAssumption DEF Init
  <2>2. initializing \in BOOLEAN
    BY Zenon DEF Init
  <2> QED BY <2>1, <2>2 DEF Init
<1>4. now \in 1 .. MaxTime /\ occurred_at \in [Event -> Time]
  BY BoundsAssumption DEF Init, Time
<1>5. TypeOK
  BY <1>2, <1>3, <1>4 DEF TypeOK, RowTypes, WorkflowCycleStatus
<1>6. SerialOwnership /\ CycleLedger
  BY <1>2, <1>3 DEF SerialOwnership, CycleLedger
<1> QED BY <1>2, <1>5, <1>6 DEF IInv

LEMMA InitializeStep ==
  ASSUME IInv, NEW kind \in Kinds, initialize_cycle(kind)
  PROVE  IInv'
<1>1. FreshRows'
  BY DEF initialize_cycle, FreshRows
<1>2. RowTypes' /\ (\A t \in Task : phase'[t] = "PENDING") /\ (\A t \in Task : TaskInv(t)')
  <2>1. FreshInv'
    BY <1>1, Fresh, PTL
  <2> QED BY <2>1 DEF FreshInv
<1>3. /\ cycle_id' \in 0 .. MaxCycles /\ cycle_kind' \in {"INITIAL", "REVISION"}
      /\ cycle_status' = "ACTIVE" /\ active_task_id' = NoTask /\ initializing' \in BOOLEAN
      /\ UNCHANGED <<initial_state, interaction_mode, now, occurred_at>>
  BY BoundsAssumption, KindsAssumption
     DEF initialize_cycle, IInv, TypeOK, clockVars
<1>4. TypeOK'
  BY <1>2, <1>3 DEF IInv, TypeOK, RowTypes, WorkflowCycleStatus
<1>5. SerialOwnership' /\ CycleLedger'
  BY <1>2, <1>3 DEF SerialOwnership, CycleLedger
<1> QED BY <1>2, <1>4, <1>5 DEF IInv

(* The steps of the clock, of the thread's people and of the lifecycle row. *)
LEMMA OutsideStep ==
  ASSUME IInv,
         \/ activate_initial_workflow \/ CrashBeforeActivation \/ Tick
         \/ \E e \in Event : WriteComment(e)
         \/ UNCHANGED vars
  PROVE  IInv'
<1> USE DEF activate_initial_workflow, CrashBeforeActivation, Tick, WriteComment, vars,
            cycleVars, threadVars, waitVars, planVars, permitVars, workVars, resultVars,
            clockVars
<1>1. /\ UNCHANGED <<cycleVars, phase, waitVars, planVars, permitVars, workVars, resultVars>>
      /\ interaction_mode' = interaction_mode
  OBVIOUS
<1>2. initializing' \in BOOLEAN
  BY Zenon DEF IInv, TypeOK
<1>3. initial_state' \in {"NOT_STARTED", "ACTIVE", "COMPLETE"}
  BY DEF IInv, TypeOK
<1>4. now' \in 1 .. MaxTime /\ occurred_at' \in [Event -> Time]
  BY BoundsAssumption DEF IInv, TypeOK, Time
<1>5. TypeOK'
  BY <1>1, <1>2, <1>3, <1>4 DEF IInv, TypeOK
<1>6. SerialOwnership' /\ CycleLedger'
  BY <1>1 DEF IInv, SerialOwnership, CycleLedger
<1>7. \A u \in Task : RowsUnchanged(u)
  BY <1>1 DEF RowsUnchanged
<1> QED BY <1>1, <1>5, <1>6, <1>7, AllRows DEF IInv

(* Every action of the system preserves the strengthened invariant.        *)
LEMMA NextIInv == IInv /\ [Next]_vars => IInv'
<1> SUFFICES ASSUME IInv, [Next]_vars PROVE IInv'
  OBVIOUS
<1>1. ASSUME NEW kind \in Kinds, initialize_cycle(kind) PROVE IInv'
  BY <1>1, InitializeStep
<1>2. ASSUME NEW t \in Task, select_ready_task(t) PROVE IInv'
  BY <1>2, SelectStep
<1>3. ASSUME NEW t \in Task, finish_validation(t) PROVE IInv'
  BY <1>3, AcceptStep, NeedsFixesStep, ValidationReplanStep, BlockedStep
     DEF finish_validation
<1>4. ASSUME NEW t \in Task,
             \/ submit_posted_plan(t) \/ auto_authorize_plan(t)
             \/ finish_execution(t) \/ finish_validation(t)
             \/ publish_validated_result(t) \/ auto_accept_result(t)
             \/ \E q \in Question : pause_for_clarification(t, q)
      PROVE  IInv'
  BY <1>3, <1>4, SubmitStep, AutoAuthorizeStep, FinishExecutionStep, PublishStep,
     AutoAcceptStep, PauseStep
<1>5. ASSUME NEW t \in Task,
             \/ replan_from_feedback(t) \/ replan_from_result_feedback(t)
             \/ replan_for_revision_inputs(t)
      PROVE  IInv'
  BY <1>5, ReplanStep
     DEF replan_from_feedback, replan_from_result_feedback, replan_for_revision_inputs
<1>6. ASSUME NEW t \in Task, NEW r \in results[t], NEW e \in Event, approve_result(t, r, e)
      PROVE  IInv'
  BY <1>6, AcceptResultStep DEF approve_result, Authority
<1>7. CASE Driver
  BY <1>4, <1>7 DEF Driver
<1>8. CASE Human
  BY <1>5, <1>6, <1>8, ApprovePlanStep, ResumeStep DEF Human
<1>9. CASE Scheduler
  BY <1>2, <1>9, OutsideStep, CompleteStep DEF Scheduler
<1>10. CASE fail_active_task
  BY <1>10, FailStep
<1>11. CASE CrashBeforeActivation \/ Tick \/ (\E e \in Event : WriteComment(e)) \/ UNCHANGED vars
  BY <1>11, OutsideStep
<1> QED BY <1>1, <1>7, <1>8, <1>9, <1>10, <1>11 DEF Next

(***************************************************************************)
(* The strengthened invariant holds in every reachable state, whatever the *)
(* number of tasks, their dependencies and the bounds.                     *)
(***************************************************************************)
THEOREM Inductive == Spec => []IInv
<1>1. Init => IInv
  BY InitIInv
<1>2. IInv /\ [Next]_vars => IInv'
  BY NextIInv
<1> QED BY <1>1, <1>2, PTL DEF Spec

(* The rows keep the shape their tables declare.                           *)
THEOREM TypeCorrect == Spec => []TypeOK
<1>1. IInv => TypeOK
  BY DEF IInv
<1> QED BY <1>1, Inductive, PTL

(* One owner at a time, and only after its dependencies are DONE.          *)
THEOREM OwnershipIsSerial == Spec => []SerialOwnership
<1>1. IInv => SerialOwnership
  BY DEF IInv
<1> QED BY <1>1, Inductive, PTL

(* All work beyond planning is covered by exactly one open permit, for the *)
(* current approved plan.                                                  *)
THEOREM AuthorityIsExact == Spec => []ExactAuthority
<1>1. IInv => ExactAuthority
  BY DEF IInv, TaskInv, AuthorityLedger, ExactAuthority
<1> QED BY <1>1, Inductive, PTL

(* A cycle that awaits publication passes publication_is_eligible's        *)
(* independent proof.                                                      *)
THEOREM CompletedIsProven == Spec => []CompletedCycleProven
<1>1. ASSUME IInv, NEW t \in Task, phase[t] = "DONE" PROVE TaskProven(t)
  <2>0. TypeOK /\ TaskInv(t) /\ WorkPhase(t) = "DONE"
    BY <1>1 DEF IInv, WorkPhase
  <2>1. PICK permit \in OpenPermits(t) : Authorizes(t, permit) /\ OpenPermits(t) = {permit}
    BY <2>0 DEF TaskInv, AuthorityLedger
  <2>2. PICK x \in executions[t] :
          /\ x.attempt = execution_attempt[t] /\ x.plan = current_plan_id[t]
          /\ x.permit \in OpenPermits(t)
    BY <2>0 DEF TaskInv, WorkLedger, ExecutionRecorded
  <2>3. /\ validation_round[t] = execution_attempt[t]
        /\ \E d \in validations[t] :
             /\ d.attempt = execution_attempt[t] /\ d.round = validation_round[t]
             /\ d.plan = current_plan_id[t] /\ d.verdict = "ACCEPT"
    BY <2>0 DEF TaskInv, WorkLedger, AcceptRecorded
  <2>4. PICK d \in validations[t] :
             /\ d.attempt = execution_attempt[t] /\ d.round = validation_round[t]
             /\ d.plan = current_plan_id[t] /\ d.verdict = "ACCEPT"
    BY <2>3
  <2>5. PICK a \in approvals[t] : ResultOfAttempt(t, a.result) /\ a.mode = expected_mode
    BY <1>1, <2>0 DEF TaskInv, ResultLedger
  <2>6. a \in OpenApprovals(t)
    BY <2>0 DEF TaskInv, ResultLedger, OpenApprovals
  <2>7. \A other \in validations[t] : other.round <= d.round
    BY <2>0, <2>4 DEF TaskInv, WorkLedger
  <2>8. x.permit = permit
    BY <2>1, <2>2
  <2> QED
    BY <1>1, <2>1, <2>2, <2>3, <2>4, <2>5, <2>6, <2>7, <2>8 DEF TaskProven, ResultOfAttempt
<1>2. IInv => CompletedCycleProven
  BY <1>1 DEF IInv, CycleLedger, CompletedCycleProven, publication_is_eligible
<1> QED BY <1>2, Inductive, PTL

-----------------------------------------------------------------------------
(* An action of the owner leaves the accepted rows of a DONE task alone.   *)
LEMMA DoneStep ==
  IInv /\ [Next]_vars =>
    [cycle_id' = cycle_id => \A t \in Task : phase[t] = "DONE" => DoneKept(t)]_vars
<1> SUFFICES ASSUME IInv, Next, cycle_id' = cycle_id, NEW u \in Task, phase[u] = "DONE"
             PROVE  DoneKept(u)
  BY DEF vars
<1> USE DEF DoneKept, cycleVars, threadVars, waitVars, planVars, permitVars, workVars,
            resultVars, clockVars, owned_task
<1>0. TypeOK
  BY DEF IInv
<1>1. ASSUME NEW kind \in Kinds, initialize_cycle(kind) PROVE FALSE
  <2>1. cycle_id' = cycle_id + 1 /\ cycle_id \in Nat
    BY <1>0, <1>1, BoundsAssumption DEF initialize_cycle, TypeOK
  <2> QED BY <2>1
<1>2. ASSUME NEW t \in Task, finish_validation(t) PROVE DoneKept(u)
  BY <1>0, <1>2 DEF finish_validation, validation_accept, validation_needs_fixes,
     validation_replan, validation_blocked, RecordValidation, Supersede, TypeOK
<1>3. ASSUME NEW t \in Task,
             submit_posted_plan(t) \/ auto_authorize_plan(t) \/ finish_execution(t)
      PROVE  DoneKept(u)
  BY <1>0, <1>3 DEF submit_posted_plan, auto_authorize_plan, GrantPermit, finish_execution,
     TypeOK
<1>4. ASSUME NEW t \in Task,
             \/ publish_validated_result(t) \/ auto_accept_result(t)
             \/ \E q \in Question : pause_for_clarification(t, q)
      PROVE  DoneKept(u)
  BY <1>0, <1>4 DEF publish_validated_result, auto_accept_result, AcceptResult,
     pause_for_clarification, TypeOK, RunnablePhase
<1>5. ASSUME NEW t \in Task,
             \/ \E v \in Version, e \in Event : approve_plan(t, v, e)
             \/ \E r \in results[t], e \in Event : approve_result(t, r, e)
             \/ replan_from_feedback(t) \/ replan_from_result_feedback(t)
             \/ replan_for_revision_inputs(t)
             \/ \E q \in Question : resume_clarification(t, q)
      PROVE  DoneKept(u)
  BY <1>0, <1>5 DEF approve_plan, GrantPermit, approve_result, AcceptResult,
     replan_from_feedback, replan_from_result_feedback, replan_for_revision_inputs,
     Supersede, resume_clarification, TypeOK
<1>6. CASE Driver
  BY <1>2, <1>3, <1>4, <1>6 DEF Driver
<1>7. CASE Human
  BY <1>5, <1>7 DEF Human
<1>8. CASE Scheduler
  BY <1>0, <1>8 DEF Scheduler, activate_initial_workflow, select_ready_task, Ready,
     complete_cycle, TypeOK
<1>9. CASE fail_active_task
  <2>1. u # active_task_id
    BY <1>9, NumTasksAssumption DEF fail_active_task, IInv, SerialOwnership, Task, NoTask
  <2> QED BY <1>9, <2>1 DEF fail_active_task
<1>10. CASE CrashBeforeActivation \/ Tick \/ \E e \in Event : WriteComment(e)
  BY <1>10 DEF CrashBeforeActivation, Tick, WriteComment
<1> QED BY <1>1, <1>6, <1>7, <1>8, <1>9, <1>10 DEF Next

(* A finished task is never reopened and its accepted rows never change.   *)
THEOREM DoneStaysDone == Spec => DoneIsFinal
<1>1. IInv /\ [Next]_vars =>
        [cycle_id' = cycle_id => \A t \in Task : phase[t] = "DONE" => DoneKept(t)]_vars
  BY DoneStep
<1> QED BY <1>1, Inductive, PTL DEF Spec, DoneIsFinal

-----------------------------------------------------------------------------
(***************************************************************************)
(* Single use of approvals.  A comment that has authorized something is    *)
(* never newer than the occurrence that waits, so the strict comparison of *)
(* timestamps keeps it from authorizing again.                             *)
(***************************************************************************)

(* A step that authorizes nothing and opens no wait.                       *)
LEMMA QuietStep ==
  ASSUME IInv, TimeInv, SingleUseApproval,
         UNCHANGED <<clockVars, permits, approvals>>,
         \A t \in Task :
           phase'[t] \in {"WAITING_FOR_PLAN_APPROVAL", "WAITING_FOR_RESULT_APPROVAL"} =>
             RowsUnchanged(t) /\ posted_at'[t] = posted_at[t]
  PROVE  TimeInv' /\ SingleUseApproval'
<1> USE DEF clockVars
<1>1. UsedEvents' = UsedEvents
  BY DEF UsedEvents
<1>2. SingleUseApproval'
  BY DEF SingleUseApproval
<1>3. ASSUME NEW t \in Task, phase'[t] = "WAITING_FOR_PLAN_APPROVAL", NEW e \in UsedEvents
      PROVE  occurred_at'[e] <= posted_at'[t][current_plan_id'[t]]
  BY <1>3 DEF TimeInv, RowsUnchanged
<1>4. ASSUME NEW t \in Task, phase'[t] = "WAITING_FOR_RESULT_APPROVAL",
             NEW r \in results'[t], ResultOfAttempt(t, r)', NEW e \in UsedEvents
      PROVE  occurred_at'[e] <= r.posted
  <2>1. RowsUnchanged(t) /\ phase[t] = "WAITING_FOR_RESULT_APPROVAL" /\ r \in results[t]
    BY <1>4 DEF RowsUnchanged
  <2>2. ResultOfAttempt(t, r)
    BY <1>4, <2>1 DEF RowsUnchanged, ResultOfAttempt
  <2> QED BY <2>1, <2>2 DEF TimeInv
<1>5. (\A e \in Event : occurred_at'[e] <= now') /\ (\A e \in UsedEvents : occurred_at'[e] > 0)
  BY DEF TimeInv
<1> QED BY <1>1, <1>2, <1>3, <1>4, <1>5 DEF TimeInv

(* Opening a wait: everything used so far was written before now.          *)
LEMMA OpenWait ==
  ASSUME IInv, TimeInv, SingleUseApproval, NEW t \in Task,
         UNCHANGED <<clockVars, permits, approvals>>,
         \A u \in Task \ {t} : phase'[u] = phase[u] /\ phase[u] \in {"PENDING", "DONE"},
         phase'[t] = "WAITING_FOR_PLAN_APPROVAL" =>
           posted_at'[t][current_plan_id'[t]] = now,
         phase'[t] = "WAITING_FOR_RESULT_APPROVAL" =>
           \A r \in results'[t] : ResultOfAttempt(t, r)' => r.posted = now
  PROVE  TimeInv' /\ SingleUseApproval'
<1> USE DEF clockVars
<1>1. UsedEvents' = UsedEvents /\ UsedEvents \subseteq Event
  BY DEF UsedEvents
<1>2. SingleUseApproval'
  BY DEF SingleUseApproval
<1>3. \A e \in UsedEvents : occurred_at[e] <= now /\ occurred_at[e] > 0
  BY <1>1 DEF TimeInv
<1>4. \A e \in Event : occurred_at'[e] <= now'
  BY DEF TimeInv
<1>5. ASSUME NEW u \in Task, phase'[u] = "WAITING_FOR_PLAN_APPROVAL", NEW e \in UsedEvents
      PROVE  occurred_at'[e] <= posted_at'[u][current_plan_id'[u]]
  BY <1>3, <1>5
<1>6. ASSUME NEW u \in Task, phase'[u] = "WAITING_FOR_RESULT_APPROVAL",
             NEW r \in results'[u], ResultOfAttempt(u, r)', NEW e \in UsedEvents
      PROVE  occurred_at'[e] <= r.posted
  <2>1. u = t
    BY <1>6
  <2>2. r.posted = now
    BY <1>6, <2>1
  <2> QED BY <1>3, <2>2
<1> QED BY <1>1, <1>2, <1>3, <1>4, <1>5, <1>6 DEF TimeInv

(* The tasks beside the owner are PENDING or DONE.                         *)
LEMMA Alone ==
  ASSUME IInv, NEW t \in Task, active_task_id = t
  PROVE  \A u \in Task \ {t} : phase[u] \in {"PENDING", "DONE"}
  BY DEF IInv, SerialOwnership

LEMMA SubmitTimed ==
  ASSUME IInv, TimeInv, SingleUseApproval, NEW t \in Task, submit_posted_plan(t)
  PROVE  TimeInv' /\ SingleUseApproval'
<1>1. /\ active_task_id = t /\ phase' = [phase EXCEPT ![t] = "WAITING_FOR_PLAN_APPROVAL"]
      /\ UNCHANGED <<clockVars, permits, approvals>> /\ TypeOK
      /\ \E v \in Version : /\ posted_at' = [posted_at EXCEPT ![t][v] = now]
                            /\ current_plan_id' = [current_plan_id EXCEPT ![t] = v]
  BY DEF submit_posted_plan, owned_task, resultVars, IInv
<1>2. posted_at'[t][current_plan_id'[t]] = now
  BY <1>1 DEF TypeOK
<1>3. \A u \in Task \ {t} : phase'[u] = phase[u] /\ phase[u] \in {"PENDING", "DONE"}
  BY <1>1, Alone DEF TypeOK
<1>4. phase'[t] = "WAITING_FOR_PLAN_APPROVAL"
  BY <1>1 DEF TypeOK
<1> QED BY <1>1, <1>2, <1>3, <1>4, OpenWait

LEMMA PublishTimed ==
  ASSUME IInv, TimeInv, SingleUseApproval, NEW t \in Task, publish_validated_result(t)
  PROVE  TimeInv' /\ SingleUseApproval'
<1>1. PICK d \in Decided(t), x \in executions[t] :
        /\ active_task_id = t /\ phase[t] = "VALIDATING"
        /\ phase' = [phase EXCEPT ![t] = "WAITING_FOR_RESULT_APPROVAL"]
        /\ UNCHANGED <<clockVars, permits, approvals, execution_attempt>>
        /\ x.attempt = execution_attempt[t]
        /\ results' = [results EXCEPT ![t] =
             IF \E r \in @ : r.plan = x.plan /\ r.attempt = x.attempt /\ r.round = d.round
             THEN @
             ELSE @ \cup {[plan |-> x.plan, attempt |-> x.attempt, round |-> d.round,
                           posted |-> now]}]
  BY DEF publish_validated_result, owned_task, permitVars, workVars
<1>2. TypeOK /\ TaskInv(t) /\ WorkPhase(t) = "VALIDATING"
  BY <1>1 DEF IInv, WorkPhase
<1>3. \A r \in results[t] : r.attempt # execution_attempt[t]
  <2>1. \A r \in results[t] : r.attempt \in Nat /\ r.attempt < execution_attempt[t]
    BY <1>2 DEF TypeOK, TaskResult, Attempt, TaskInv, ResultLedger
  <2>2. execution_attempt[t] \in Nat
    BY <1>2 DEF TypeOK
  <2> QED BY <2>1, <2>2
<1>4. \A r \in results'[t] : ResultOfAttempt(t, r)' => r.posted = now
  BY <1>1, <1>2, <1>3 DEF TypeOK, ResultOfAttempt
<1>5. \A u \in Task \ {t} : phase'[u] = phase[u] /\ phase[u] \in {"PENDING", "DONE"}
  BY <1>1, <1>2, Alone DEF TypeOK
<1>6. phase'[t] = "WAITING_FOR_RESULT_APPROVAL"
  BY <1>1, <1>2 DEF TypeOK
<1> QED BY <1>1, <1>4, <1>5, <1>6, OpenWait

NobodyWaits ==
  \A u \in Task :
    phase[u] \notin {"WAITING_FOR_PLAN_APPROVAL", "WAITING_FOR_RESULT_APPROVAL"}

(* An authority that is the policy, or a comment never used before. *)
Unused(b) == b = AutoPolicy \/ (b \in Event \ UsedEvents /\ occurred_at[b] > 0)

LEMMA NewPermit ==
  ASSUME IInv, TimeInv, SingleUseApproval, NEW t \in Task, NEW p \in TaskPermit,
         Unused(p.by), permits' = [permits EXCEPT ![t] = @ \cup {p}],
         UNCHANGED <<clockVars, approvals>>, NobodyWaits'
  PROVE  TimeInv' /\ SingleUseApproval'
<1> USE DEF clockVars, Unused
<1>0. AutoPolicy \notin Event
  BY IdentityAssumption
<1>1. \A u \in Task : permits'[u] = IF u = t THEN permits[u] \cup {p} ELSE permits[u]
  BY DEF IInv, TypeOK
<1>2. \A e \in UsedEvents' : e \in UsedEvents \/ e = p.by
  BY <1>1 DEF UsedEvents
<1>3. \A u \in Task : /\ \A q \in permits[u] : q.by = p.by => p.by = AutoPolicy
                      /\ \A a \in approvals[u] : a.by = p.by => p.by = AutoPolicy
  BY DEF UsedEvents
<1>4. SingleUseApproval'
  <2>1. ASSUME NEW v \in Task, NEW u \in Task, NEW q \in permits'[v], NEW r \in permits'[u],
               q.by = r.by, q.by \in Event
        PROVE  v = u /\ q = r
    BY <1>0, <1>1, <1>3, <2>1 DEF SingleUseApproval
  <2>2. ASSUME NEW v \in Task, NEW u \in Task, NEW q \in permits'[v], NEW a \in approvals[u],
               q.by = a.by
        PROVE  q.by = AutoPolicy
    BY <1>1, <1>3, <2>2 DEF SingleUseApproval
  <2>3. \A v, u \in Task : \A a \in approvals'[v], b \in approvals'[u] :
          a.by = b.by /\ a.by \in Event => v = u /\ a = b
    BY DEF SingleUseApproval
  <2> QED BY <2>1, <2>2, <2>3 DEF SingleUseApproval
<1>5. UsedEvents' \subseteq Event
  BY DEF UsedEvents
<1>6. (\A e \in UsedEvents' : occurred_at'[e] > 0) /\ (\A e \in Event : occurred_at'[e] <= now')
  BY <1>0, <1>2, <1>5 DEF TimeInv
<1> QED BY <1>4, <1>6 DEF TimeInv, NobodyWaits

LEMMA NewApproval ==
  ASSUME IInv, TimeInv, SingleUseApproval, NEW t \in Task, NEW a \in TaskResultApproval,
         Unused(a.by), UNCHANGED <<clockVars, permits>>, NobodyWaits',
         \/ approvals' = [approvals EXCEPT ![t] = @ \cup {a}]
         \/ approvals' = approvals
  PROVE  TimeInv' /\ SingleUseApproval'
<1> USE DEF clockVars, Unused
<1>0. AutoPolicy \notin Event
  BY IdentityAssumption
<1>1. \A u \in Task : approvals'[u] \subseteq approvals[u] \cup (IF u = t THEN {a} ELSE {})
  BY DEF IInv, TypeOK
<1>2. \A e \in UsedEvents' : e \in UsedEvents \/ e = a.by
  BY <1>1 DEF UsedEvents
<1>3. \A u \in Task : /\ \A q \in permits[u] : q.by = a.by => a.by = AutoPolicy
                      /\ \A b \in approvals[u] : b.by = a.by => a.by = AutoPolicy
  BY DEF UsedEvents
<1>4. SingleUseApproval'
  <2>1. ASSUME NEW v \in Task, NEW u \in Task, NEW b \in approvals'[v],
               NEW c \in approvals'[u], b.by = c.by, b.by \in Event
        PROVE  v = u /\ b = c
    <3>1. b \in approvals[v] \/ (v = t /\ b = a)
      BY <1>1
    <3>2. c \in approvals[u] \/ (u = t /\ c = a)
      BY <1>1
    <3> QED BY <1>0, <1>3, <2>1, <3>1, <3>2 DEF SingleUseApproval
  <2>2. ASSUME NEW v \in Task, NEW u \in Task, NEW q \in permits[v], NEW b \in approvals'[u],
               q.by = b.by
        PROVE  q.by = AutoPolicy
    <3>1. b \in approvals[u] \/ (u = t /\ b = a)
      BY <1>1
    <3> QED BY <1>3, <2>2, <3>1 DEF SingleUseApproval
  <2>3. \A v, u \in Task : \A q \in permits'[v], r \in permits'[u] :
          q.by = r.by /\ q.by \in Event => v = u /\ q = r
    BY DEF SingleUseApproval
  <2> QED BY <2>1, <2>2, <2>3 DEF SingleUseApproval
<1>5. UsedEvents' \subseteq Event
  BY DEF UsedEvents
<1>6. (\A e \in UsedEvents' : occurred_at'[e] > 0) /\ (\A e \in Event : occurred_at'[e] <= now')
  BY <1>0, <1>2, <1>5 DEF TimeInv
<1> QED BY <1>4, <1>6 DEF TimeInv, NobodyWaits

LEMMA GrantTimed ==
  ASSUME IInv, TimeInv, SingleUseApproval, NEW t \in Task,
         owned_task(t, "WAITING_FOR_PLAN_APPROVAL"), NEW p \in TaskPermit,
         GrantPermit(t, current_plan_id[t], p), Unused(p.by)
  PROVE  TimeInv' /\ SingleUseApproval'
<1>1. NobodyWaits'
  BY Alone DEF NobodyWaits, GrantPermit, owned_task, IInv, TypeOK
<1> QED BY <1>1, NewPermit DEF GrantPermit, resultVars

LEMMA ApprovePlanTimed ==
  ASSUME IInv, TimeInv, SingleUseApproval, NEW t \in Task, NEW occ \in Version,
         NEW e \in Event, approve_plan(t, occ, e)
  PROVE  TimeInv' /\ SingleUseApproval'
<1> DEFINE p == [plan |-> occ, mode |-> "HUMAN", by |-> e]
<1>1. p \in TaskPermit /\ p.by = e
  BY DEF TaskPermit, ApprovalMode, Authority
<1>2. /\ occurred_at[e] \in Nat /\ posted_at[t][occ] \in Nat
      /\ occurred_at[e] > posted_at[t][occ] /\ occ = current_plan_id[t]
      /\ phase[t] = "WAITING_FOR_PLAN_APPROVAL"
  BY DEF approve_plan, owned_task, IInv, TypeOK, Time
<1>3. e \notin UsedEvents
  BY <1>2 DEF TimeInv
<1>4. Unused(p.by)
  BY <1>1, <1>2, <1>3 DEF Unused
<1>5. GrantPermit(t, current_plan_id[t], p) /\ owned_task(t, "WAITING_FOR_PLAN_APPROVAL")
  BY DEF approve_plan
<1> HIDE DEF p
<1> QED BY <1>1, <1>4, <1>5, GrantTimed

LEMMA AutoAuthorizeTimed ==
  ASSUME IInv, TimeInv, SingleUseApproval, NEW t \in Task, auto_authorize_plan(t)
  PROVE  TimeInv' /\ SingleUseApproval'
<1> DEFINE p == [plan |-> current_plan_id[t], mode |-> "AUTO", by |-> AutoPolicy]
<1>1. current_plan_id[t] \in Version
  BY DEF auto_authorize_plan, owned_task, IInv, TypeOK, TaskInv, PlanLedger, WorkPhase
<1>2. p \in TaskPermit /\ Unused(p.by)
  BY <1>1 DEF TaskPermit, ApprovalMode, Authority, Unused
<1>3. GrantPermit(t, current_plan_id[t], p) /\ owned_task(t, "WAITING_FOR_PLAN_APPROVAL")
  BY DEF auto_authorize_plan
<1> HIDE DEF p
<1> QED BY <1>2, <1>3, GrantTimed

LEMMA AcceptTimed ==
  ASSUME IInv, TimeInv, SingleUseApproval, NEW t \in Task, NEW r \in results[t],
         NEW by \in Authority, AcceptResult(t, r, by), Unused(by)
  PROVE  TimeInv' /\ SingleUseApproval'
<1> DEFINE a == [result |-> r, mode |-> expected_mode, by |-> by]
<1>1. a \in TaskResultApproval /\ a.by = by
  BY DEF IInv, TypeOK, TaskResultApproval, expected_mode, ApprovalMode
<1>2. NobodyWaits'
  BY Alone DEF NobodyWaits, AcceptResult, owned_task, IInv, TypeOK
<1>3. approvals' = [approvals EXCEPT ![t] = @ \cup {a}] \/ approvals' = approvals
  BY DEF AcceptResult, IInv, TypeOK
<1>4. UNCHANGED <<clockVars, permits>>
  BY DEF AcceptResult, permitVars
<1> HIDE DEF a
<1> QED BY <1>1, <1>2, <1>3, <1>4, NewApproval

LEMMA ApproveResultTimed ==
  ASSUME IInv, TimeInv, SingleUseApproval, NEW t \in Task, NEW r \in results[t],
         NEW e \in Event, approve_result(t, r, e)
  PROVE  TimeInv' /\ SingleUseApproval'
<1>1. phase[t] = "WAITING_FOR_RESULT_APPROVAL" /\ current_result(t, r) /\ TypeOK /\ TaskInv(t)
  BY DEF approve_result, AcceptResult, owned_task, IInv
<1>2. ResultOfAttempt(t, r)
  BY <1>1, CurrentResult
<1>3. occurred_at[e] \in Nat /\ r.posted \in Nat /\ occurred_at[e] > r.posted
  BY <1>1 DEF approve_result, TypeOK, TaskResult, Time
<1>4. e \notin UsedEvents
  BY <1>1, <1>2, <1>3 DEF TimeInv
<1>5. Unused(e) /\ e \in Authority /\ AcceptResult(t, r, e)
  BY <1>3, <1>4 DEF Unused, Authority, approve_result
<1> QED BY <1>5, AcceptTimed

LEMMA AutoAcceptTimed ==
  ASSUME IInv, TimeInv, SingleUseApproval, NEW t \in Task, auto_accept_result(t)
  PROVE  TimeInv' /\ SingleUseApproval'
  BY AcceptTimed DEF auto_accept_result, Unused, Authority

LEMMA OwnerQuiet ==
  ASSUME IInv, TimeInv, SingleUseApproval, NEW t \in Task,
         \/ finish_execution(t) \/ finish_validation(t)
         \/ replan_from_feedback(t) \/ replan_from_result_feedback(t)
         \/ replan_for_revision_inputs(t)
         \/ \E q \in Question : pause_for_clarification(t, q) \/ resume_clarification(t, q)
  PROVE  TimeInv' /\ SingleUseApproval'
<1> USE DEF owned_task, cycleVars, threadVars, waitVars, planVars, permitVars, workVars,
            resultVars, clockVars
<1>1. UNCHANGED <<clockVars, permits, approvals>> /\ active_task_id = t
  BY DEF finish_execution, finish_validation, validation_accept, validation_needs_fixes,
     validation_replan, validation_blocked, RecordValidation, Supersede,
     replan_from_feedback, replan_from_result_feedback, replan_for_revision_inputs,
     pause_for_clarification, resume_clarification
<1>2. /\ phase'[t] \notin {"WAITING_FOR_PLAN_APPROVAL", "WAITING_FOR_RESULT_APPROVAL"}
      /\ \A u \in Task \ {t} : phase'[u] = phase[u]
  BY DEF finish_execution, finish_validation, validation_accept, validation_needs_fixes,
     validation_replan, validation_blocked, RecordValidation, Supersede,
     replan_from_feedback, replan_from_result_feedback, replan_for_revision_inputs,
     pause_for_clarification, resume_clarification, IInv, TypeOK, RunnablePhase
<1>3. \A u \in Task :
        phase'[u] \notin {"WAITING_FOR_PLAN_APPROVAL", "WAITING_FOR_RESULT_APPROVAL"}
  BY <1>1, <1>2, Alone
<1> QED BY <1>1, <1>3, QuietStep

LEMMA SystemQuiet ==
  ASSUME IInv, TimeInv, SingleUseApproval,
         \/ activate_initial_workflow \/ CrashBeforeActivation \/ complete_cycle
         \/ fail_active_task \/ UNCHANGED vars
         \/ \E t \in Task : select_ready_task(t)
  PROVE  TimeInv' /\ SingleUseApproval'
<1> USE DEF vars, cycleVars, threadVars, waitVars, planVars, permitVars, workVars,
            resultVars, clockVars
<1>1. UNCHANGED <<clockVars, waitVars, planVars, permitVars, workVars, resultVars>>
  BY DEF activate_initial_workflow, CrashBeforeActivation, complete_cycle, fail_active_task,
     select_ready_task
<1>2. \A u \in Task : phase'[u] = phase[u] \/ phase'[u] \in {"FAILED", "PLANNING"}
  BY DEF activate_initial_workflow, CrashBeforeActivation, complete_cycle, fail_active_task,
     select_ready_task, IInv, TypeOK
<1>3. \A u \in Task :
        phase'[u] \in {"WAITING_FOR_PLAN_APPROVAL", "WAITING_FOR_RESULT_APPROVAL"} =>
          RowsUnchanged(u) /\ posted_at'[u] = posted_at[u]
  BY <1>1, <1>2 DEF RowsUnchanged
<1> QED BY <1>1, <1>3, QuietStep

LEMMA InitializeTimed ==
  ASSUME TimeInv, NEW kind \in Kinds, initialize_cycle(kind)
  PROVE  TimeInv' /\ SingleUseApproval'
<1>1. /\ \A u \in Task : permits'[u] = {} /\ approvals'[u] = {} /\ phase'[u] = "PENDING"
      /\ UNCHANGED clockVars
  BY DEF initialize_cycle
<1>2. UsedEvents' = {}
  BY <1>1 DEF UsedEvents
<1>3. TimeInv'
  BY <1>1, <1>2 DEF TimeInv, clockVars
<1> QED BY <1>1, <1>3 DEF SingleUseApproval

LEMMA WorldTimed ==
  ASSUME IInv, TimeInv, SingleUseApproval,
         Tick \/ \E e \in Event : WriteComment(e)
  PROVE  TimeInv' /\ SingleUseApproval'
<1> USE DEF cycleVars, threadVars, waitVars, planVars, permitVars, workVars, resultVars
<1>1. UNCHANGED <<phase, planVars, workVars, resultVars, permitVars>>
  BY DEF Tick, WriteComment
<1>2. UsedEvents' = UsedEvents /\ SingleUseApproval' /\ UsedEvents \subseteq Event
  BY <1>1 DEF UsedEvents, SingleUseApproval
<1>3. /\ \A e \in Event : occurred_at'[e] <= now'
      /\ \A e \in UsedEvents : occurred_at'[e] = occurred_at[e]
  <2>1. /\ now \in Nat /\ (\A e \in Event : occurred_at[e] \in Nat /\ occurred_at[e] <= now)
        /\ occurred_at \in [Event -> Time] /\ \A e \in UsedEvents : occurred_at[e] > 0
    BY BoundsAssumption DEF TimeInv, IInv, TypeOK, Time
  <2>2. CASE Tick
    BY <1>2, <2>1, <2>2 DEF Tick
  <2>3. ASSUME NEW c \in Event, WriteComment(c)
        PROVE  /\ \A e \in Event : occurred_at'[e] <= now'
               /\ \A e \in UsedEvents : occurred_at'[e] = occurred_at[e]
    <3>1. c \notin UsedEvents
      BY <2>1, <2>3 DEF WriteComment
    <3>2. \A e \in Event : occurred_at'[e] = IF e = c THEN now ELSE occurred_at[e]
      BY <2>1, <2>3 DEF WriteComment
    <3> QED BY <1>2, <2>1, <2>3, <3>1, <3>2 DEF WriteComment
  <2> QED BY <2>2, <2>3
<1>4. \A t \in Task : \A r \in results[t] : ResultOfAttempt(t, r)' <=> ResultOfAttempt(t, r)
  BY <1>1 DEF ResultOfAttempt
<1> QED BY <1>1, <1>2, <1>3, <1>4 DEF TimeInv

LEMMA NextTimed == IInvTimed /\ [Next]_vars => IInvTimed'
<1> SUFFICES ASSUME IInvTimed, [Next]_vars PROVE TimeInv' /\ SingleUseApproval'
  BY NextIInv DEF IInvTimed
<1> USE DEF IInvTimed
<1>1. CASE Driver
  BY <1>1, SubmitTimed, AutoAuthorizeTimed, OwnerQuiet, PublishTimed, AutoAcceptTimed
     DEF Driver
<1>2. CASE Human
  BY <1>2, ApprovePlanTimed, ApproveResultTimed, OwnerQuiet DEF Human
<1>3. CASE Scheduler
  BY <1>3, SystemQuiet DEF Scheduler
<1>4. ASSUME NEW kind \in Kinds, initialize_cycle(kind) PROVE TimeInv' /\ SingleUseApproval'
  BY <1>4, InitializeTimed
<1>5. CASE CrashBeforeActivation \/ fail_active_task \/ UNCHANGED vars
  BY <1>5, SystemQuiet
<1>6. CASE Tick \/ \E e \in Event : WriteComment(e)
  BY <1>6, WorldTimed
<1> QED BY <1>1, <1>2, <1>3, <1>4, <1>5, <1>6 DEF Next

(* One "@agent approve" comment authorizes one plan or one result, never   *)
(* two things, in every interleaving of posting and approving.             *)
THEOREM ApprovalIsSingleUse == Spec => []SingleUseApproval
<1>1. Init => IInvTimed
  <2> SUFFICES ASSUME Init PROVE TimeInv /\ SingleUseApproval
    BY InitIInv DEF IInvTimed
  <2>1. UsedEvents = {}
    BY DEF Init, UsedEvents
  <2>2. SingleUseApproval
    BY DEF Init, SingleUseApproval
  <2> QED BY <2>1, <2>2 DEF Init, TimeInv
<1>2. IInvTimed /\ [Next]_vars => IInvTimed'
  BY NextTimed
<1>3. IInvTimed => SingleUseApproval
  BY DEF IInvTimed
<1> QED BY <1>1, <1>2, <1>3, PTL DEF Spec

-----------------------------------------------------------------------------
(* The refinement.  WorkflowRuntime implements TaskLifecycle.  The         *)
(* strengthened invariant IInvTimed says what the mapping needs: who owns, *)
(* which permit is open, which comments are used.                          *)

(* Nothing the lifecycle shows of task u has changed.                      *)
SameView(u) == WorkPhase(u)' = WorkPhase(u) /\ OpenPermits(u)' = OpenPermits(u)

LEMMA SameRowsSameView ==
  ASSUME NEW u \in Task, RowsUnchanged(u) PROVE SameView(u)
  BY DEF RowsUnchanged, SameView, WorkPhase, OpenPermits

(* Comments are used by permits and approvals only.                        *)
LEMMA UsedKept ==
  ASSUME UNCHANGED <<permits, approvals>> PROVE UsedEvents' = UsedEvents
  BY DEF UsedEvents

(* A step that changes no view, no status and no authority is invisible.   *)
LEMMA Invisible ==
  ASSUME UNCHANGED <<cycle_status, permits, approvals>>, \A u \in Task : SameView(u)
  PROVE  UNCHANGED Lifecycle!lifecycle
<1>1. UsedEvents' = UsedEvents
  BY UsedKept
<1>2. [u \in Task |-> StageOf(WorkPhase(u))]' = [u \in Task |-> StageOf(WorkPhase(u))]
  BY DEF SameView
<1>3. [u \in Task |-> {p.by : p \in OpenPermits(u)}]' = [u \in Task |-> {p.by : p \in OpenPermits(u)}]
  BY DEF SameView
<1> QED BY <1>1, <1>2, <1>3 DEF Lifecycle!lifecycle, StatusOf

(* A step of one task from stage to stage.                                 *)
LEMMA Moves ==
  ASSUME NEW t \in Task, cycle_status = "ACTIVE", cycle_status' = cycle_status,
         NEW from, NEW to, StageOf(WorkPhase(t)) \in from, StageOf(WorkPhase(t))' = to,
         \A u \in Task \ {t} : WorkPhase(u)' = WorkPhase(u)
  PROVE  Lifecycle!Move(t, from, to)
  BY DEF Lifecycle!Move, StatusOf, StageOf

(* The authority of one task is replaced.                                  *)
LEMMA Authorities ==
  ASSUME NEW t \in Task, NEW S, {p.by : p \in OpenPermits(t)}' = S,
         \A u \in Task \ {t} : OpenPermits(u)' = OpenPermits(u)
  PROVE  [u \in Task |-> {p.by : p \in OpenPermits(u)}]' =
           [[u \in Task |-> {p.by : p \in OpenPermits(u)}] EXCEPT ![t] = S]
  OBVIOUS

LEMMA AuthoritiesKept ==
  ASSUME \A u \in Task : OpenPermits(u)' = OpenPermits(u)
  PROVE  [u \in Task |-> {p.by : p \in OpenPermits(u)}]' =
           [u \in Task |-> {p.by : p \in OpenPermits(u)}]
  OBVIOUS

-----------------------------------------------------------------------------
(* What the rows of the owner say about its stage and its permits.         *)
LEMMA OwnerView ==
  ASSUME IInv, NEW t \in Task
  PROVE  /\ phase \in [Task -> TaskPhase]
         /\ waiting_from_phase \in [Task -> RunnablePhase \cup {"NONE"}]
         /\ phase[t] = "WAITING_FOR_INPUT" => waiting_from_phase[t] \in RunnablePhase
         /\ revoked_permits[t] \subseteq permits[t]
         /\ WorkPhase(t) \in {"PENDING", "PLANNING", "WAITING_FOR_PLAN_APPROVAL"} =>
              OpenPermits(t) = {}
  BY DEF IInv, TypeOK, TaskInv, WaitLedger, AuthorityLedger, PermitLedger

(* A task's phase and its stage.                                           *)
LEMMA Stages ==
  ASSUME NEW t \in Task
  PROVE  /\ phase[t] = "PENDING" => StageOf(WorkPhase(t)) = "waiting"
         /\ phase[t] = "PLANNING" => StageOf(WorkPhase(t)) = "planning"
         /\ phase[t] = "WAITING_FOR_PLAN_APPROVAL" => StageOf(WorkPhase(t)) = "offered"
         /\ phase[t] \in {"EXECUTING", "VALIDATING"} => StageOf(WorkPhase(t)) = "working"
         /\ phase[t] = "WAITING_FOR_RESULT_APPROVAL" => StageOf(WorkPhase(t)) = "delivered"
         /\ phase[t] = "DONE" => StageOf(WorkPhase(t)) = "done"
         /\ phase[t] = "FAILED" => StageOf(WorkPhase(t)) = "failed"
  BY DEF WorkPhase, StageOf

LEMMA SelectMaps ==
  ASSUME IInv, NEW t \in Task, select_ready_task(t) PROVE Lifecycle!Start(t)
<1>1. /\ cycle_status = "ACTIVE" /\ cycle_status' = cycle_status /\ active_task_id = NoTask
      /\ phase[t] = "PENDING" /\ phase' = [phase EXCEPT ![t] = "PLANNING"]
      /\ \A d \in Deps[t] : phase[d] = "DONE"
      /\ UNCHANGED <<waiting_from_phase, permits, revoked_permits, approvals>>
  BY DEF select_ready_task, Ready, waitVars, permitVars, resultVars
<1>2. \A u \in Task : phase[u] \in {"PENDING", "DONE"}
  BY <1>1, NumTasksAssumption DEF IInv, SerialOwnership, Task, NoTask
<1>3. \A u \in Task : StageOf(WorkPhase(u)) \in {"waiting", "done"}
  BY <1>2, Stages
<1>4. \A u \in Task \ {t} : WorkPhase(u)' = WorkPhase(u)
  BY <1>1, OwnerView DEF WorkPhase
<1>5. \A d \in Deps[t] : d \in Task /\ StageOf(WorkPhase(d)) = "done"
  BY <1>1, Stages, DepsAssumption
<1>6. StageOf(WorkPhase(t))' = "planning"
  BY <1>1, OwnerView DEF StageOf, WorkPhase
<1>7. Lifecycle!Move(t, {"waiting"}, "planning")
  BY <1>1, <1>4, <1>6, Moves, Stages
<1>8. \A u \in Task : OpenPermits(u)' = OpenPermits(u)
  BY <1>1 DEF OpenPermits
<1>9. UsedEvents' = UsedEvents
  BY <1>1, UsedKept
<1> QED BY <1>3, <1>5, <1>7, <1>8, <1>9, AuthoritiesKept DEF Lifecycle!Start, Lifecycle!UnderWay

LEMMA InitializeMaps ==
  ASSUME NEW kind \in Kinds, initialize_cycle(kind) PROVE Lifecycle!Open
<1>1. /\ cycle_status # "ACTIVE" /\ cycle_status' = "ACTIVE"
      /\ \A u \in Task : /\ phase'[u] = "PENDING" /\ permits'[u] = {}
                         /\ revoked_permits'[u] = {} /\ approvals'[u] = {}
  BY DEF initialize_cycle
<1>2. \A u \in Task : StageOf(WorkPhase(u))' = "waiting" /\ OpenPermits(u)' = {}
  BY <1>1 DEF StageOf, WorkPhase, OpenPermits
<1>3. UsedEvents' = {}
  BY <1>1 DEF UsedEvents
<1>4. StatusOf(cycle_status) # "open" /\ StatusOf(cycle_status)' = "open"
  BY <1>1 DEF StatusOf
<1>5. [u \in Task |-> StageOf(WorkPhase(u))]' = [u \in Task |-> "waiting"]
  BY <1>2
<1>6. [u \in Task |-> {p.by : p \in OpenPermits(u)}]' = [u \in Task |-> {}]
  BY <1>2
<1> QED BY <1>3, <1>4, <1>5, <1>6 DEF Lifecycle!Open

LEMMA CompleteMaps ==
  ASSUME complete_cycle PROVE Lifecycle!Complete
<1>1. /\ cycle_status = "ACTIVE" /\ cycle_status' = "AWAITING_PUBLICATION"
      /\ \A u \in Task : phase[u] = "DONE"
      /\ UNCHANGED <<phase, waiting_from_phase, permits, revoked_permits, approvals>>
  BY DEF complete_cycle, waitVars, permitVars, resultVars
<1>2. \A u \in Task : SameView(u)
  BY <1>1 DEF SameView, WorkPhase, OpenPermits
<1>3. \A u \in Task : StageOf(WorkPhase(u)) = "done"
  BY <1>1, Stages
<1>4. [u \in Task |-> StageOf(WorkPhase(u))]' = [u \in Task |-> StageOf(WorkPhase(u))]
  BY <1>2 DEF SameView
<1>5. UsedEvents' = UsedEvents
  BY <1>1, UsedKept
<1> QED BY <1>1, <1>2, <1>3, <1>4, <1>5, AuthoritiesKept
        DEF Lifecycle!Complete, StatusOf, SameView

(* The cycle fails with the task that owned it, if there is one.           *)
LEMMA FailMaps ==
  ASSUME IInv, cycle_status = "ACTIVE", cycle_status' = "FAILED",
         UNCHANGED <<waiting_from_phase, permits, revoked_permits, approvals>>,
         phase' = [u \in Task |-> IF u = active_task_id THEN "FAILED" ELSE phase[u]]
  PROVE  Lifecycle!Fail
<1>1. \A u \in Task : u # active_task_id => phase[u] \in {"PENDING", "DONE"}
  BY DEF IInv, SerialOwnership
<1>2. \A u \in Task : u = active_task_id =>
        phase[u] \in TaskPhase \ {"PENDING", "DONE", "FAILED"}
  BY NumTasksAssumption DEF IInv, TypeOK, SerialOwnership, Task, NoTask
<1>3. ASSUME NEW u \in Task
      PROVE  StageOf(WorkPhase(u))' =
               IF StageOf(WorkPhase(u)) \in {"planning", "offered", "working", "delivered"}
               THEN "failed" ELSE StageOf(WorkPhase(u))
  <2>1. CASE u # active_task_id
    <3>1. WorkPhase(u)' = WorkPhase(u) /\ StageOf(WorkPhase(u)) \in {"waiting", "done"}
      BY <1>1, <2>1, Stages DEF WorkPhase
    <3> QED BY <3>1 DEF StageOf
  <2>2. CASE u = active_task_id
    <3>1. StageOf(WorkPhase(u)) \in {"planning", "offered", "working", "delivered"}
      BY <1>2, <2>2, OwnerView DEF WorkPhase, StageOf, TaskPhase, RunnablePhase
    <3>2. StageOf(WorkPhase(u))' = "failed"
      BY <2>2 DEF WorkPhase, StageOf
    <3> QED BY <3>1, <3>2
  <2> QED BY <2>1, <2>2
<1>4. \A u \in Task : OpenPermits(u)' = OpenPermits(u)
  BY DEF OpenPermits
<1>5. UsedEvents' = UsedEvents
  BY UsedKept
<1> QED BY <1>3, <1>4, <1>5, AuthoritiesKept DEF Lifecycle!Fail, Lifecycle!UnderWay, StatusOf

LEMMA FailActiveMaps ==
  ASSUME IInv, fail_active_task PROVE Lifecycle!Fail
  BY FailMaps DEF fail_active_task, waitVars, permitVars, resultVars

LEMMA BlockedMaps ==
  ASSUME IInv, NEW t \in Task, validation_blocked(t) PROVE Lifecycle!Fail
<1>1. /\ cycle_status = "ACTIVE" /\ cycle_status' = "FAILED" /\ active_task_id = t
      /\ UNCHANGED <<waiting_from_phase, permits, revoked_permits, approvals>>
      /\ phase' = [phase EXCEPT ![t] = "FAILED"] /\ phase \in [Task -> TaskPhase]
  BY DEF validation_blocked, RecordValidation, owned_task, waitVars, permitVars, resultVars,
     IInv, TypeOK
<1>2. phase' = [u \in Task |-> IF u = active_task_id THEN "FAILED" ELSE phase[u]]
  BY <1>1
<1> QED BY <1>1, <1>2, FailMaps

-----------------------------------------------------------------------------
LEMMA SubmitMaps ==
  ASSUME IInv, NEW t \in Task, submit_posted_plan(t) PROVE Lifecycle!Offer(t)
<1>1. /\ cycle_status = "ACTIVE" /\ cycle_status' = cycle_status
      /\ phase[t] = "PLANNING"
      /\ phase' = [phase EXCEPT ![t] = "WAITING_FOR_PLAN_APPROVAL"]
      /\ revoked_permits' = [revoked_permits EXCEPT ![t] = permits[t]]
      /\ UNCHANGED <<waiting_from_phase, permits, approvals>>
      /\ revoked_permits \in [Task -> SUBSET TaskPermit]
  BY DEF submit_posted_plan, owned_task, cycleVars, waitVars, resultVars, IInv, TypeOK
<1>2. \A u \in Task \ {t} : SameView(u)
  BY <1>1, OwnerView DEF SameView, WorkPhase, OpenPermits
<1>3. OpenPermits(t) = {} /\ OpenPermits(t)' = {}
  BY <1>1, OwnerView DEF OpenPermits, WorkPhase
<1>4. StageOf(WorkPhase(t))' = "offered"
  BY <1>1, OwnerView DEF StageOf, WorkPhase
<1>5. Lifecycle!Move(t, {"planning"}, "offered")
  BY <1>1, <1>2, <1>4, Moves, Stages DEF SameView
<1>6. \A u \in Task : OpenPermits(u)' = OpenPermits(u)
  BY <1>2, <1>3 DEF SameView
<1>7. UsedEvents' = UsedEvents
  BY <1>1, UsedKept
<1> QED BY <1>5, <1>6, <1>7, AuthoritiesKept DEF Lifecycle!Offer

(* The plan that is shown is allowed by an authority that is not used up.  *)
LEMMA GrantMaps ==
  ASSUME IInv, NEW t \in Task, owned_task(t, "WAITING_FOR_PLAN_APPROVAL"),
         NEW p \in TaskPermit, p.plan = current_plan_id[t],
         GrantPermit(t, current_plan_id[t], p), Unused(p.by)
  PROVE  Lifecycle!Allow(t, p.by)
<1>1. /\ cycle_status = "ACTIVE" /\ cycle_status' = cycle_status
      /\ phase[t] = "WAITING_FOR_PLAN_APPROVAL" /\ phase' = [phase EXCEPT ![t] = "EXECUTING"]
      /\ permits' = [permits EXCEPT ![t] = @ \cup {p}]
      /\ UNCHANGED <<waiting_from_phase, revoked_permits, approvals>>
      /\ plan_status[t][p.plan] = "POSTED" /\ permits \in [Task -> SUBSET TaskPermit]
  BY DEF GrantPermit, owned_task, cycleVars, waitVars, resultVars, IInv, TypeOK
<1>2. \A u \in Task \ {t} : SameView(u)
  BY <1>1, OwnerView DEF SameView, WorkPhase, OpenPermits
<1>3. OpenPermits(t) = {} /\ p \notin permits[t] /\ revoked_permits[t] \subseteq permits[t]
  BY <1>1, OwnerView DEF WorkPhase, IInv, TaskInv, PermitLedger
<1>4. OpenPermits(t)' = {p}
  BY <1>1, <1>3 DEF OpenPermits
<1>5. StageOf(WorkPhase(t))' = "working"
  BY <1>1, OwnerView DEF StageOf, WorkPhase
<1>6. Lifecycle!Move(t, {"offered"}, "working")
  BY <1>1, <1>2, <1>5, Moves, Stages DEF SameView
<1>7. {q.by : q \in OpenPermits(t)}' = {p.by}
  BY <1>4
<1>8. UsedEvents' = UsedEvents \cup ({p.by} \cap Event)
  <2>1. \A u \in Task : permits'[u] = IF u = t THEN permits[u] \cup {p} ELSE permits[u]
    BY <1>1
  <2> QED BY <1>1, <2>1 DEF UsedEvents
<1>9. Lifecycle!Fresh(p.by)
  BY DEF Lifecycle!Fresh, Unused
<1>10. \A u \in Task \ {t} : OpenPermits(u)' = OpenPermits(u)
  BY <1>2 DEF SameView
<1> QED BY <1>6, <1>7, <1>8, <1>9, <1>10, Authorities DEF Lifecycle!Allow

LEMMA ApprovePlanMaps ==
  ASSUME IInvTimed, NEW t \in Task, NEW occ \in Version, NEW e \in Event,
         approve_plan(t, occ, e)
  PROVE  Lifecycle!Allow(t, e)
<1> DEFINE p == [plan |-> occ, mode |-> "HUMAN", by |-> e]
<1>1. p \in TaskPermit /\ p.by = e /\ p.plan = occ
  BY DEF TaskPermit, ApprovalMode, Authority
<1>2. /\ occurred_at[e] \in Nat /\ posted_at[t][occ] \in Nat
      /\ occurred_at[e] > posted_at[t][occ] /\ occ = current_plan_id[t]
      /\ phase[t] = "WAITING_FOR_PLAN_APPROVAL"
  BY DEF approve_plan, owned_task, IInvTimed, IInv, TypeOK, Time
<1>3. e \notin UsedEvents
  BY <1>2 DEF IInvTimed, TimeInv
<1>4. Unused(p.by)
  BY <1>1, <1>2, <1>3 DEF Unused
<1>5. GrantPermit(t, current_plan_id[t], p) /\ owned_task(t, "WAITING_FOR_PLAN_APPROVAL")
  BY DEF approve_plan
<1> HIDE DEF p
<1> QED BY <1>1, <1>2, <1>4, <1>5, GrantMaps DEF IInvTimed

LEMMA AutoAuthorizeMaps ==
  ASSUME IInvTimed, NEW t \in Task, auto_authorize_plan(t)
  PROVE  Lifecycle!Allow(t, AutoPolicy)
<1> DEFINE p == [plan |-> current_plan_id[t], mode |-> "AUTO", by |-> AutoPolicy]
<1>1. current_plan_id[t] \in Version
  BY DEF auto_authorize_plan, owned_task, IInvTimed, IInv, TypeOK, TaskInv, PlanLedger, WorkPhase
<1>2. p \in TaskPermit /\ Unused(p.by) /\ p.by = AutoPolicy /\ p.plan = current_plan_id[t]
  BY <1>1 DEF TaskPermit, ApprovalMode, Authority, Unused
<1>3. GrantPermit(t, current_plan_id[t], p) /\ owned_task(t, "WAITING_FOR_PLAN_APPROVAL")
  BY DEF auto_authorize_plan
<1> HIDE DEF p
<1> QED BY <1>2, <1>3, GrantMaps DEF IInvTimed

(* Back to planning, from wherever: nothing is authorized any more.        *)
LEMMA SupersedeMaps ==
  ASSUME IInv, NEW t \in Task, cycle_status = "ACTIVE", Supersede(t),
         phase[t] \in {"WAITING_FOR_PLAN_APPROVAL", "VALIDATING",
                       "WAITING_FOR_RESULT_APPROVAL"}
  PROVE  Lifecycle!Withdraw(t)
<1>1. /\ cycle_status' = cycle_status /\ phase' = [phase EXCEPT ![t] = "PLANNING"]
      /\ revoked_permits' = [revoked_permits EXCEPT ![t] = permits[t]]
      /\ UNCHANGED <<waiting_from_phase, permits, approvals>>
      /\ revoked_permits \in [Task -> SUBSET TaskPermit]
  BY DEF Supersede, cycleVars, waitVars, IInv, TypeOK
<1>2. \A u \in Task \ {t} : SameView(u)
  BY <1>1, OwnerView DEF SameView, WorkPhase, OpenPermits
<1>3. OpenPermits(t)' = {}
  BY <1>1 DEF OpenPermits
<1>4. StageOf(WorkPhase(t))' = "planning"
  BY <1>1, OwnerView DEF StageOf, WorkPhase
<1>5. Lifecycle!Move(t, {"offered", "working", "delivered"}, "planning")
  BY <1>1, <1>2, <1>4, Moves, Stages DEF SameView
<1>6. {q.by : q \in OpenPermits(t)}' = {}
  BY <1>3
<1>7. \A u \in Task \ {t} : OpenPermits(u)' = OpenPermits(u)
  BY <1>2 DEF SameView
<1>8. UsedEvents' = UsedEvents
  BY <1>1, UsedKept
<1> QED BY <1>5, <1>6, <1>7, <1>8, Authorities DEF Lifecycle!Withdraw

LEMMA ReplanMaps ==
  ASSUME IInv, NEW t \in Task,
         \/ replan_from_feedback(t) \/ replan_from_result_feedback(t)
         \/ replan_for_revision_inputs(t) \/ validation_replan(t)
  PROVE  Lifecycle!Withdraw(t)
  BY SupersedeMaps DEF replan_from_feedback, replan_from_result_feedback,
     replan_for_revision_inputs, validation_replan, RecordValidation, owned_task

-----------------------------------------------------------------------------
(* Executing, validating, repairing and asking stay in their stage: the    *)
(* mapping hides them.                                                     *)
LEMMA WorkIsInvisible ==
  ASSUME IInv, NEW t \in Task,
         finish_execution(t) \/ validation_accept(t) \/ validation_needs_fixes(t)
  PROVE  UNCHANGED Lifecycle!lifecycle
<1>1. /\ UNCHANGED <<cycle_status, waiting_from_phase, permits, revoked_permits, approvals>>
      /\ phase[t] \in {"EXECUTING", "VALIDATING"}
      /\ \/ phase' = phase
         \/ phase' = [phase EXCEPT ![t] = "EXECUTING"]
         \/ phase' = [phase EXCEPT ![t] = "VALIDATING"]
  BY DEF finish_execution, validation_accept, validation_needs_fixes, RecordValidation,
     owned_task, cycleVars, waitVars, permitVars, resultVars
<1>2. \A u \in Task : OpenPermits(u)' = OpenPermits(u)
  BY <1>1 DEF OpenPermits
<1>3. \A u \in Task : StageOf(WorkPhase(u))' = StageOf(WorkPhase(u))
  BY <1>1, OwnerView DEF StageOf, WorkPhase
<1>4. UsedEvents' = UsedEvents
  BY <1>1, UsedKept
<1>5. [u \in Task |-> StageOf(WorkPhase(u))]' = [u \in Task |-> StageOf(WorkPhase(u))]
  BY <1>3
<1> QED BY <1>1, <1>2, <1>4, <1>5, AuthoritiesKept DEF Lifecycle!lifecycle, StatusOf

LEMMA AskingIsInvisible ==
  ASSUME IInv, NEW t \in Task, NEW q \in Question,
         pause_for_clarification(t, q) \/ resume_clarification(t, q)
  PROVE  UNCHANGED Lifecycle!lifecycle
<1>1. /\ UNCHANGED <<cycle_status, permits, revoked_permits, approvals>>
      /\ \A u \in Task \ {t} :
           phase'[u] = phase[u] /\ waiting_from_phase'[u] = waiting_from_phase[u]
      /\ WorkPhase(t)' = WorkPhase(t)
  <2>1. CASE pause_for_clarification(t, q)
    BY <2>1, OwnerView DEF pause_for_clarification, owned_task, cycleVars, permitVars,
       resultVars, WorkPhase, RunnablePhase
  <2>2. CASE resume_clarification(t, q)
    BY <2>2, OwnerView DEF resume_clarification, owned_task, cycleVars, permitVars,
       resultVars, WorkPhase, RunnablePhase
  <2> QED BY <2>1, <2>2
<1>2. \A u \in Task : SameView(u)
  BY <1>1 DEF SameView, WorkPhase, OpenPermits
<1> QED BY <1>1, <1>2, Invisible

LEMMA SystemIsInvisible ==
  ASSUME \/ activate_initial_workflow \/ CrashBeforeActivation \/ Tick \/ UNCHANGED vars
         \/ \E e \in Event : WriteComment(e)
  PROVE  UNCHANGED Lifecycle!lifecycle
<1>1. UNCHANGED <<cycle_status, phase, waiting_from_phase, permits, revoked_permits, approvals>>
  BY DEF activate_initial_workflow, CrashBeforeActivation, Tick, WriteComment, vars,
     cycleVars, waitVars, permitVars, resultVars
<1>2. \A u \in Task : SameView(u)
  BY <1>1 DEF SameView, WorkPhase, OpenPermits
<1> QED BY <1>1, <1>2, Invisible

-----------------------------------------------------------------------------
LEMMA PublishMaps ==
  ASSUME IInv, NEW t \in Task, publish_validated_result(t) PROVE Lifecycle!Deliver(t)
<1>1. /\ cycle_status = "ACTIVE" /\ phase[t] = "VALIDATING"
      /\ phase' = [phase EXCEPT ![t] = "WAITING_FOR_RESULT_APPROVAL"]
      /\ UNCHANGED <<cycle_status, waiting_from_phase, permits, revoked_permits, approvals>>
  BY DEF publish_validated_result, owned_task, cycleVars, waitVars, permitVars
<1>2. \A u \in Task \ {t} : WorkPhase(u)' = WorkPhase(u)
  BY <1>1, OwnerView DEF WorkPhase
<1>3. StageOf(WorkPhase(t))' = "delivered"
  BY <1>1, OwnerView DEF StageOf, WorkPhase
<1>4. Lifecycle!Move(t, {"working"}, "delivered")
  BY <1>1, <1>2, <1>3, Moves, Stages
<1>5. \A u \in Task : OpenPermits(u)' = OpenPermits(u)
  BY <1>1 DEF OpenPermits
<1>6. UsedEvents' = UsedEvents
  BY <1>1, UsedKept
<1> QED BY <1>4, <1>5, <1>6, AuthoritiesKept DEF Lifecycle!Deliver

(* The result that is shown is accepted by an authority not used up.       *)
LEMMA AcceptMaps ==
  ASSUME IInv, NEW t \in Task, NEW r \in results[t], NEW by \in Authority,
         AcceptResult(t, r, by), Unused(by)
  PROVE  Lifecycle!Accept(t, by)
<1> DEFINE a == [result |-> r, mode |-> expected_mode, by |-> by]
<1>1. /\ cycle_status = "ACTIVE" /\ phase[t] = "WAITING_FOR_RESULT_APPROVAL"
      /\ phase' = [phase EXCEPT ![t] = "DONE"]
      /\ UNCHANGED <<cycle_status, waiting_from_phase, permits, revoked_permits>>
      /\ approvals \in [Task -> SUBSET TaskResultApproval]
  BY DEF AcceptResult, owned_task, waitVars, permitVars, IInv, TypeOK
<1>2. approvals[t] = {}
  BY <1>1 DEF IInv, TaskInv, ResultLedger
<1>3. approvals' = [approvals EXCEPT ![t] = {a}] /\ a.by = by
  BY <1>1, <1>2 DEF AcceptResult
<1> HIDE DEF a
<1>4. \A u \in Task \ {t} : WorkPhase(u)' = WorkPhase(u)
  BY <1>1, OwnerView DEF WorkPhase
<1>5. StageOf(WorkPhase(t))' = "done"
  BY <1>1, OwnerView DEF StageOf, WorkPhase
<1>6. Lifecycle!Move(t, {"delivered"}, "done")
  BY <1>1, <1>4, <1>5, Moves, Stages
<1>7. \A u \in Task : OpenPermits(u)' = OpenPermits(u)
  BY <1>1 DEF OpenPermits
<1>8. UsedEvents' = UsedEvents \cup ({by} \cap Event)
  <2>1. \A u \in Task : approvals'[u] = IF u = t THEN {a} ELSE approvals[u]
    BY <1>1, <1>3
  <2> QED BY <1>1, <1>2, <1>3, <2>1 DEF UsedEvents
<1>9. Lifecycle!Fresh(by)
  BY DEF Lifecycle!Fresh, Unused
<1> QED BY <1>6, <1>7, <1>8, <1>9, AuthoritiesKept DEF Lifecycle!Accept

LEMMA ApproveResultMaps ==
  ASSUME IInvTimed, NEW t \in Task, NEW r \in results[t], NEW e \in Event,
         approve_result(t, r, e)
  PROVE  Lifecycle!Accept(t, e)
<1>1. phase[t] = "WAITING_FOR_RESULT_APPROVAL" /\ current_result(t, r) /\ TypeOK /\ TaskInv(t)
  BY DEF approve_result, AcceptResult, owned_task, IInvTimed, IInv
<1>2. ResultOfAttempt(t, r)
  BY <1>1, CurrentResult
<1>3. occurred_at[e] \in Nat /\ r.posted \in Nat /\ occurred_at[e] > r.posted
  BY <1>1 DEF approve_result, TypeOK, TaskResult, Time
<1>4. e \notin UsedEvents
  BY <1>1, <1>2, <1>3 DEF IInvTimed, TimeInv
<1>5. Unused(e) /\ e \in Authority /\ AcceptResult(t, r, e)
  BY <1>3, <1>4 DEF Unused, Authority, approve_result
<1> QED BY <1>5, AcceptMaps DEF IInvTimed

LEMMA AutoAcceptMaps ==
  ASSUME IInvTimed, NEW t \in Task, auto_accept_result(t)
  PROVE  Lifecycle!Accept(t, AutoPolicy)
  BY AcceptMaps DEF auto_accept_result, Unused, Authority, IInvTimed

-----------------------------------------------------------------------------
(* The strengthened invariant, with the clock: it holds in every state.    *)
THEOREM TimedInductive == Spec => []IInvTimed
<1>1. Init => IInvTimed
  <2> SUFFICES ASSUME Init PROVE TimeInv /\ SingleUseApproval
    BY InitIInv DEF IInvTimed
  <2>1. UsedEvents = {}
    BY DEF Init, UsedEvents
  <2>2. SingleUseApproval
    BY DEF Init, SingleUseApproval
  <2> QED BY <2>1, <2>2 DEF Init, TimeInv
<1> QED BY <1>1, NextTimed, PTL DEF Spec

LEMMA InitMaps == Init => Lifecycle!Init
<1> SUFFICES ASSUME Init PROVE Lifecycle!Init
  OBVIOUS
<1>1. \A u \in Task : StageOf(WorkPhase(u)) = "waiting" /\ OpenPermits(u) = {}
  BY DEF Init, StageOf, WorkPhase, OpenPermits
<1>2. UsedEvents = {} /\ StatusOf(cycle_status) = "none"
  BY DEF Init, UsedEvents, StatusOf
<1>3. [u \in Task |-> {p.by : p \in OpenPermits(u)}] = [u \in Task |-> {}]
  BY <1>1
<1> QED BY <1>1, <1>2, <1>3 DEF Lifecycle!Init

LEMMA DriverMaps ==
  ASSUME IInvTimed, Driver PROVE Lifecycle!Next \/ UNCHANGED Lifecycle!lifecycle
<1>1. PICK t \in Task :
        \/ submit_posted_plan(t) \/ auto_authorize_plan(t)
        \/ finish_execution(t) \/ finish_validation(t)
        \/ publish_validated_result(t) \/ auto_accept_result(t)
        \/ \E q \in Question : pause_for_clarification(t, q)
  BY DEF Driver
<1>2. CASE submit_posted_plan(t)
  BY <1>2, SubmitMaps DEF Lifecycle!Next, IInvTimed
<1>3. CASE auto_authorize_plan(t)
  BY <1>3, AutoAuthorizeMaps DEF Lifecycle!Next
<1>4. CASE finish_execution(t)
  BY <1>4, WorkIsInvisible DEF IInvTimed
<1>5. CASE finish_validation(t)
  BY <1>5, WorkIsInvisible, ReplanMaps, BlockedMaps
     DEF finish_validation, Lifecycle!Next, IInvTimed
<1>6. CASE publish_validated_result(t)
  BY <1>6, PublishMaps DEF Lifecycle!Next, IInvTimed
<1>7. CASE auto_accept_result(t)
  BY <1>7, AutoAcceptMaps DEF Lifecycle!Next
<1>8. CASE \E q \in Question : pause_for_clarification(t, q)
  BY <1>8, AskingIsInvisible DEF IInvTimed
<1> QED BY <1>1, <1>2, <1>3, <1>4, <1>5, <1>6, <1>7, <1>8

LEMMA HumanMaps ==
  ASSUME IInvTimed, Human PROVE Lifecycle!Next \/ UNCHANGED Lifecycle!lifecycle
<1>1. PICK t \in Task :
        \/ \E v \in Version, e \in Event : approve_plan(t, v, e)
        \/ \E r \in results[t], e \in Event : approve_result(t, r, e)
        \/ replan_from_feedback(t) \/ replan_from_result_feedback(t)
        \/ replan_for_revision_inputs(t)
        \/ \E q \in Question : resume_clarification(t, q)
  BY DEF Human
<1>2. CASE \E v \in Version, e \in Event : approve_plan(t, v, e)
  BY <1>2, ApprovePlanMaps DEF Lifecycle!Next
<1>3. CASE \E r \in results[t], e \in Event : approve_result(t, r, e)
  BY <1>3, ApproveResultMaps DEF Lifecycle!Next
<1>4. CASE \/ replan_from_feedback(t) \/ replan_from_result_feedback(t)
           \/ replan_for_revision_inputs(t)
  BY <1>4, ReplanMaps DEF Lifecycle!Next, IInvTimed
<1>5. CASE \E q \in Question : resume_clarification(t, q)
  BY <1>5, AskingIsInvisible DEF IInvTimed
<1> QED BY <1>1, <1>2, <1>3, <1>4, <1>5

(* Every step of the runtime is a step of the lifecycle or invisible.      *)
LEMMA StepMaps == IInvTimed /\ [Next]_vars => [Lifecycle!Next]_(Lifecycle!lifecycle)
<1> SUFFICES ASSUME IInvTimed, [Next]_vars
             PROVE  Lifecycle!Next \/ UNCHANGED Lifecycle!lifecycle
  OBVIOUS
<1>1. CASE Driver
  BY <1>1, DriverMaps
<1>2. CASE Human
  BY <1>2, HumanMaps
<1>3. CASE Scheduler
  BY <1>3, SystemIsInvisible, SelectMaps, CompleteMaps DEF Scheduler, Lifecycle!Next, IInvTimed
<1>4. ASSUME NEW kind \in Kinds, initialize_cycle(kind) PROVE Lifecycle!Next
  BY <1>4, InitializeMaps DEF Lifecycle!Next
<1>5. CASE fail_active_task
  BY <1>5, FailActiveMaps DEF Lifecycle!Next, IInvTimed
<1>6. CASE \/ CrashBeforeActivation \/ Tick \/ UNCHANGED vars
           \/ \E e \in Event : WriteComment(e)
  BY <1>6, SystemIsInvisible
<1> QED BY <1>1, <1>2, <1>3, <1>4, <1>5, <1>6 DEF Next

(* The rows, versions, attempts, rounds and timestamps of the runtime      *)
(* implement the lifecycle it promises: work only under an authority that  *)
(* is in force, every comment good for one thing, tasks one at a time.     *)
THEOREM RuntimeKeepsLifecycle == Spec => KeepsLifecycle
<1>1. Init => Lifecycle!Init
  BY InitMaps
<1>2. IInvTimed /\ [Next]_vars => [Lifecycle!Next]_(Lifecycle!lifecycle)
  BY StepMaps
<1> QED BY <1>1, <1>2, TimedInductive, PTL DEF Spec, KeepsLifecycle, Lifecycle!Spec
=============================================================================
