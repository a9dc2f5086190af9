---------------------------- MODULE WorkflowRuntime ----------------------------
(***************************************************************************)
(* The transactional task lifecycle of one IssueThread: the rows that      *)
(* src/src/sweforge/workflow_runtime.py keeps for the thread's latest      *)
(* workflow cycle, and one action per method of WorkflowRuntime that       *)
(* changes them.  Every method body runs in one BEGIN IMMEDIATE            *)
(* transaction, hence one atomic action; a raised exception rolls back,    *)
(* hence a disabled action.  initialize_cycle is the exception: it commits *)
(* twice, and the worker may die in between.                               *)
(*                                                                         *)
(* Data abstraction: a plan is its version (the digest and the approval    *)
(* occurrence key are functions of task and version), an execution is its  *)
(* attempt number, a validation its round, a result the triple of plan,    *)
(* attempt and round its occurrence key is built from.  Task i is the i-th *)
(* declared task.  An append-only table is a set of rows; the rows whose   *)
(* invalidated_at is set are the companion "revoked" set.                  *)
(***************************************************************************)
EXTENDS Integers

CONSTANTS
  NumTasks,     \* number of declared tasks
  Deps,         \* Deps[t]: the tasks t depends on (workflow_spec depends_on)
  Kinds,        \* cycle kinds that may be initialized
  Modes,        \* interaction modes the thread may have been captured with
  Event,        \* durable GitHub comments that may carry "@agent approve"
  AutoPolicy,   \* the authority identity of an AUTO approval
  Question,     \* clarification occurrence keys
  NoQuestion,   \* clarification_occurrence_key IS NULL
  MaxCycles,    \* bound: cycles of the thread
  MaxPlans,     \* bound: plan versions of a task
  MaxAttempts,  \* bound: execution attempts of a task
  MaxAsks,      \* bound: clarifications in a cycle
  MaxTime       \* bound: the GitHub clock

Task == 1 .. NumTasks
NoTask == 0
Version == 1 .. MaxPlans
NoPlan == 0
Attempt == 1 .. MaxAttempts
Time == 0 .. MaxTime

(***************************************************************************)
(* What parse_workflow_spec and derive_revision_spec guarantee: at least   *)
(* one task, dependencies among the declared tasks and acyclic, and a      *)
(* single task in a revision cycle.                                        *)
(***************************************************************************)
ASSUME NumTasksAssumption == NumTasks \in Nat \ {0}
ASSUME DepsAssumption == Deps \in [Task -> SUBSET Task]
ASSUME KindsAssumption ==
  /\ Kinds \subseteq {"INITIAL", "REVISION"}
  /\ "REVISION" \in Kinds => NumTasks = 1
ASSUME ModesAssumption == Modes \subseteq {"MANUAL", "AUTO"}
ASSUME IdentityAssumption == AutoPolicy \notin Event /\ NoQuestion \notin Question
ASSUME BoundsAssumption ==
  /\ MaxCycles \in Nat /\ MaxPlans \in Nat /\ MaxAttempts \in Nat
  /\ MaxAsks \in Nat /\ MaxTime \in Nat \ {0}

VARIABLES
  cycle_id,          \* 0 before the first cycle
  cycle_kind,
  cycle_status,
  active_task_id,    \* the owner, or NoTask
  initial_state,     \* thread_workflow_lifecycle_v1.initial_state
  initializing,      \* a worker is between the two commits of initialize_cycle
  interaction_mode,  \* captured once per thread
  phase,             \* per task; status and phase are always written together
  waiting_from_phase,
  clarification_key,
  asks,              \* clarifications asked in this cycle (bounded)
  plan_status,       \* per task and version; "NONE" is no row
  posted_at,         \* per task and version: when the plan comment was visible
  current_plan_id,
  permits, revoked_permits,
  execution_attempt, executions,
  validation_round, validations,
  results, approvals, revoked_approvals,
  now,               \* GitHub's clock
  occurred_at        \* per comment: when it was written; 0 is not yet

cycleVars  == <<cycle_id, cycle_kind, cycle_status, active_task_id>>
threadVars == <<initial_state, initializing, interaction_mode>>
waitVars   == <<waiting_from_phase, clarification_key, asks>>
planVars   == <<plan_status, posted_at, current_plan_id>>
permitVars == <<permits, revoked_permits>>
workVars   == <<execution_attempt, executions, validation_round, validations>>
resultVars == <<results, approvals, revoked_approvals>>
clockVars  == <<now, occurred_at>>
vars == <<cycleVars, threadVars, phase, waitVars, planVars, permitVars,
          workVars, resultVars, clockVars>>

-----------------------------------------------------------------------------
TaskPhase == {"PENDING", "PLANNING", "WAITING_FOR_PLAN_APPROVAL", "EXECUTING",
              "VALIDATING", "WAITING_FOR_RESULT_APPROVAL", "WAITING_FOR_INPUT",
              "DONE", "FAILED"}
RunnablePhase == {"PLANNING", "EXECUTING", "VALIDATING"}
WorkflowCycleStatus == {"NONE", "ACTIVE", "AWAITING_PUBLICATION", "FAILED"}
ValidationVerdict == {"ACCEPT", "NEEDS_FIXES", "REPLAN", "BLOCKED"}
PlanStatus == {"NONE", "POSTED", "APPROVED", "SUPERSEDED"}

Authority == Event \cup {AutoPolicy}
ApprovalMode == {"HUMAN", "AUTO"}
TaskPermit == [plan : Version, mode : ApprovalMode, by : Authority]
TaskExecution == [attempt : Attempt, plan : Version, permit : TaskPermit]
TaskValidation ==
  [round : Attempt, plan : Version, attempt : Attempt, verdict : ValidationVerdict]
TaskResult == [plan : Version, attempt : Attempt, round : Attempt, posted : Time]
TaskResultApproval == [result : TaskResult, mode : ApprovalMode, by : Authority]

(* The approval mode a permit or result approval of this thread must have. *)
expected_mode == IF interaction_mode = "AUTO" THEN "AUTO" ELSE "HUMAN"

OpenPermits(t) == permits[t] \ revoked_permits[t]
OpenApprovals(t) == approvals[t] \ revoked_approvals[t]

-----------------------------------------------------------------------------
Init ==
  /\ cycle_id = 0 /\ cycle_kind = "INITIAL" /\ cycle_status = "NONE"
  /\ active_task_id = NoTask
  /\ initial_state = "NOT_STARTED" /\ initializing = FALSE
  /\ interaction_mode \in Modes
  /\ phase = [t \in Task |-> "PENDING"]
  /\ waiting_from_phase = [t \in Task |-> "NONE"]
  /\ clarification_key = [t \in Task |-> NoQuestion]
  /\ plan_status = [t \in Task |-> [v \in Version |-> "NONE"]]
  /\ posted_at = [t \in Task |-> [v \in Version |-> 0]]
  /\ current_plan_id = [t \in Task |-> NoPlan]
  /\ permits = [t \in Task |-> {}]
  /\ revoked_permits = [t \in Task |-> {}]
  /\ execution_attempt = [t \in Task |-> 0]
  /\ executions = [t \in Task |-> {}]
  /\ validation_round = [t \in Task |-> 0]
  /\ validations = [t \in Task |-> {}]
  /\ results = [t \in Task |-> {}]
  /\ approvals = [t \in Task |-> {}]
  /\ revoked_approvals = [t \in Task |-> {}]
  /\ asks = 0
  /\ now = 1
  /\ occurred_at = [e \in Event |-> 0]

-----------------------------------------------------------------------------
(* First transaction of initialize_cycle: insert the cycle and its tasks.  *)
(* The callers begin an INITIAL cycle only on a thread that has none, and  *)
(* a REVISION cycle only once the initial one is complete.                 *)
initialize_cycle(kind) ==
  /\ ~initializing
  /\ cycle_id < MaxCycles
  /\ cycle_status # "ACTIVE"
  /\ IF kind = "INITIAL" THEN cycle_id = 0 /\ initial_state = "NOT_STARTED"
                         ELSE /\ initial_state = "COMPLETE"
                              /\ cycle_status = "AWAITING_PUBLICATION"
  /\ cycle_id' = cycle_id + 1
  /\ cycle_kind' = kind
  /\ cycle_status' = "ACTIVE"
  /\ active_task_id' = NoTask
  /\ initializing' = (kind = "INITIAL")
  /\ phase' = [t \in Task |-> "PENDING"]
  /\ waiting_from_phase' = [t \in Task |-> "NONE"]
  /\ clarification_key' = [t \in Task |-> NoQuestion]
  /\ plan_status' = [t \in Task |-> [v \in Version |-> "NONE"]]
  /\ posted_at' = [t \in Task |-> [v \in Version |-> 0]]
  /\ current_plan_id' = [t \in Task |-> NoPlan]
  /\ permits' = [t \in Task |-> {}]
  /\ revoked_permits' = [t \in Task |-> {}]
  /\ execution_attempt' = [t \in Task |-> 0]
  /\ executions' = [t \in Task |-> {}]
  /\ validation_round' = [t \in Task |-> 0]
  /\ validations' = [t \in Task |-> {}]
  /\ results' = [t \in Task |-> {}]
  /\ approvals' = [t \in Task |-> {}]
  /\ revoked_approvals' = [t \in Task |-> {}]
  /\ asks' = 0
  /\ UNCHANGED <<initial_state, interaction_mode, clockVars>>

(* Second transaction: the lifecycle row of the thread becomes ACTIVE.     *)
activate_initial_workflow ==
  /\ initializing
  /\ initializing' = FALSE
  /\ initial_state' = IF initial_state = "NOT_STARTED" THEN "ACTIVE" ELSE initial_state
  /\ UNCHANGED <<cycleVars, interaction_mode, phase, waitVars, planVars, permitVars,
                 workVars, resultVars, clockVars>>

(* The worker dies between the two commits; the cycle row exists, and no   *)
(* later call repeats the second transaction.                              *)
CrashBeforeActivation ==
  /\ initializing
  /\ initializing' = FALSE
  /\ UNCHANGED <<cycleVars, initial_state, interaction_mode, phase, waitVars, planVars,
                 permitVars, workVars, resultVars, clockVars>>

-----------------------------------------------------------------------------
(* Slip: dependencies are not consulted.                                   *)
ReadyIgnoringDeps(t) == phase[t] = "PENDING"

(* A PENDING task all of whose dependencies are DONE.                      *)
Ready(t) == phase[t] = "PENDING" /\ \A d \in Deps[t] : phase[d] = "DONE"

(* Slip: only the first PENDING task is considered.                        *)
select_first_pending(t) ==
  /\ ~initializing
  /\ cycle_status = "ACTIVE" /\ active_task_id = NoTask
  /\ Ready(t) /\ \A u \in Task : phase[u] = "PENDING" => t <= u
  /\ active_task_id' = t
  /\ phase' = [phase EXCEPT ![t] = "PLANNING"]
  /\ UNCHANGED <<cycle_id, cycle_kind, cycle_status, threadVars, waitVars, planVars,
                 permitVars, workVars, resultVars, clockVars>>

(* select_active_task without an owner: the first ready task in            *)
(* declaration order becomes the owner and starts planning.                *)
select_ready_task(t) ==
  /\ ~initializing
  /\ cycle_status = "ACTIVE" /\ active_task_id = NoTask
  /\ Ready(t) /\ \A u \in Task : Ready(u) => t <= u
  /\ active_task_id' = t
  /\ phase' = [phase EXCEPT ![t] = "PLANNING"]
  /\ UNCHANGED <<cycle_id, cycle_kind, cycle_status, threadVars, waitVars, planVars,
                 permitVars, workVars, resultVars, clockVars>>

(* Slip: any DONE task completes the cycle.                                *)
complete_cycle_on_any ==
  /\ ~initializing
  /\ cycle_status = "ACTIVE" /\ active_task_id = NoTask
  /\ \E t \in Task : phase[t] = "DONE"
  /\ cycle_status' = "AWAITING_PUBLICATION"
  /\ initial_state' = IF cycle_kind = "INITIAL" /\ initial_state = "ACTIVE"
                      THEN "COMPLETE" ELSE initial_state
  /\ UNCHANGED <<cycle_id, cycle_kind, active_task_id, initializing, interaction_mode,
                 phase, waitVars, planVars, permitVars, workVars, resultVars, clockVars>>

(* select_active_task with every task DONE: the cycle awaits publication,  *)
(* and an initial cycle completes the thread's initial lifecycle.          *)
complete_cycle ==
  /\ ~initializing
  /\ cycle_status = "ACTIVE" /\ active_task_id = NoTask
  /\ \A t \in Task : phase[t] = "DONE"
  /\ cycle_status' = "AWAITING_PUBLICATION"
  /\ initial_state' = IF cycle_kind = "INITIAL" /\ initial_state = "ACTIVE"
                      THEN "COMPLETE" ELSE initial_state
  /\ UNCHANGED <<cycle_id, cycle_kind, active_task_id, initializing, interaction_mode,
                 phase, waitVars, planVars, permitVars, workVars, resultVars, clockVars>>

(* The precondition every transition of a task shares.                     *)
owned_task(t, expected) ==
  /\ cycle_status = "ACTIVE"
  /\ active_task_id = t
  /\ phase[t] = expected

-----------------------------------------------------------------------------
(* v is MAX(version) + 1 over the plan rows of t.                          *)
NextVersion(t, v) ==
  /\ \A w \in Version : plan_status[t][w] # "NONE" => w < v
  /\ v > 1 => plan_status[t][v - 1] # "NONE"

(* The bounds leave room for one more plan and one more execution.         *)
Budget(t) ==
  /\ \E v \in Version : NextVersion(t, v)
  /\ execution_attempt[t] < MaxAttempts

submit_posted_plan(t) ==
  \E v \in Version :
    /\ owned_task(t, "PLANNING")
    /\ NextVersion(t, v)
    /\ plan_status' = [plan_status EXCEPT ![t] =
         [w \in Version |-> IF w = v THEN "POSTED"
                            ELSE IF plan_status[t][w] \in {"POSTED", "APPROVED"}
                            THEN "SUPERSEDED" ELSE plan_status[t][w]]]
    /\ posted_at' = [posted_at EXCEPT ![t][v] = now]
    /\ current_plan_id' = [current_plan_id EXCEPT ![t] = v]
    /\ revoked_permits' = [revoked_permits EXCEPT ![t] = permits[t]]
    /\ phase' = [phase EXCEPT ![t] = "WAITING_FOR_PLAN_APPROVAL"]
    /\ UNCHANGED <<cycleVars, threadVars, waitVars, permits, workVars, resultVars, clockVars>>

(* The effect an approval of plan v has, whoever authorizes it.            *)
GrantPermit(t, v, permit) ==
  /\ plan_status[t][v] = "POSTED"
  /\ plan_status' = [plan_status EXCEPT ![t][v] = "APPROVED"]
  /\ permits' = [permits EXCEPT ![t] = @ \cup {permit}]
  /\ phase' = [phase EXCEPT ![t] = "EXECUTING"]
  /\ UNCHANGED <<cycleVars, threadVars, waitVars, posted_at, current_plan_id,
                 revoked_permits, workVars, resultVars, clockVars>>

(* occ is the plan whose approval interrupt is resumed; it may be stale.   *)
approve_plan(t, occ, e) ==
  /\ interaction_mode = "MANUAL"
  /\ owned_task(t, "WAITING_FOR_PLAN_APPROVAL")
  /\ occ = current_plan_id[t]
  /\ occurred_at[e] > posted_at[t][occ]
  /\ GrantPermit(t, occ, [plan |-> occ, mode |-> "HUMAN", by |-> e])

auto_authorize_plan(t) ==
  /\ interaction_mode = "AUTO"
  /\ owned_task(t, "WAITING_FOR_PLAN_APPROVAL")
  /\ LET v == current_plan_id[t] IN
       GrantPermit(t, v, [plan |-> v, mode |-> "AUTO", by |-> AutoPolicy])

-----------------------------------------------------------------------------
(* Slip: the permits of the superseded plan stay open.                     *)
supersede_keeping_permits(t) ==
  /\ plan_status' = [plan_status EXCEPT ![t] =
       [w \in Version |-> IF w = current_plan_id[t] THEN "SUPERSEDED" ELSE @[w]]]
  /\ phase' = [phase EXCEPT ![t] = "PLANNING"]
  /\ UNCHANGED <<cycleVars, threadVars, waitVars, posted_at, current_plan_id, permits,
                 revoked_permits, results, approvals, clockVars>>

(* Back to planning: the current plan is superseded, its permits revoked.  *)
Supersede(t) ==
  /\ plan_status' = [plan_status EXCEPT ![t] =
       [w \in Version |-> IF w = current_plan_id[t] THEN "SUPERSEDED" ELSE @[w]]]
  /\ revoked_permits' = [revoked_permits EXCEPT ![t] = permits[t]]
  /\ phase' = [phase EXCEPT ![t] = "PLANNING"]
  /\ UNCHANGED <<cycleVars, threadVars, waitVars, posted_at, current_plan_id, permits,
                 results, approvals, clockVars>>

replan_from_feedback(t) ==
  /\ owned_task(t, "WAITING_FOR_PLAN_APPROVAL")
  /\ Budget(t)
  /\ Supersede(t)
  /\ UNCHANGED <<workVars, revoked_approvals>>

replan_from_result_feedback(t) ==
  /\ owned_task(t, "WAITING_FOR_RESULT_APPROVAL")
  /\ results[t] # {}
  /\ Budget(t)
  /\ Supersede(t)
  /\ revoked_approvals' = [revoked_approvals EXCEPT ![t] = approvals[t]]
  /\ UNCHANGED workVars

replan_for_revision_inputs(t) ==
  /\ cycle_kind = "REVISION"
  /\ \/ owned_task(t, "WAITING_FOR_PLAN_APPROVAL")
     \/ owned_task(t, "WAITING_FOR_RESULT_APPROVAL")
  /\ Budget(t)
  /\ Supersede(t)
  /\ revoked_approvals' = [revoked_approvals EXCEPT ![t] = approvals[t]]
  /\ UNCHANGED workVars

-----------------------------------------------------------------------------
(* permit is the uninvalidated permit of the exact current, approved plan. *)
Authorizes(t, permit) ==
  /\ permit \in OpenPermits(t)
  /\ permit.plan = current_plan_id[t]
  /\ permit.mode = expected_mode
  /\ permit.mode = "AUTO" => permit.by = AutoPolicy
  /\ current_plan_id[t] # NoPlan
  /\ plan_status[t][current_plan_id[t]] = "APPROVED"

(* What every execution-phase tool call re-checks.                         *)
assert_execution_authorized(t, permit) ==
  /\ \/ phase[t] = "EXECUTING"
     \/ phase[t] = "WAITING_FOR_INPUT" /\ waiting_from_phase[t] = "EXECUTING"
  /\ cycle_status = "ACTIVE" /\ active_task_id = t
  /\ Authorizes(t, permit)

finish_execution(t) ==
  \E permit \in permits[t] :
    /\ assert_execution_authorized(t, permit)
    /\ owned_task(t, "EXECUTING")
    /\ execution_attempt[t] < MaxAttempts
    /\ execution_attempt' = [execution_attempt EXCEPT ![t] = @ + 1]
    /\ executions' = [executions EXCEPT ![t] = @ \cup
         {[attempt |-> execution_attempt[t] + 1, plan |-> current_plan_id[t],
           permit |-> permit]}]
    /\ phase' = [phase EXCEPT ![t] = "VALIDATING"]
    /\ UNCHANGED <<cycleVars, threadVars, waitVars, planVars, permitVars,
                   validation_round, validations, resultVars, clockVars>>

(* The validation decisions of the current plan and attempt.               *)
Decided(t) ==
  {d \in validations[t] : d.plan = current_plan_id[t] /\ d.attempt = execution_attempt[t]}

(* Insert the decision.  A second decision for the same attempt is         *)
(* refused; an identical ACCEPT is answered without any change.            *)
RecordValidation(t, verdict) ==
  /\ owned_task(t, "VALIDATING")
  /\ current_plan_id[t] # NoPlan
  /\ Decided(t) = {}
  /\ validation_round' = [validation_round EXCEPT ![t] = @ + 1]
  /\ validations' = [validations EXCEPT ![t] = @ \cup
       {[round |-> validation_round[t] + 1, plan |-> current_plan_id[t],
         attempt |-> execution_attempt[t], verdict |-> verdict]}]
  /\ UNCHANGED <<execution_attempt, executions>>

(* ACCEPT keeps VALIDATING until the result comment is bound.              *)
validation_accept(t) ==
  /\ RecordValidation(t, "ACCEPT")
  /\ UNCHANGED <<cycleVars, threadVars, phase, waitVars, planVars, permitVars,
                 resultVars, clockVars>>

validation_needs_fixes(t) ==
  /\ RecordValidation(t, "NEEDS_FIXES")
  /\ Budget(t)
  /\ phase' = [phase EXCEPT ![t] = "EXECUTING"]
  /\ UNCHANGED <<cycleVars, threadVars, waitVars, planVars, permitVars, resultVars, clockVars>>

validation_replan(t) ==
  /\ RecordValidation(t, "REPLAN")
  /\ Budget(t)
  /\ Supersede(t)
  /\ UNCHANGED revoked_approvals

(* BLOCKED fails the task and the cycle; the owner pointer stays.          *)
validation_blocked(t) ==
  /\ RecordValidation(t, "BLOCKED")
  /\ phase' = [phase EXCEPT ![t] = "FAILED"]
  /\ cycle_status' = "FAILED"
  /\ UNCHANGED <<cycle_id, cycle_kind, active_task_id, threadVars, waitVars, planVars,
                 permitVars, resultVars, clockVars>>

finish_validation(t) ==
  \/ validation_accept(t) \/ validation_needs_fixes(t)
  \/ validation_replan(t) \/ validation_blocked(t)

-----------------------------------------------------------------------------
(* Slip: the result is dated by the plan comment, not by its own.          *)
publish_dated_by_plan(t) ==
  \E d \in Decided(t), x \in executions[t] :
    /\ owned_task(t, "VALIDATING")
    /\ d.verdict = "ACCEPT"
    /\ x.plan = current_plan_id[t] /\ x.attempt = execution_attempt[t]
    /\ results' = [results EXCEPT ![t] = @ \cup
         {[plan |-> x.plan, attempt |-> x.attempt, round |-> d.round,
           posted |-> posted_at[t][x.plan]]}]
    /\ phase' = [phase EXCEPT ![t] = "WAITING_FOR_RESULT_APPROVAL"]
    /\ UNCHANGED <<cycleVars, threadVars, waitVars, planVars, permitVars, workVars,
                   approvals, revoked_approvals, clockVars>>

(* Bind the visible result of the latest decision of this plan and attempt.*)
publish_validated_result(t) ==
  \E d \in Decided(t), x \in executions[t] :
    /\ owned_task(t, "VALIDATING")
    /\ \A other \in Decided(t) : other.round <= d.round
    /\ d.verdict = "ACCEPT"
    /\ x.plan = current_plan_id[t] /\ x.attempt = execution_attempt[t]
    /\ results' = [results EXCEPT ![t] =
         IF \E r \in @ : r.plan = x.plan /\ r.attempt = x.attempt /\ r.round = d.round
         THEN @
         ELSE @ \cup {[plan |-> x.plan, attempt |-> x.attempt, round |-> d.round,
                       posted |-> now]}]
    /\ phase' = [phase EXCEPT ![t] = "WAITING_FOR_RESULT_APPROVAL"]
    /\ UNCHANGED <<cycleVars, threadVars, waitVars, planVars, permitVars, workVars,
                   approvals, revoked_approvals, clockVars>>

(* r is the result of the highest validation round of t.                   *)
current_result(t, r) == r \in results[t] /\ \A q \in results[t] : q.round <= r.round

(* The effect of an approval: the task is DONE and ownership is released.  *)
AcceptResult(t, r, by) ==
  /\ owned_task(t, "WAITING_FOR_RESULT_APPROVAL")
  /\ current_result(t, r) /\ r.plan = current_plan_id[t]
  /\ approvals' = [approvals EXCEPT ![t] =
       IF \E a \in @ : a.result = r THEN @
       ELSE @ \cup {[result |-> r, mode |-> expected_mode, by |-> by]}]
  /\ phase' = [phase EXCEPT ![t] = "DONE"]
  /\ active_task_id' = NoTask
  /\ UNCHANGED <<cycle_id, cycle_kind, cycle_status, threadVars, waitVars, planVars,
                 permitVars, workVars, results, revoked_approvals, clockVars>>

(* Slip: a comment as old as the result comment counts.                    *)
approve_result_not_newer(t, r, e) ==
  /\ interaction_mode = "MANUAL"
  /\ occurred_at[e] >= r.posted
  /\ AcceptResult(t, r, e)

(* r is the result whose approval interrupt is resumed; it may be stale.   *)
approve_result(t, r, e) ==
  /\ interaction_mode = "MANUAL"
  /\ occurred_at[e] > r.posted
  /\ AcceptResult(t, r, e)

auto_accept_result(t) ==
  \E r \in results[t] :
    /\ interaction_mode = "AUTO"
    /\ AcceptResult(t, r, AutoPolicy)

-----------------------------------------------------------------------------
pause_for_clarification(t, q) ==
  \E p \in RunnablePhase :
    /\ owned_task(t, p)
    /\ asks < MaxAsks
    /\ asks' = asks + 1
    /\ waiting_from_phase' = [waiting_from_phase EXCEPT ![t] = p]
    /\ clarification_key' = [clarification_key EXCEPT ![t] = q]
    /\ phase' = [phase EXCEPT ![t] = "WAITING_FOR_INPUT"]
    /\ UNCHANGED <<cycleVars, threadVars, planVars, permitVars, workVars, resultVars, clockVars>>

resume_clarification(t, q) ==
  /\ owned_task(t, "WAITING_FOR_INPUT")
  /\ clarification_key[t] = q
  /\ waiting_from_phase[t] # "NONE"
  /\ phase' = [phase EXCEPT ![t] = waiting_from_phase[t]]
  /\ waiting_from_phase' = [waiting_from_phase EXCEPT ![t] = "NONE"]
  /\ clarification_key' = [clarification_key EXCEPT ![t] = NoQuestion]
  /\ UNCHANGED <<cycleVars, threadVars, asks, planVars, permitVars, workVars,
                 resultVars, clockVars>>

(* Slip: giving up fails every task that has started.                      *)
fail_started_tasks ==
  /\ ~initializing
  /\ cycle_status = "ACTIVE"
  /\ cycle_status' = "FAILED"
  /\ phase' = [t \in Task |-> IF phase[t] # "PENDING" THEN "FAILED" ELSE phase[t]]
  /\ UNCHANGED <<cycle_id, cycle_kind, active_task_id, threadVars, waitVars, planVars,
                 permitVars, workVars, resultVars, clockVars>>

(* The dispatcher gives up on the owner after bounded failures.            *)
fail_active_task ==
  /\ ~initializing
  /\ cycle_status = "ACTIVE"
  /\ cycle_status' = "FAILED"
  /\ phase' = [t \in Task |-> IF t = active_task_id THEN "FAILED" ELSE phase[t]]
  /\ UNCHANGED <<cycle_id, cycle_kind, active_task_id, threadVars, waitVars, planVars,
                 permitVars, workVars, resultVars, clockVars>>

-----------------------------------------------------------------------------
(* The thread's people and GitHub's clock.                                 *)
WriteComment(e) ==
  /\ occurred_at[e] = 0
  /\ occurred_at' = [occurred_at EXCEPT ![e] = now]
  /\ UNCHANGED <<cycleVars, threadVars, phase, waitVars, planVars, permitVars, workVars,
                 resultVars, now>>

Tick ==
  /\ now < MaxTime
  /\ now' = now + 1
  /\ UNCHANGED <<cycleVars, threadVars, phase, waitVars, planVars, permitVars, workVars,
                 resultVars, occurred_at>>

-----------------------------------------------------------------------------
(* Steps the serial scheduler takes by itself.                             *)
Scheduler ==
  \/ activate_initial_workflow
  \/ \E t \in Task : select_ready_task(t)
  \/ complete_cycle

(* Steps the owner's agent run takes through the workflow gateways.        *)
Driver ==
  \E t \in Task :
    \/ submit_posted_plan(t) \/ auto_authorize_plan(t)
    \/ finish_execution(t) \/ finish_validation(t)
    \/ publish_validated_result(t) \/ auto_accept_result(t)
    \/ \E q \in Question : pause_for_clarification(t, q)

(* Steps a human input causes once it is delivered.                        *)
Human ==
  \E t \in Task :
    \/ \E v \in Version, e \in Event : approve_plan(t, v, e)
    \/ \E r \in results[t], e \in Event : approve_result(t, r, e)
    \/ replan_from_feedback(t) \/ replan_from_result_feedback(t)
    \/ replan_for_revision_inputs(t)
    \/ \E q \in Question : resume_clarification(t, q)

Next ==
  \/ \E kind \in Kinds : initialize_cycle(kind)
  \/ CrashBeforeActivation
  \/ Scheduler \/ Driver \/ Human
  \/ fail_active_task
  \/ \E e \in Event : WriteComment(e)
  \/ Tick

Spec == Init /\ [][Next]_vars

(***************************************************************************)
(* The liveness specification.  The dispatcher re-drives a runnable thread *)
(* until it waits or stops, and an agent run that calls no gateway is      *)
(* failed, so Scheduler and Driver steps are weakly fair.  An answer to a  *)
(* question is the environment's promise, stated as such.  Nothing is      *)
(* assumed of crashes, feedback or the dispatcher giving up.               *)
(***************************************************************************)
Answered == \E t \in Task, q \in Question : resume_clarification(t, q)

FairSpec ==
  /\ Spec
  /\ WF_vars(\E kind \in Kinds : initialize_cycle(kind))
  /\ WF_vars(Scheduler) /\ WF_vars(Driver) /\ WF_vars(Answered)

-----------------------------------------------------------------------------
(* Every row has the shape its table declares; counters stay within their  *)
(* named bounds.                                                           *)
TypeOK ==
  /\ cycle_id \in 0 .. MaxCycles
  /\ cycle_kind \in {"INITIAL", "REVISION"}
  /\ cycle_status \in WorkflowCycleStatus
  /\ active_task_id \in Task \cup {NoTask}
  /\ initial_state \in {"NOT_STARTED", "ACTIVE", "COMPLETE"}
  /\ initializing \in BOOLEAN
  /\ interaction_mode \in Modes
  /\ phase \in [Task -> TaskPhase]
  /\ waiting_from_phase \in [Task -> RunnablePhase \cup {"NONE"}]
  /\ clarification_key \in [Task -> Question \cup {NoQuestion}]
  /\ asks \in 0 .. MaxAsks
  /\ plan_status \in [Task -> [Version -> PlanStatus]]
  /\ posted_at \in [Task -> [Version -> Time]]
  /\ current_plan_id \in [Task -> Version \cup {NoPlan}]
  /\ permits \in [Task -> SUBSET TaskPermit]
  /\ revoked_permits \in [Task -> SUBSET TaskPermit]
  /\ execution_attempt \in [Task -> 0 .. MaxAttempts]
  /\ executions \in [Task -> SUBSET TaskExecution]
  /\ validation_round \in [Task -> 0 .. MaxAttempts]
  /\ validations \in [Task -> SUBSET TaskValidation]
  /\ results \in [Task -> SUBSET TaskResult]
  /\ approvals \in [Task -> SUBSET TaskResultApproval]
  /\ revoked_approvals \in [Task -> SUBSET TaskResultApproval]
  /\ now \in 1 .. MaxTime
  /\ occurred_at \in [Event -> Time]

(* The phase whose work a task is in: a clarification does not leave it.   *)
WorkPhase(t) == IF phase[t] = "WAITING_FOR_INPUT" THEN waiting_from_phase[t] ELSE phase[t]

(* Exactly one owner: a task that has left PENDING without being DONE is   *)
(* the cycle's active task, an active cycle's owner is really at work, and *)
(* no task starts before its dependencies are DONE (select_active_task,    *)
(* approve_result and fail_active_task move the pointer and the phase      *)
(* together).                                                              *)
SerialOwnership ==
  /\ \A t \in Task : phase[t] \notin {"PENDING", "DONE"} => active_task_id = t
  /\ cycle_status = "ACTIVE" /\ active_task_id # NoTask =>
       phase[active_task_id] \notin {"PENDING", "DONE", "FAILED"}
  /\ \A t \in Task : phase[t] # "PENDING" => \A d \in Deps[t] : phase[d] = "DONE"

(* Exact authority: work beyond planning is covered by one permit only,    *)
(* for the current plan, which is APPROVED, in the thread's own mode;      *)
(* before approval no permit of any earlier plan is still open.  This is   *)
(* what every plan replacement, replan and approval has to maintain for    *)
(* assert_execution_authorized to mean anything.                           *)
ExactAuthority ==
  \A t \in Task :
    /\ WorkPhase(t) \in {"EXECUTING", "VALIDATING", "WAITING_FOR_RESULT_APPROVAL", "DONE"} =>
         \E permit \in OpenPermits(t) :
           Authorizes(t, permit) /\ OpenPermits(t) = {permit}
    /\ WorkPhase(t) \in {"PENDING", "PLANNING", "WAITING_FOR_PLAN_APPROVAL"} =>
         OpenPermits(t) = {}

(* The independent proof publication_is_eligible makes of one task.        *)
TaskProven(t) ==
  /\ phase[t] = "DONE"
  /\ \E permit \in OpenPermits(t), x \in executions[t], d \in validations[t],
        r \in results[t], a \in OpenApprovals(t) :
       /\ Authorizes(t, permit)
       /\ x.plan = current_plan_id[t] /\ x.attempt = execution_attempt[t]
       /\ x.permit = permit
       /\ \A other \in validations[t] : other.round <= d.round
       /\ d.verdict = "ACCEPT" /\ d.plan = x.plan /\ d.attempt = x.attempt
       /\ r.plan = x.plan /\ r.attempt = x.attempt /\ r.round = d.round
       /\ a.result = r /\ a.mode = expected_mode

publication_is_eligible ==
  /\ cycle_status = "AWAITING_PUBLICATION" /\ active_task_id = NoTask
  /\ \A t \in Task : TaskProven(t)

(* Whenever a cycle awaits publication, the independent eligibility proof  *)
(* succeeds: the controller's refusal of an unproven cycle is unreachable. *)
(* The proof reads the latest validation of the task over all rounds,      *)
(* publish_validated_result the latest of one plan and attempt; the two    *)
(* must agree after any mix of repairs, replans and feedback.              *)
CompletedCycleProven == cycle_status = "AWAITING_PUBLICATION" => publication_is_eligible

(* One comment authorizes at most one thing: an "@agent approve" used for  *)
(* a plan never also approves another plan, a result or another task's     *)
(* result, although the code keys authority by occurrence and only the     *)
(* comparison of timestamps keeps an old comment from matching a new       *)
(* occurrence.                                                             *)
SingleUseApproval ==
  /\ \A t, u \in Task : \A p \in permits[t], q \in permits[u] :
       p.by = q.by /\ p.by \in Event => t = u /\ p = q
  /\ \A t, u \in Task : \A a \in approvals[t], b \in approvals[u] :
       a.by = b.by /\ a.by \in Event => t = u /\ a = b
  /\ \A t, u \in Task : \A p \in permits[t], a \in approvals[u] :
       p.by = a.by => p.by = AutoPolicy

(* The rows a DONE task was accepted on are what they were.                *)
DoneKept(t) ==
  /\ phase'[t] = "DONE" /\ current_plan_id'[t] = current_plan_id[t]
  /\ plan_status'[t] = plan_status[t]
  /\ permits'[t] = permits[t] /\ revoked_permits'[t] = revoked_permits[t]
  /\ validations'[t] = validations[t] /\ results'[t] = results[t]
  /\ approvals'[t] = approvals[t] /\ revoked_approvals'[t] = revoked_approvals[t]

(* A finished task is never reopened, and nothing it was accepted on is    *)
(* rewritten, while its siblings plan, execute, are replanned or fail.     *)
DoneIsFinal ==
  [][cycle_id' = cycle_id => \A t \in Task : phase[t] = "DONE" => DoneKept(t)]_vars

(* The scheduler never strands a cycle: with every question answered, an   *)
(* AUTO cycle stops being ACTIVE, whatever repairs and replans happen and  *)
(* in whatever order the tasks were declared.                              *)
CycleSettles == cycle_status = "ACTIVE" ~> cycle_status \in {"AWAITING_PUBLICATION", "FAILED"}

(* What the README promises of completion: "After the initial workflow     *)
(* completes, later independent steering is handled by a derived           *)
(* single-task revision workflow", for which _begin_revision requires the  *)
(* lifecycle row to say COMPLETE.  initialize_cycle's two commits decide   *)
(* whether it ever can.                                                    *)
CompletionUnlocksRevision ==
  cycle_kind = "INITIAL" /\ cycle_status = "AWAITING_PUBLICATION" =>
    initial_state = "COMPLETE"

-----------------------------------------------------------------------------
(***************************************************************************)
(* The inductive strengthening.  It says how the tables of a task track    *)
(* its phase, part by part.                                                *)
(***************************************************************************)

(* Plan versions are numbered without gaps and only the current one can be *)
(* POSTED or APPROVED, in step with the phase.                             *)
PlanLedger(t) ==
  /\ \A v \in Version : v > current_plan_id[t] <=> plan_status[t][v] = "NONE"
  /\ \A v \in Version : v # current_plan_id[t] => plan_status[t][v] \in {"NONE", "SUPERSEDED"}
  /\ WorkPhase(t) = "WAITING_FOR_PLAN_APPROVAL" =>
       current_plan_id[t] # NoPlan /\ plan_status[t][current_plan_id[t]] = "POSTED"

(* Every permit names a plan that was approved, in the thread's mode.      *)
PermitLedger(t) ==
  /\ revoked_permits[t] \subseteq permits[t]
  /\ \A p \in permits[t] :
       /\ plan_status[t][p.plan] \in {"APPROVED", "SUPERSEDED"}
       /\ p.mode = expected_mode
       /\ p.mode = "AUTO" <=> p.by = AutoPolicy
  /\ \A p, q \in permits[t] : p.plan = q.plan => p = q

(* The current attempt is decided: one decision, ACCEPT, on this plan.     *)
AcceptRecorded(t) ==
  /\ validation_round[t] = execution_attempt[t]
  /\ \E d \in validations[t] :
       /\ d.attempt = execution_attempt[t] /\ d.round = validation_round[t]
       /\ d.plan = current_plan_id[t] /\ d.verdict = "ACCEPT"

(* The current attempt ran on the current plan under its open permit.      *)
ExecutionRecorded(t) ==
  \E x \in executions[t] :
    /\ x.attempt = execution_attempt[t] /\ x.plan = current_plan_id[t]
    /\ x.permit \in OpenPermits(t)

(* Attempts and rounds advance in lockstep, one decision per attempt.      *)
WorkLedger(t) ==
  /\ \A x \in executions[t] : x.attempt <= execution_attempt[t]
  /\ \A x, y \in executions[t] : x.attempt = y.attempt => x = y
  /\ \A d \in validations[t] : d.round = d.attempt /\ d.round <= validation_round[t]
  /\ \A d, e \in validations[t] : d.round = e.round => d = e
  /\ WorkPhase(t) \in {"PENDING", "PLANNING", "WAITING_FOR_PLAN_APPROVAL", "EXECUTING"} =>
       validation_round[t] = execution_attempt[t]
  /\ WorkPhase(t) = "VALIDATING" =>
       /\ ExecutionRecorded(t)
       /\ validation_round[t] = execution_attempt[t] - 1 \/ AcceptRecorded(t)
  /\ WorkPhase(t) \in {"WAITING_FOR_RESULT_APPROVAL", "DONE"} =>
       ExecutionRecorded(t) /\ AcceptRecorded(t)
  /\ validation_round[t] <= execution_attempt[t]

(* r is the result of the current attempt.                                 *)
ResultOfAttempt(t, r) ==
  /\ r \in results[t] /\ r.plan = current_plan_id[t]
  /\ r.attempt = execution_attempt[t] /\ r.round = validation_round[t]

(* One result per attempt; the newest one is the current attempt's exactly *)
(* while it awaits approval or is approved.                                *)
ResultLedger(t) ==
  /\ \A r \in results[t] : r.round = r.attempt /\ r.round <= validation_round[t]
  /\ \A r, q \in results[t] : r.round = q.round => r = q
  /\ WorkPhase(t) = "VALIDATING" => \A r \in results[t] : r.attempt < execution_attempt[t]
  /\ WorkPhase(t) \in {"WAITING_FOR_RESULT_APPROVAL", "DONE"} =>
       \E r \in results[t] : ResultOfAttempt(t, r)
  /\ revoked_approvals[t] = {}
  /\ phase[t] # "DONE" => approvals[t] = {}
  /\ phase[t] = "DONE" =>
       \E a \in approvals[t] :
         ResultOfAttempt(t, a.result) /\ a.mode = expected_mode /\ approvals[t] = {a}

(* A task that waits for input knows which phase it paused.                *)
WaitLedger(t) ==
  phase[t] = "WAITING_FOR_INPUT" => waiting_from_phase[t] # "NONE"

(* The exact-authority conjuncts of one task (see ExactAuthority).         *)
AuthorityLedger(t) ==
  /\ WorkPhase(t) \in {"EXECUTING", "VALIDATING", "WAITING_FOR_RESULT_APPROVAL", "DONE"} =>
       \E permit \in OpenPermits(t) :
         Authorizes(t, permit) /\ OpenPermits(t) = {permit}
  /\ WorkPhase(t) \in {"PENDING", "PLANNING", "WAITING_FOR_PLAN_APPROVAL"} =>
       OpenPermits(t) = {}

TaskInv(t) ==
  /\ PlanLedger(t) /\ PermitLedger(t) /\ WorkLedger(t) /\ ResultLedger(t)
  /\ WaitLedger(t) /\ AuthorityLedger(t)

(* A completed cycle has only DONE tasks.                                  *)
CycleLedger ==
  /\ cycle_status = "AWAITING_PUBLICATION" =>
       active_task_id = NoTask /\ \A t \in Task : phase[t] = "DONE"
  /\ \A t \in Task : phase[t] = "FAILED" => cycle_status = "FAILED"

IInv == TypeOK /\ SerialOwnership /\ CycleLedger /\ \A t \in Task : TaskInv(t)

(* The comments that have authorized something.                            *)
UsedEvents ==
  {e \in Event : \E t \in Task : \/ \E p \in permits[t] : p.by = e
                                 \/ \E a \in approvals[t] : a.by = e}

(* Nothing is dated in the future, and no comment used so far is newer     *)
(* than the occurrence that now waits for approval.                        *)
TimeInv ==
  /\ \A e \in Event : occurred_at[e] <= now
  /\ \A e \in UsedEvents : occurred_at[e] > 0
  /\ \A t \in Task :
       /\ phase[t] = "WAITING_FOR_PLAN_APPROVAL" =>
            \A e \in UsedEvents : occurred_at[e] <= posted_at[t][current_plan_id[t]]
       /\ phase[t] = "WAITING_FOR_RESULT_APPROVAL" =>
            \A r \in results[t] : ResultOfAttempt(t, r) =>
              \A e \in UsedEvents : occurred_at[e] <= r.posted

IInvTimed == IInv /\ TimeInv /\ SingleUseApproval

-----------------------------------------------------------------------------
(***************************************************************************)
(* The refinement mapping to what the lifecycle promises: a clarification  *)
(* does not leave a stage, and executing, validating and repairing are one *)
(* stage under one authority.                                              *)
(***************************************************************************)
StageOf(p) ==
  IF p = "PENDING" THEN "waiting"
  ELSE IF p = "PLANNING" THEN "planning"
  ELSE IF p = "WAITING_FOR_PLAN_APPROVAL" THEN "offered"
  ELSE IF p \in {"EXECUTING", "VALIDATING"} THEN "working"
  ELSE IF p = "WAITING_FOR_RESULT_APPROVAL" THEN "delivered"
  ELSE IF p = "DONE" THEN "done" ELSE "failed"

StatusOf(s) ==
  IF s = "NONE" THEN "none"
  ELSE IF s = "ACTIVE" THEN "open"
  ELSE IF s = "AWAITING_PUBLICATION" THEN "complete" ELSE "failed"

Lifecycle == INSTANCE TaskLifecycle WITH
  status <- StatusOf(cycle_status),
  stage <- [t \in Task |-> StageOf(WorkPhase(t))],
  authority <- [t \in Task |-> {p.by : p \in OpenPermits(t)}],
  used <- UsedEvents

(* The runtime keeps the lifecycle's promises: every transaction on the    *)
(* rows is a step of TaskLifecycle or invisible there.  In particular no   *)
(* replayed, stale or concurrent approval gives a second authority.        *)
KeepsLifecycle == Lifecycle!Spec
=============================================================================
