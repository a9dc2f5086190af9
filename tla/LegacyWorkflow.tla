----------------------------- MODULE LegacyWorkflow -----------------------------
(***************************************************************************)
(* The single-plan workflow of one IssueThread: WorkflowEngine             *)
(* (workflow.py), the execution of an approved plan (execution.py) and the *)
(* rows they keep in github_store.py.                                      *)
(*                                                                         *)
(* One worker ticks (advance).  A tick is a sequence of transactions, model*)
(* runs and GitHub posts; each is an action, and the worker may die between*)
(* any two of them.  People comment and change the label meanwhile, an     *)
(* operator uses the retry, skip and recover-stale commands, and the       *)
(* publisher pushes what was accepted.                                     *)
(*                                                                         *)
(* Data abstraction: an event is the time its comment was written, its     *)
(* source_updated_at, and log has the row of source_events for it, if the  *)
(* poller listed it yet; a comment the worker writes has the time of the   *)
(* last event before it.  wf is the row of issue_workflow_state, plan,     *)
(* permit, attempt, repair and question the rows of the current cycle.  The*)
(* workspace is represented by whether its present content was reviewed.   *)
(***************************************************************************)
EXTENDS Integers, Sequences, FiniteSets

CONSTANTS
  Surface,           \* conversations an event can come from
  AllowAuto,         \* allow_legacy_auto_approval
  MaxRepairs,        \* max_review_repairs
  MaxRecoveries,     \* MAX_INITIAL_, MAX_REPAIR_EXECUTION_, MAX_REVIEW_RECOVERIES
  MaxEvents,         \* bound: events
  MaxCycles,         \* bound: cycles
  MaxVersion,        \* bound: plan versions of a cycle
  MaxQuestions,      \* bound: questions of the agent, over all cycles
  MaxOperator,       \* bound: commands of the operator
  MaxCrashes         \* bound: deaths of the worker

ASSUME LegacyBounds ==
  /\ Surface # {} /\ AllowAuto \in BOOLEAN
  /\ MaxRepairs \in Nat /\ MaxRecoveries \in Nat
  /\ MaxEvents \in Nat \ {0} /\ MaxCycles \in Nat \ {0} /\ MaxVersion \in Nat \ {0}
  /\ MaxQuestions \in Nat /\ MaxOperator \in Nat /\ MaxCrashes \in Nat

VARIABLES
  now, label,              \* GitHub: the comments written, sweforge:auto on the issue
  log,                     \* source_events, by source_updated_at
  late,                    \* history: events recorded after one that is younger
  consumed,                \* thread_input_consumptions: the purpose of an event
  deferred,                \* deferred_followups
  ee, le,                  \* event_executions; logical_executions of this cycle
  wf, plan, permit,        \* issue_workflow_state, issue_plans, execution_permits
  attempt, repair,         \* the latest execution_attempts row, review_repair_permits
  question, checkpoint,    \* clarification_requests; an interrupt is pending
  comment,                 \* GitHub: the comment of the current plan version
  publication, published,  \* this cycle's logical_publications row; roots published
  jobs,                    \* learning jobs that are pending
  reviewed,                \* the workspace holds what the last saved review saw
  repairs,                 \* repair runs of this cycle
  pc, using, outcome,      \* volatile: the tick under way
  questions, commands, crashes

inputVars == <<consumed, deferred, ee, le>>
cycleVars == <<wf, plan, permit, comment>>
runVars   == <<attempt, repair, question, checkpoint, reviewed, repairs, questions>>
pubVars   == <<publication, published, jobs>>
tickVars  == <<pc, using, outcome>>
outside   == <<now, log, late, label, commands, crashes>>
vars == <<outside, inputVars, cycleVars, runVars, pubVars, tickVars>>

-----------------------------------------------------------------------------
Event == 1 .. MaxEvents
Body == {"invoke", "approve", "approve by an outsider"}
NoEvent == [body |-> "none", at |-> "none"]
Purpose == {"NONE", "CYCLE_ROOT", "PLAN_APPROVAL", "EARLY_PLAN_APPROVAL", "STALE_PLAN_APPROVAL",
            "PLAN_FEEDBACK", "PLANNING_INPUT", "CLARIFICATION_RESPONSE", "CLARIFICATION_ROUTED"}
Status == {"NONE", "RUNNING", "SUCCEEDED", "FAILED", "INTERRUPTED", "RETRY_PENDING", "SKIPPED"}
Phase == {"IDLE", "PLANNING", "WAITING_FOR_PLAN_APPROVAL", "EXECUTION_READY", "EXECUTING",
          "WAITING_FOR_INPUT", "REVIEW_EXECUTION", "REPAIR_READY", "AWAITING_PUBLICATION",
          "REVIEW_BLOCKED", "EXECUTION_FAILED"}
Verdict == {"NONE", "ACCEPT", "NEEDS_FIXES", "BLOCKED"}
Relationship == {"ANSWERS", "ANSWERS_AND_ASKS", "CHANGES_SCOPE", "UNRELATED", "AMBIGUOUS", "NONE"}
Step == {"idle", "begin", "defer", "clarify", "main", "planning", "planned", "publish", "posted",
         "authorize", "bound", "running", "ran", "finished", "reviewing", "verdict",
         "repairing", "learn"}

NoWorkflow == [phase |-> "IDLE", cycle |-> 0, root |-> 0, logical |-> FALSE,
               mode |-> "INTERACTIVE", feedback |-> 0]
(* start_cycle: version 1, "Planning in progress".                         *)
NoPlan == [version |-> 1, status |-> "DRAFT", written |-> FALSE, posted |-> 0, by |-> 0]
NoAttempt == [kind |-> "NONE", version |-> 0, status |-> "NONE", round |-> 0, retries |-> 0,
              recoveries |-> 0, reviews |-> 0, verdict |-> "NONE"]
NoRepair == [round |-> 0, status |-> "NONE"]
NoPermits == [v \in 1 .. MaxVersion |-> "NONE"]

First(E) == CHOOSE e \in E : \A d \in E : e <= d

(* source_events_for_thread.                                               *)
Recorded == {e \in Event : log[e].body # "none"}

(* _is_actionable_feedback, is_exact_agent_approval.                       *)
Invocations(E) == {e \in E : log[e].body = "invoke"}
Approvals(E) == {e \in E : log[e].body # "invoke"}

(* unconsumed_inputs: what was written after the root.                     *)
Unconsumed ==
  {e \in Recorded : e > wf.root /\ consumed[e] = "NONE" /\ deferred[e] = "NONE"}

(* deferred_followups: the queued ones.                                    *)
Queued == {e \in Recorded : deferred[e] = "QUEUED"}

(* The pending inputs of the two bind transactions: a deferred event       *)
(* without a consumption row is among them.                                *)
Pending == {e \in Recorded \ {wf.root} : consumed[e] = "NONE"}

(* matches_current_conversation_target.                                    *)
SameTarget(e) == log[e].at = log[wf.root].at

(* _is_approval_eligible and the other conditions of a live approval.      *)
Eligible(e) ==
  /\ wf.phase = "WAITING_FOR_PLAN_APPROVAL" /\ SameTarget(e)
  /\ plan.posted # 0 /\ e > plan.posted

(* execution_for_cycle: the event's row, or the logical one when the root  *)
(* is a deferred follow-up.                                                *)
Execution == IF wf.root = 0 THEN "NONE" ELSE IF wf.logical THEN le ELSE ee[wf.root]

(* An update of that row.                                                  *)
SetExecution(status) ==
  IF wf.logical THEN le' = status /\ ee' = ee
                ELSE ee' = [ee EXCEPT ![wf.root] = status] /\ le' = le

(* consume_input with _resolve_workflow_control: the event is consumed and *)
(* its execution row is SKIPPED.                                           *)
Consume(E, purpose) ==
  /\ consumed' = [e \in Event |-> IF e \in E THEN purpose ELSE consumed[e]]
  /\ ee' = [e \in Event |-> IF e \in E THEN "SKIPPED" ELSE ee[e]]

(* The thread lock is held.                                                *)
Locked == pc \in {"bound", "running", "ran", "finished", "reviewing", "repairing"}

Goto(step) == pc' = step /\ UNCHANGED <<using, outcome>>
End == pc' = "idle" /\ using' = 0 /\ outcome' = "NONE"
SetPhase(phase) == wf' = [wf EXCEPT !.phase = phase]

Init ==
  /\ now = 0 /\ log = [e \in Event |-> NoEvent] /\ late = {} /\ label \in BOOLEAN
  /\ consumed = [e \in Event |-> "NONE"] /\ deferred = [e \in Event |-> "NONE"]
  /\ ee = [e \in Event |-> "NONE"] /\ le = "NONE"
  /\ wf = NoWorkflow /\ plan = NoPlan /\ permit = NoPermits /\ comment = 0
  /\ attempt = NoAttempt /\ repair = NoRepair
  /\ question = "NONE" /\ checkpoint = FALSE /\ reviewed = FALSE /\ repairs = 0
  /\ publication = "NONE" /\ published = {} /\ jobs = {}
  /\ pc = "idle" /\ using = 0 /\ outcome = "NONE"
  /\ questions = 0 /\ commands = 0 /\ crashes = 0

-----------------------------------------------------------------------------
(* People and GitHub.                                                      *)

somebody_comments ==
  /\ now < MaxEvents /\ now' = now + 1
  /\ UNCHANGED <<log, late, label, commands, crashes, inputVars, cycleVars, runVars, pubVars,
                 tickVars>>

(* The poller lists a comment and routes it to the thread, in any order:   *)
(* the streams of an issue and of its pull requests are polled one by one, *)
(* and GitHub may list a comment late.                                     *)
record_event(e, body, at) ==
  /\ e <= now /\ e \notin Recorded
  /\ log' = [log EXCEPT ![e] = [body |-> body, at |-> at]]
  /\ late' = late \cup (IF \E d \in Recorded : e < d THEN {e} ELSE {})
  /\ UNCHANGED <<now, label, commands, crashes, inputVars, cycleVars, runVars, pubVars, tickVars>>

remove_label ==
  /\ label /\ label' = FALSE
  /\ UNCHANGED <<now, log, late, commands, crashes, inputVars, cycleVars, runVars, pubVars,
                 tickVars>>

(* The worker dies, or the tick raises.                                    *)
crash ==
  /\ pc # "idle" /\ crashes < MaxCrashes /\ crashes' = crashes + 1
  /\ End
  /\ UNCHANGED <<now, log, late, label, commands, inputVars, cycleVars, runVars, pubVars>>

-----------------------------------------------------------------------------
(* The prologue of advance.                                                *)

(* _drain_approval_controls: an approval nobody can use is consumed.       *)
_drain_approval_controls ==
  LET E == {e \in Approvals(Unconsumed) : wf.root = 0 \/ ~Eligible(e)}
      early(e) == \/ wf.phase = "PLANNING"
                  \/ wf.phase = "WAITING_FOR_PLAN_APPROVAL" /\ SameTarget(e) IN
  /\ pc = "idle" /\ Goto("begin")
  /\ consumed' = [e \in Event |->
       IF e \notin E THEN consumed[e]
       ELSE IF wf.root # 0 /\ early(e) THEN "EARLY_PLAN_APPROVAL" ELSE "STALE_PLAN_APPROVAL"]
  /\ ee' = [e \in Event |-> IF e \in E THEN "SKIPPED" ELSE ee[e]]
  /\ UNCHANGED <<outside, deferred, le, cycleVars, runVars, pubVars>>

(* Slip: deaths during a repair are not counted.                           *)
recover_orphaned_repair_uncounted ==
  /\ attempt' = [attempt EXCEPT !.status = "FAILED"]
  /\ SetPhase("REPAIR_READY") /\ End
  /\ UNCHANGED <<repair, ee, le, permit>>

(* recover_orphaned_repair_attempt: a repair whose worker died is handed   *)
(* back, or blocked at the bound.                                          *)
recover_orphaned_repair_attempt ==
  LET spent == attempt.recoveries >= MaxRecoveries IN
  /\ attempt' = [attempt EXCEPT !.status = "FAILED",
                                !.recoveries = IF spent THEN @ ELSE @ + 1]
  /\ repair' = [repair EXCEPT !.status = IF spent THEN "INVALID" ELSE @]
  /\ SetPhase(IF spent THEN "REVIEW_BLOCKED" ELSE "REPAIR_READY")
  /\ IF spent THEN Goto("defer") ELSE End
  /\ UNCHANGED <<ee, le, permit>>

(* recover_orphaned_initial_attempt: back to EXECUTION_READY under the same*)
(* permit, unless the permit no longer covers it or it was tried too often.*)
recover_orphaned_initial_attempt ==
  LET authorized == /\ attempt.version = plan.version /\ plan.status = "APPROVED"
                    /\ permit[attempt.version] # "INVALID"
      retry == authorized /\ attempt.retries < MaxRecoveries IN
  /\ attempt' = [attempt EXCEPT !.status = IF retry THEN "INTERRUPTED" ELSE "FAILED"]
  /\ IF retry /\ Execution = "RUNNING" THEN SetExecution("RETRY_PENDING")
                                       ELSE UNCHANGED <<ee, le>>
  /\ permit' = [permit EXCEPT ![attempt.version] = IF retry THEN "OPEN" ELSE @]
  /\ SetPhase(IF retry THEN "EXECUTION_READY" ELSE "REVIEW_BLOCKED")
  /\ Goto("defer") /\ UNCHANGED repair

(* _recover_initial_execution: success that was durable is taken over.     *)
_recover_initial_execution ==
  /\ attempt' = [attempt EXCEPT !.status = "SUCCEEDED"]
  /\ SetPhase("REVIEW_EXECUTION")
  /\ Goto("defer") /\ UNCHANGED <<repair, permit, ee, le>>

(* _recover_orphaned_initial: durable success first, then an orphan; any   *)
(* other attempt is left alone.                                            *)
_recover_orphaned_initial ==
  IF Execution = "SUCCEEDED" THEN _recover_initial_execution
  ELSE IF attempt.status = "RUNNING" THEN recover_orphaned_initial_attempt
  ELSE Goto("defer") /\ UNCHANGED <<attempt, repair, permit, wf, ee, le>>

(* _recover_executing_state, under the thread lock.                        *)
_recover_executing_state ==
  /\ pc = "begin" /\ wf.phase = "EXECUTING"
  /\ IF attempt.kind = "REVIEW_REPAIR" THEN recover_orphaned_repair_attempt
                                       ELSE _recover_orphaned_initial
  /\ UNCHANGED <<outside, consumed, deferred, plan, comment, question, checkpoint, reviewed,
                 repairs, questions, pubVars>>

(* _resolve_open_clarification, one unconsumed invocation at a time; the   *)
(* question's target is the root's conversation.  A missing comment of the *)
(* question is posted first.                                               *)
ClarifyRows == {e \in Unconsumed : e > using}
clarify_begins ==
  /\ pc = "begin" /\ wf.phase = "WAITING_FOR_INPUT"
  /\ Goto(IF question = "OPEN" THEN "clarify" ELSE "defer")
  /\ UNCHANGED <<outside, inputVars, cycleVars, runVars, pubVars>>

(* resolve_clarification_answer: the permit is reopened and the execution  *)
(* may be claimed again; what else the comment asks for is deferred.       *)
resolve_clarification_answer(e, residual) ==
  /\ consumed' = [consumed EXCEPT ![e] = "CLARIFICATION_RESPONSE"]
  /\ deferred' = [deferred EXCEPT ![e] = IF residual THEN "QUEUED" ELSE @]
  /\ question' = "ANSWERED"
  /\ IF \E v \in 1 .. MaxVersion : permit[v] \in {"OPEN", "CONSUMED"}
     THEN /\ permit' = [v \in 1 .. MaxVersion |->
               IF permit[v] = "CONSUMED" THEN "OPEN" ELSE permit[v]]
          /\ SetExecution("RETRY_PENDING")
          /\ SetPhase("EXECUTION_READY")
     ELSE UNCHANGED <<permit, ee, le, wf>>
  /\ pc' = "defer" /\ using' = 0 /\ outcome' = outcome

(* cancel_clarification_for_replan.                                        *)
cancel_clarification_for_replan(e) ==
  /\ consumed' = [consumed EXCEPT ![e] = "PLANNING_INPUT"]
  /\ question' = "CANCELLED"
  /\ permit' = [v \in 1 .. MaxVersion |-> IF permit[v] = "NONE" THEN "NONE" ELSE "INVALID"]
  /\ wf' = [wf EXCEPT !.phase = "PLANNING", !.feedback = e]
  /\ pc' = "defer" /\ using' = 0 /\ outcome' = outcome
  /\ UNCHANGED <<deferred, ee, le>>

(* _route_clarification_input, or no decision: on to the next comment.     *)
route_clarification_input(e, status) ==
  /\ consumed' = [consumed EXCEPT ![e] = IF status = "NONE" THEN @ ELSE "CLARIFICATION_ROUTED"]
  /\ deferred' = [deferred EXCEPT ![e] = IF status = "DEFERRED" THEN "QUEUED" ELSE @]
  /\ pc' = pc /\ using' = e /\ outcome' = outcome
  /\ UNCHANGED <<question, permit, ee, le, wf>>

_resolve_open_clarification(relationship) ==
  /\ pc = "clarify" /\ ClarifyRows # {}
  /\ LET e == First(ClarifyRows) IN
     IF ~SameTarget(e) THEN route_clarification_input(e, "DEFERRED")
     ELSE CASE relationship = "ANSWERS" -> resolve_clarification_answer(e, FALSE)
            [] relationship = "ANSWERS_AND_ASKS" -> resolve_clarification_answer(e, TRUE)
            [] relationship = "CHANGES_SCOPE" -> cancel_clarification_for_replan(e)
            [] relationship = "UNRELATED" -> route_clarification_input(e, "DEFERRED")
            [] relationship = "AMBIGUOUS" -> route_clarification_input(e, "AMBIGUOUS")
            [] OTHER -> route_clarification_input(e, "NONE")
  /\ UNCHANGED <<outside, plan, comment, attempt, repair, checkpoint, reviewed, repairs,
                 questions, pubVars>>

clarify_ends ==
  /\ pc = "clarify" /\ ClarifyRows = {}
  /\ pc' = "defer" /\ using' = 0 /\ outcome' = outcome
  /\ UNCHANGED <<outside, inputVars, cycleVars, runVars, pubVars>>

(* _defer_active_followups: queued, but no consumption row is written.     *)
_defer_active_followups ==
  /\ \/ pc = "defer"
     \/ pc = "begin" /\ wf.phase \notin {"EXECUTING", "WAITING_FOR_INPUT"}
  /\ Goto("main")
  /\ deferred' = [e \in Event |->
       IF /\ wf.phase \in {"EXECUTING", "REVIEW_EXECUTION", "REPAIR_READY",
                           "AWAITING_PUBLICATION"}
          /\ e \in Invocations(Unconsumed)
       THEN "QUEUED" ELSE deferred[e]]
  /\ UNCHANGED <<outside, consumed, ee, le, cycleVars, runVars, pubVars>>

-----------------------------------------------------------------------------
(* Planning.                                                               *)

(* Slip: the newest input starts the next cycle.                           *)
NewestInput ==
  LET E == IF Queued # {} THEN Queued ELSE {e \in Unconsumed : ee[e] = "NONE"} IN
  {e \in E : \A d \in E : d <= e}

(* begin_next_cycle: deferred follow-ups first, then new events; learning  *)
(* of the last cycle comes before both.                                    *)
NextInput ==
  IF Queued # {} THEN Queued ELSE {e \in Unconsumed : ee[e] = "NONE"}

(* begin_workflow_cycle: the root is consumed, plan and state are written. *)
begin_workflow_cycle(e) ==
  /\ wf' = [phase |-> "PLANNING", cycle |-> wf.cycle + 1, root |-> e,
            logical |-> deferred[e] = "QUEUED",
            mode |-> IF AllowAuto /\ label THEN "AUTO" ELSE "INTERACTIVE", feedback |-> 0]
  /\ consumed' = [consumed EXCEPT ![e] = IF @ = "NONE" THEN "CYCLE_ROOT" ELSE @]
  /\ deferred' = [deferred EXCEPT ![e] = IF @ = "QUEUED" THEN "CONSUMED" ELSE @]
  /\ plan' = NoPlan /\ permit' = NoPermits /\ comment' = 0 /\ le' = "NONE"
  /\ attempt' = NoAttempt /\ repair' = NoRepair /\ publication' = "NONE"
  /\ repairs' = 0 /\ reviewed' = FALSE

begin_next_cycle ==
  /\ pc = "main" /\ wf.phase = "IDLE" /\ jobs = {} /\ NextInput # {}
  /\ wf.cycle < MaxCycles
  /\ begin_workflow_cycle(First(NextInput))
  /\ Goto("planning")
  /\ UNCHANGED <<outside, ee, question, checkpoint, questions, published, jobs>>

(* PLANNING found by a tick: revise on the recorded feedback, plan the root*)
(* again, or publish the draft.  A plan whose root is a deferred follow-up *)
(* is not recognised as the draft: start_cycle refuses and the tick raises.*)
planning_resumed ==
  /\ pc = "main" /\ wf.phase = "PLANNING"
  /\ IF wf.feedback # 0
     THEN pc' = "planning" /\ using' = wf.feedback /\ outcome' = outcome
     ELSE IF ~plan.written
     THEN IF wf.logical THEN End ELSE Goto("planning")
     ELSE Goto("publish")
  /\ UNCHANGED <<outside, inputVars, cycleVars, runVars, pubVars>>

(* Slip: the permit of the superseded plan survives.                       *)
begin_plan_revision_keeps_permits(e, next) ==
  /\ plan.version < MaxVersion
  /\ wf' = [wf EXCEPT !.phase = "PLANNING", !.feedback = e]
  /\ pc' = "planning" /\ using' = e /\ outcome' = next
  /\ UNCHANGED <<plan, comment, permit>>

(* begin_plan_revision, the first step of _replan: permits that were not   *)
(* used are void.                                                          *)
begin_plan_revision(e, next) ==
  /\ plan.version < MaxVersion
  /\ permit' = [v \in 1 .. MaxVersion |-> IF permit[v] = "OPEN" THEN "INVALID" ELSE permit[v]]
  /\ wf' = [wf EXCEPT !.phase = "PLANNING", !.feedback = e]
  /\ pc' = "planning" /\ using' = e /\ outcome' = next
  /\ UNCHANGED <<plan, comment>>

(* plan_event with the planner's answer; the workspace must be unchanged.  *)
plan_event ==
  /\ pc = "planning" /\ using = 0 /\ Goto("planned")
  /\ plan' = [plan EXCEPT !.written = TRUE]
  /\ UNCHANGED <<outside, inputVars, wf, permit, comment, runVars, pubVars>>

(* finish_plan_revision: the next version supersedes the current one and   *)
(* the feedback is consumed.                                               *)
finish_plan_revision(e) ==
  /\ plan' = [NoPlan EXCEPT !.version = plan.version + 1, !.written = TRUE]
  /\ comment' = 0
  /\ consumed' = [consumed EXCEPT ![e] = IF @ = "NONE" THEN "PLAN_FEEDBACK" ELSE @]
  /\ ee' = [ee EXCEPT ![e] = "SKIPPED"]
  /\ wf' = [wf EXCEPT !.feedback = 0]

(* _replan with the planner's answer.                                      *)
_replan ==
  /\ pc = "planning" /\ using # 0 /\ Goto("planned")
  /\ plan.version < MaxVersion
  /\ finish_plan_revision(using)
  /\ UNCHANGED <<outside, deferred, le, permit, runVars, pubVars>>

(* _acknowledge_delivered: the inputs D the planner was shown, which are   *)
(* those pending at its last model call: what it was not shown is younger  *)
(* or was listed late.  A deferred one is marked in its own table only.    *)
PlanningInputs == (Queued \cup Invocations(Unconsumed)) \ {using}
acknowledge_delivered(D) ==
  /\ pc = "planned" /\ D \subseteq PlanningInputs
  /\ \A d \in D, e \in PlanningInputs \ D : d < e \/ e \in late
  /\ deferred' = [e \in Event |-> IF e \in D \cap Queued THEN "CONSUMED" ELSE deferred[e]]
  /\ Consume(D \ Queued, "PLANNING_INPUT")
  /\ Goto("publish")
  /\ UNCHANGED <<outside, le, cycleVars, runVars, pubVars>>

(* publish_plan: the comment is found by its marker or written ...         *)
publish_plan ==
  /\ pc = "publish" /\ Goto("posted")
  /\ comment' = (IF comment = 0 THEN now ELSE comment)
  /\ UNCHANGED <<outside, inputVars, wf, plan, permit, runVars, pubVars>>

(* ... and mark_current_plan_posted.                                       *)
mark_current_plan_posted ==
  /\ pc = "posted"
  /\ plan' = [plan EXCEPT !.status = "POSTED", !.posted = comment]
  /\ SetPhase("WAITING_FOR_PLAN_APPROVAL")
  /\ IF outcome = "AUTHORIZE" /\ wf.mode = "AUTO" THEN Goto("authorize") ELSE End
  /\ UNCHANGED <<outside, inputVars, permit, comment, runVars, pubVars>>

-----------------------------------------------------------------------------
(* Approval.                                                               *)

(* authorize_current_plan and approve_current_plan: the permit for exactly *)
(* this version.                                                           *)
authorize_current_plan(e) ==
  /\ plan' = [plan EXCEPT !.status = "APPROVED", !.by = e]
  /\ permit' = [permit EXCEPT ![plan.version] = "OPEN"]
  /\ SetPhase("EXECUTION_READY")
  /\ comment' = comment

(* authorize_auto; without the label it falls back to INTERACTIVE.         *)
authorize_auto ==
  IF label THEN authorize_current_plan(0)
  ELSE /\ wf' = [wf EXCEPT !.mode = "INTERACTIVE", !.phase = "WAITING_FOR_PLAN_APPROVAL"]
       /\ UNCHANGED <<plan, permit, comment>>

auto_plan_revised ==
  /\ pc = "authorize" /\ authorize_auto /\ End
  /\ UNCHANGED <<outside, inputVars, runVars, pubVars>>

(* WAITING_FOR_PLAN_APPROVAL in AUTO mode: the label is gone, feedback     *)
(* revises the plan, or the plan is authorized.                            *)
auto_approval ==
  LET feedback == Invocations(Unconsumed) IN
  /\ pc = "main" /\ wf.phase = "WAITING_FOR_PLAN_APPROVAL" /\ wf.mode = "AUTO"
  /\ IF ~label \/ feedback = {}
     THEN authorize_auto /\ IF label THEN End ELSE Goto("main")
     ELSE begin_plan_revision(First(feedback), "NONE")
  /\ UNCHANGED <<outside, inputVars, runVars, pubVars>>

(* _require_authorized_approver: write access to the repository.           *)
_require_authorized_approver(e) == log[e].body = "approve"

(* approve_current_plan: the approval is consumed with the permit it gives.*)
approve_current_plan(e) ==
  Consume({e}, "PLAN_APPROVAL") /\ authorize_current_plan(e) /\ UNCHANGED <<deferred, le>>

(* approve: an approval that came after the drain is checked again, and    *)
(* one without write access raises and stays where it is.                  *)
approve(e) ==
  IF ~Eligible(e)
  THEN Consume({e}, "EARLY_PLAN_APPROVAL") /\ UNCHANGED <<deferred, le, cycleVars>>
  ELSE IF _require_authorized_approver(e) THEN approve_current_plan(e)
  ELSE UNCHANGED <<inputVars, cycleVars>>

(* The first pending input of the conversation decides.                    *)
human_approval ==
  LET rows == {e \in Unconsumed : SameTarget(e)} IN
  /\ pc = "main" /\ wf.phase = "WAITING_FOR_PLAN_APPROVAL" /\ wf.mode = "INTERACTIVE"
  /\ rows # {}
  /\ IF log[First(rows)].body = "invoke"
     THEN begin_plan_revision(First(rows), "NONE") /\ UNCHANGED inputVars
     ELSE approve(First(rows)) /\ End
  /\ UNCHANGED <<outside, runVars, pubVars>>

-----------------------------------------------------------------------------
(* Execution of the approved plan.                                         *)

(* _assert_event_ordering: every earlier event was skipped, or executed and*)
(* published as a root of its own.                                         *)
EarlierResolved ==
  \A e \in Recorded :
    e >= wf.root \/ ee[e] = "SKIPPED" \/ (ee[e] = "SUCCEEDED" /\ e \in published)

(* validate_permit.                                                        *)
validate_permit == plan.status = "APPROVED" /\ permit[plan.version] \in {"OPEN", "CONSUMED"}

(* The other checks of bind_authorized_execution.                          *)
Bindable ==
  /\ validate_permit
  /\ IF wf.logical THEN le \in {"NONE", "RETRY_PENDING", "INTERRUPTED"}
                   ELSE ee[wf.root] \in {"NONE", "RETRY_PENDING"}
  /\ permit[plan.version] = "OPEN" \/ ee[wf.root] = "RETRY_PENDING"
  /\ EarlierResolved

(* bind_authorized_execution: pending approvals are stale, the root is     *)
(* claimed, the permit consumed and the first attempt row inserted.        *)
bind_authorized_execution ==
  LET E == Approvals(Pending) IN
  /\ consumed' = [e \in Event |-> IF e \in E THEN "STALE_PLAN_APPROVAL" ELSE consumed[e]]
  /\ ee' = [e \in Event |->
       IF e \in E THEN "SKIPPED"
       ELSE IF e = wf.root /\ ~wf.logical THEN "RUNNING" ELSE ee[e]]
  /\ le' = (IF wf.logical THEN "RUNNING" ELSE le)
  /\ wf' = [wf EXCEPT !.phase = "EXECUTING"]
  /\ permit' = [permit EXCEPT ![plan.version] = "CONSUMED"]
  /\ attempt' = (IF attempt.kind # "NONE" THEN attempt
                 ELSE [NoAttempt EXCEPT !.kind = "INITIAL", !.version = plan.version,
                                        !.status = "RUNNING"])
  /\ UNCHANGED <<plan, comment, deferred>>

(* EXECUTION_READY: feedback voids the permit and revises the plan; so does*)
(* an invocation the bind transaction finds (PendingWorkflowInputError).   *)
(* Otherwise execute_authorized binds the permit under the thread lock; one*)
(* that does not bind makes the tick raise.                                *)
execution_ready ==
  LET feedback == Invocations(Unconsumed)
      raced == Invocations(Pending) IN
  /\ pc = "main" /\ wf.phase = "EXECUTION_READY"
  /\ IF feedback # {}
     THEN begin_plan_revision(First(feedback), "AUTHORIZE") /\ UNCHANGED <<inputVars, attempt>>
     ELSE IF validate_permit /\ raced # {}
     THEN begin_plan_revision(First(raced), "NONE") /\ UNCHANGED <<inputVars, attempt>>
     ELSE IF Bindable THEN bind_authorized_execution /\ Goto("bound")
     ELSE End /\ UNCHANGED <<cycleVars, inputVars, attempt>>
  /\ UNCHANGED <<outside, repair, question, checkpoint, reviewed, repairs, questions, pubVars>>

(* ensure_execution_attempt, then the model run: _execute_claim.           *)
ensure_execution_attempt ==
  /\ pc = "bound" /\ Goto("running")
  /\ attempt' =
       IF attempt.kind = "INITIAL" /\ attempt.version = plan.version
       THEN IF attempt.status = "SUCCEEDED" THEN attempt
            ELSE [attempt EXCEPT !.status = "RUNNING",
                                 !.retries = IF @ > MaxRecoveries THEN @ ELSE @ + 1]
       ELSE [NoAttempt EXCEPT !.kind = "INITIAL", !.version = plan.version, !.status = "RUNNING"]
  /\ reviewed' = FALSE
  /\ UNCHANGED <<outside, inputVars, cycleVars, repair, question, checkpoint, repairs, questions,
                 pubVars>>

(* resolve_resume: the interrupt of the checkpoint has its answer.         *)
resolve_resume == ~checkpoint \/ question = "ANSWERED"

(* _execute_claim ends: mark_execution_succeeded or mark_execution_failed. *)
run_ends(status) ==
  /\ pc = "running" /\ (status = "SUCCEEDED" => resolve_resume)
  /\ SetExecution(status)
  /\ checkpoint' = ~resolve_resume
  /\ pc' = "ran" /\ outcome' = status /\ using' = using
  /\ UNCHANGED <<outside, consumed, deferred, cycleVars, attempt, repair, question, reviewed,
                 repairs, questions, pubVars>>

(* _persist_clarification and save_clarification: a row of a question that *)
(* is reported again never reopens.                                        *)
_persist_clarification ==
  IF resolve_resume
  THEN questions < MaxQuestions /\ questions' = questions + 1 /\ question' = "OPEN"
  ELSE UNCHANGED <<question, questions>>

(* The agent asks, and the question is saved and posted during the run; or *)
(* the run finds its old interrupt without an answer and reports it again. *)
run_asks ==
  /\ pc = "running" /\ _persist_clarification
  /\ checkpoint' = TRUE
  /\ pc' = "ran" /\ outcome' = "CLARIFICATION" /\ using' = using
  /\ UNCHANGED <<outside, inputVars, cycleVars, attempt, repair, reviewed, repairs, pubVars>>

(* finish_execution_attempt.                                               *)
finish_execution_attempt ==
  /\ pc = "ran" /\ Goto("finished")
  /\ attempt' = [attempt EXCEPT !.status =
       IF outcome = "CLARIFICATION" THEN "INTERRUPTED" ELSE outcome]
  /\ UNCHANGED <<outside, inputVars, cycleVars, repair, question, checkpoint, reviewed, repairs,
                 questions, pubVars>>

(* The last write of execute_authorized: interrupt_execution_for_          *)
(* clarification, ...                                                      *)
interrupt_execution_for_clarification ==
  /\ pc = "finished" /\ outcome = "CLARIFICATION" /\ End
  /\ SetPhase("WAITING_FOR_INPUT") /\ SetExecution("INTERRUPTED")
  /\ UNCHANGED <<outside, consumed, deferred, plan, permit, comment, runVars, pubVars>>

(* ... or save_workflow_state.                                             *)
execution_settled ==
  /\ pc = "finished" /\ outcome # "CLARIFICATION" /\ End
  /\ SetPhase(IF outcome = "SUCCEEDED" THEN "REVIEW_EXECUTION" ELSE "EXECUTION_FAILED")
  /\ UNCHANGED <<outside, inputVars, plan, permit, comment, runVars, pubVars>>

-----------------------------------------------------------------------------
(* Review and repair.                                                      *)

(* The verdict of the latest, succeeded attempt takes effect: after the    *)
(* review, or on a later tick that finds it saved.                         *)
Settles(verdict) ==
  /\ \/ pc = "verdict"
     \/ pc = "main" /\ wf.phase = "REVIEW_EXECUTION"
  /\ attempt.verdict = verdict /\ attempt.status = "SUCCEEDED"
  /\ End
  /\ UNCHANGED <<outside, inputVars, plan, permit, comment, attempt, question, checkpoint,
                 reviewed, repairs, questions, pubVars>>

accept_execution_review ==
  /\ Settles("ACCEPT")
  /\ SetPhase("AWAITING_PUBLICATION") /\ repair' = repair

InvalidRepair ==
  [repair EXCEPT !.status = IF @ = "OPEN" THEN "INVALID" ELSE @]

block_execution_review ==
  /\ Settles("BLOCKED")
  /\ SetPhase("REVIEW_BLOCKED") /\ repair' = InvalidRepair

(* create_repair_permit: one permit for each round, up to the limit.       *)
create_repair_permit ==
  LET round == attempt.round + 1 IN
  /\ Settles("NEEDS_FIXES")
  /\ IF round <= MaxRepairs
     THEN SetPhase("REPAIR_READY") /\ repair' = [round |-> round, status |-> "OPEN"]
     ELSE SetPhase("REVIEW_BLOCKED") /\ repair' = InvalidRepair

(* _run_review_locked runs the reviewer ...                                *)
review_begins ==
  /\ pc = "main" /\ wf.phase = "REVIEW_EXECUTION" /\ attempt.verdict = "NONE"
  /\ Goto("reviewing")
  /\ UNCHANGED <<outside, inputVars, cycleVars, runVars, pubVars>>

(* ... and saves its verdict on the attempt,                               *)
save_execution_review(verdict) ==
  /\ pc = "reviewing" /\ Goto("verdict")
  /\ attempt' = [attempt EXCEPT !.verdict = verdict]
  /\ reviewed' = TRUE
  /\ UNCHANGED <<outside, inputVars, cycleVars, repair, question, checkpoint, repairs, questions,
                 pubVars>>

(* Slip: review failures are not counted.                                  *)
record_review_infrastructure_failure_uncounted ==
  /\ pc = "reviewing" /\ End
  /\ UNCHANGED <<outside, inputVars, cycleVars, runVars, pubVars>>

(* or fails to finalize a report: record_review_infrastructure_failure.    *)
record_review_infrastructure_failure ==
  /\ pc = "reviewing" /\ End
  /\ IF attempt.reviews >= MaxRecoveries
     THEN SetPhase("REVIEW_BLOCKED") /\ attempt' = attempt
     ELSE attempt' = [attempt EXCEPT !.reviews = @ + 1] /\ wf' = wf
  /\ UNCHANGED <<outside, inputVars, plan, permit, comment, repair, question, checkpoint,
                 reviewed, repairs, questions, pubVars>>

(* Any other failure of the review, of the provider or of the inspector's  *)
(* model, escapes the tick and is not counted.                             *)
review_raises ==
  /\ pc = "reviewing" /\ End
  /\ UNCHANGED <<outside, inputVars, cycleVars, runVars, pubVars>>

(* bind_repair_execution without a pending invocation: the attempt of this *)
(* round runs, a second time after a recovery.                             *)
bind_repair_execution ==
  /\ attempt' = IF attempt.kind = "REVIEW_REPAIR" /\ attempt.round = repair.round
                THEN [attempt EXCEPT !.status = "RUNNING"]
                ELSE [NoAttempt EXCEPT !.kind = "REVIEW_REPAIR", !.version = plan.version,
                                       !.status = "RUNNING", !.round = repair.round]
  /\ SetPhase("EXECUTING") /\ Goto("repairing")
  /\ repairs' = repairs + 1 /\ reviewed' = FALSE /\ repair' = repair

(* PendingRepairInputError: an invocation without a consumption row voids  *)
(* the repair and blocks the thread.                                       *)
repair_raced ==
  /\ repair' = InvalidRepair
  /\ SetPhase("REVIEW_BLOCKED") /\ End
  /\ UNCHANGED <<attempt, reviewed, repairs>>

(* REPAIR_READY: execute_repair_authorized binds under the thread lock;    *)
(* approvals before the first pending invocation are stale.                *)
repair_ready ==
  LET raced == Invocations(Pending)
      stale == {e \in Approvals(Pending) : raced = {} \/ e < First(raced)} IN
  /\ pc = "main" /\ wf.phase = "REPAIR_READY" /\ repair.status = "OPEN"
  /\ Consume(stale, "STALE_PLAN_APPROVAL")
  /\ IF raced # {} THEN repair_raced ELSE bind_repair_execution
  /\ UNCHANGED <<outside, deferred, le, plan, permit, comment, question, checkpoint, questions,
                 pubVars>>

RepairEnds(status, used, phase) ==
  /\ pc = "repairing" /\ End
  /\ attempt' = [attempt EXCEPT !.status = status]
  /\ repair' = [repair EXCEPT !.status = used]
  /\ SetPhase(phase)
  /\ UNCHANGED <<outside, inputVars, plan, permit, comment, question, checkpoint, reviewed,
                 repairs, questions, pubVars>>

(* Slip: the review of the parent stands for the repair.                   *)
repair_inherits_review ==
  /\ RepairEnds("SUCCEEDED", "CONSUMED", "AWAITING_PUBLICATION")

finish_repair_attempt_success == RepairEnds("SUCCEEDED", "CONSUMED", "REVIEW_EXECUTION")
mark_repair_attempt_failed == RepairEnds("FAILED", "INVALID", "REVIEW_BLOCKED")

-----------------------------------------------------------------------------
(* Publication and learning.                                               *)

(* _publication_target: what may be published now.                         *)
PublicationTarget ==
  /\ wf.phase = "AWAITING_PUBLICATION" /\ plan.status = "APPROVED"
  /\ Execution = "SUCCEEDED"
  /\ attempt.status = "SUCCEEDED" /\ attempt.version = plan.version
  /\ attempt.verdict = "ACCEPT"

(* The publisher: module Publication has its steps.                        *)
publisher_completes ==
  /\ PublicationTarget /\ publication = "NONE" /\ publication' = "COMPLETED"
  /\ UNCHANGED <<outside, inputVars, cycleVars, runVars, published, jobs, tickVars>>

(* finalize_publication: the cycle is closed and both jobs are queued.     *)
finalize_publication ==
  /\ PublicationTarget
  /\ plan' = [plan EXCEPT !.status = "EXECUTED"]
  /\ SetPhase("IDLE")
  /\ published' = published \cup (IF wf.logical THEN {} ELSE {wf.root})
  /\ jobs' = {"memory", "resolution"}

(* complete_publication: the summary comment, then the finalization.       *)
complete_publication ==
  /\ pc = "main" /\ publication = "COMPLETED" /\ finalize_publication
  /\ Goto("learn")
  /\ UNCHANGED <<outside, inputVars, permit, comment, runVars, publication>>

(* Both jobs are tried after finalization, the oldest one on a later tick. *)
learn ==
  /\ \/ pc = "learn" /\ jobs' \in SUBSET jobs
     \/ /\ pc = "main" /\ wf.phase = "IDLE" /\ jobs # {}
        /\ jobs' \in {jobs, jobs \ {"memory"}, IF "memory" \in jobs THEN jobs ELSE {}}
  /\ End
  /\ UNCHANGED <<outside, inputVars, cycleVars, runVars, publication, published>>

(* A tick that finds nothing to do, or raises.                             *)
nothing_to_do ==
  /\ pc = "main"
  /\ \/ wf.phase \in {"EXECUTING", "WAITING_FOR_INPUT", "REVIEW_BLOCKED", "EXECUTION_FAILED"}
     \/ wf.phase = "IDLE" /\ jobs = {} /\ (NextInput = {} \/ wf.cycle = MaxCycles)
     \/ wf.phase = "AWAITING_PUBLICATION" /\ publication = "NONE"
     \/ /\ wf.phase = "WAITING_FOR_PLAN_APPROVAL" /\ wf.mode = "INTERACTIVE"
        /\ {e \in Unconsumed : SameTarget(e)} = {}
  /\ End
  /\ UNCHANGED <<outside, inputVars, cycleVars, runVars, pubVars>>

-----------------------------------------------------------------------------
(* The operator's commands, at any time.                                   *)
Command ==
  /\ commands < MaxOperator /\ commands' = commands + 1 /\ wf.root # 0
  /\ UNCHANGED <<now, log, late, label, crashes, consumed, deferred, plan, comment, runVars,
                 pubVars, tickVars>>

(* Slip: a retry is granted whatever the execution's status.               *)
retry_execution_unchecked ==
  /\ Execution \notin {"NONE", "RUNNING", "RETRY_PENDING"}
  /\ wf.logical => wf.phase = "EXECUTING"
  /\ Command
  /\ SetExecution("RETRY_PENDING")
  /\ permit' = [v \in 1 .. MaxVersion |-> IF permit[v] = "CONSUMED" THEN "OPEN" ELSE permit[v]]
  /\ SetPhase(IF wf.phase = "EXECUTING" THEN "EXECUTION_READY" ELSE wf.phase)

(* retry_execution: of a logical execution only while EXECUTING.           *)
retry_execution ==
  /\ Execution \in {"FAILED", "INTERRUPTED"}
  /\ wf.logical => wf.phase = "EXECUTING"
  /\ Command
  /\ SetExecution("RETRY_PENDING")
  /\ permit' = [v \in 1 .. MaxVersion |-> IF permit[v] = "CONSUMED" THEN "OPEN" ELSE permit[v]]
  /\ SetPhase(IF wf.phase = "EXECUTING" THEN "EXECUTION_READY" ELSE wf.phase)

(* skip_execution.                                                         *)
skip_execution ==
  /\ ~wf.logical /\ Execution \in {"FAILED", "INTERRUPTED"}
  /\ Command
  /\ SetExecution("SKIPPED") /\ UNCHANGED <<wf, permit>>

(* recover_stale: only when the thread lock is free.                       *)
recover_stale ==
  /\ Execution = "RUNNING" /\ ~Locked
  /\ Command
  /\ SetExecution("INTERRUPTED") /\ UNCHANGED <<wf, permit>>

-----------------------------------------------------------------------------
Worker ==
  \/ _drain_approval_controls \/ _recover_executing_state
  \/ clarify_begins \/ clarify_ends
  \/ \E r \in Relationship : _resolve_open_clarification(r)
  \/ _defer_active_followups
  \/ begin_next_cycle \/ planning_resumed \/ plan_event \/ _replan
  \/ \E D \in SUBSET Event : acknowledge_delivered(D)
  \/ publish_plan \/ mark_current_plan_posted \/ auto_plan_revised
  \/ auto_approval \/ human_approval
  \/ execution_ready \/ ensure_execution_attempt
  \/ \E s \in {"SUCCEEDED", "FAILED"} : run_ends(s)
  \/ run_asks \/ finish_execution_attempt
  \/ interrupt_execution_for_clarification \/ execution_settled
  \/ review_begins \/ \E v \in Verdict \ {"NONE"} : save_execution_review(v)
  \/ record_review_infrastructure_failure \/ review_raises
  \/ accept_execution_review \/ create_repair_permit \/ block_execution_review
  \/ repair_ready \/ finish_repair_attempt_success \/ mark_repair_attempt_failed
  \/ complete_publication \/ learn \/ nothing_to_do

Next ==
  \/ Worker \/ publisher_completes
  \/ somebody_comments
  \/ \E e \in Event, b \in Body, s \in Surface : record_event(e, b, s)
  \/ remove_label
  \/ retry_execution \/ skip_execution \/ recover_stale
  \/ crash

(* The dispatcher ticks a thread again and again: nothing is assumed of    *)
(* people, the publisher, the operator or the deaths.                      *)
Spec == Init /\ [][Next]_vars
FairSpec == Spec /\ WF_vars(Worker)

(* Reviews do not all end by an exception that is not counted: one that is *)
(* tried again and again comes to a verdict, or fails to finalize.         *)
ReviewConcludes ==
  \/ \E v \in Verdict \ {"NONE"} : save_execution_review(v)
  \/ record_review_infrastructure_failure
ProviderAnswers == SF_vars(ReviewConcludes)
AnsweredSpec == FairSpec /\ ProviderAnswers

-----------------------------------------------------------------------------
(* The rows hold the values the code writes.                               *)
TypeOK ==
  /\ now \in 0 .. MaxEvents /\ late \subseteq Event /\ label \in BOOLEAN
  /\ log \in [Event -> [body : Body, at : Surface] \cup {NoEvent}]
  /\ consumed \in [Event -> Purpose]
  /\ deferred \in [Event -> {"NONE", "QUEUED", "CONSUMED"}]
  /\ ee \in [Event -> Status] /\ le \in Status
  /\ wf \in [phase : Phase, cycle : 0 .. MaxCycles, root : 0 .. MaxEvents, logical : BOOLEAN,
             mode : {"INTERACTIVE", "AUTO"}, feedback : 0 .. MaxEvents]
  /\ plan \in [version : 1 .. MaxVersion, status : {"DRAFT", "POSTED", "APPROVED", "EXECUTED"},
               written : BOOLEAN, posted : 0 .. MaxEvents, by : 0 .. MaxEvents]
  /\ permit \in [1 .. MaxVersion -> {"NONE", "OPEN", "CONSUMED", "INVALID"}]
  /\ attempt \in [kind : {"NONE", "INITIAL", "REVIEW_REPAIR"}, version : 0 .. MaxVersion,
                  status : Status, round : 0 .. MaxRepairs, retries : 0 .. MaxRecoveries + 1,
                  recoveries : 0 .. MaxRecoveries, reviews : 0 .. MaxRecoveries,
                  verdict : Verdict]
  /\ repair \in [round : 0 .. MaxRepairs, status : {"NONE", "OPEN", "CONSUMED", "INVALID"}]
  /\ question \in {"NONE", "OPEN", "ANSWERED", "CANCELLED"} /\ checkpoint \in BOOLEAN
  /\ comment \in 0 .. MaxEvents /\ reviewed \in BOOLEAN /\ repairs \in Nat
  /\ publication \in {"NONE", "COMPLETED"} /\ published \subseteq Event
  /\ jobs \subseteq {"memory", "resolution"}
  /\ pc \in Step /\ using \in 0 .. MaxEvents
  /\ outcome \in {"NONE", "AUTHORIZE", "SUCCEEDED", "FAILED", "CLARIFICATION"}
  /\ questions \in 0 .. MaxQuestions /\ commands \in 0 .. MaxOperator
  /\ crashes \in 0 .. MaxCrashes

(* A model runs only under the authority of the plan people see: whichever *)
(* deaths, retries and revisions came before, the plan it runs is the      *)
(* current one, its permit is of that version and not void, no permit of an*)
(* earlier version is still usable, and outside AUTO mode somebody with    *)
(* write access approved it after that very version was posted.            *)
RunsTheApprovedPlan ==
  pc \in {"running", "repairing"} =>
    /\ wf.phase = "EXECUTING" /\ plan.status = "APPROVED"
    /\ permit[plan.version] = "CONSUMED" /\ attempt.version = plan.version
    /\ \A v \in 1 .. plan.version - 1 : permit[v] \in {"NONE", "INVALID"}
    /\ plan.by # 0 => log[plan.by].body = "approve" /\ plan.by > plan.posted
    /\ plan.by = 0 => AllowAuto

(* What is published is what was reviewed: while a thread awaits           *)
(* publication its latest attempt succeeded, that attempt was accepted, and*)
(* nothing has run in the workspace since the review.                      *)
AcceptedWorkIsReviewed ==
  wf.phase = "AWAITING_PUBLICATION" => PublicationTarget /\ reviewed

(* No request is lost that was listed in time: an event that was neither   *)
(* consumed nor deferred lies after the root of the cycle, where the next  *)
(* tick looks for it, unless a younger event was recorded before it.       *)
NoInputLost ==
  \A e \in Recorded \ late :
    consumed[e] # "NONE" \/ deferred[e] # "NONE" \/ e > wf.root

(* The code does not keep this: "Every unsolicited actionable input is     *)
(* durably queued for a safe boundary".  A thread that finds nothing to do *)
(* has taken up every request it recorded; one that was listed late lies   *)
(* before the root, where no tick looks for it.                            *)
IdleHasTakenUpAll ==
  wf.phase = "IDLE" /\ pc = "main" /\ NextInput = {} =>
    \A e \in Invocations(Recorded) : consumed[e] # "NONE" \/ deferred[e] # "NONE"

(* Repair runs are bounded, deaths included: every round may be started    *)
(* again MAX_REPAIR_EXECUTION_RECOVERIES times.                            *)
RepairsBounded == repairs <= MaxRepairs * (MaxRecoveries + 1)

(* Durable success is final: once the execution of a cycle has succeeded,  *)
(* neither a recovery nor an operator's command runs the plan again.       *)
SuccessIsFinal ==
  [][Execution = "SUCCEEDED" /\ wf'.cycle = wf.cycle =>
       Execution' = "SUCCEEDED" /\ pc' # "bound"]_vars

(* A review comes to an end: a succeeded execution is accepted or blocked, *)
(* through the failures that are counted, repairs and deaths of the worker,*)
(* and through others as long as the provider answers in the end.          *)
ReviewSettles ==
  wf.phase = "REVIEW_EXECUTION" ~>
    wf.phase \in {"AWAITING_PUBLICATION", "REVIEW_BLOCKED", "IDLE"}

(* The code does not keep this: "at the bound the thread fails closed      *)
(* instead of retrying forever".  Whatever fails, a review is left; only   *)
(* ReviewFinalizationError is counted towards the bound.                   *)
ReviewFailsClosed == wf.phase = "REVIEW_EXECUTION" ~> wf.phase # "REVIEW_EXECUTION"

(* "Every transition is persisted before the method returns, so a later    *)
(* tick can safely recover after a process crash": a thread found EXECUTING*)
(* does not stay so.                                                       *)
ExecutingIsLeft == wf.phase = "EXECUTING" ~> wf.phase # "EXECUTING"
=============================================================================
