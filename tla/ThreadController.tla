---------------------------- MODULE ThreadController ----------------------------
(***************************************************************************)
(* How human comments reach the workflow of one IssueThread in MANUAL      *)
(* mode: classification (github_store.py), the controller's tick           *)
(* (workflow_controller.py), the agent's lifecycle gateways                *)
(* (workflow_tools.py, workflow_agent_runtime.py, workflow_middleware.py)  *)
(* and the dispatcher's runnable predicate.                                *)
(*                                                                         *)
(* A tick is a sequence of transactions, GitHub posts and checkpoint       *)
(* writes; each is an action, and the worker may die between any two.      *)
(* People comment and the poller ingests meanwhile.                        *)
(*                                                                         *)
(* Data abstraction: log is the conversation, and the position of an entry *)
(* is its created_at, so an event is its position, a plan or a result is   *)
(* the position of its comment, and both are the occurrence they open.  A  *)
(* cycle has one task, and EXECUTING stands for EXECUTING and VALIDATING:  *)
(* scheduling and rework inside a task are WorkflowRuntime's concern.      *)
(***************************************************************************)
EXTENDS Integers, Sequences, FiniteSets

CONSTANTS
  Surface,      \* conversations: the issue, the pull request
  Issue,        \* the surface of the root request
  Completed,    \* the initial workflow is complete at the start, and may be published
  MaxLog,       \* bound: entries of the conversation
  MaxHuman,     \* bound: entries people write
  MaxCycles,    \* bound: cycles
  MaxCrashes,   \* bound: deaths of the worker
  MaxTexts,     \* bound: different questions the agent may ask
  MaxFailures   \* MAX_DECLARATIVE_DRIVER_FAILURES

ASSUME SurfaceAssumption == Issue \in Surface /\ Completed \in BOOLEAN
ASSUME ControllerBounds ==
  /\ MaxLog \in Nat \ {0} /\ MaxHuman \in Nat /\ MaxCycles \in Nat \ {0}
  /\ MaxCrashes \in Nat /\ MaxTexts \in Nat \ {0} /\ MaxFailures \in Nat \ {0}

VARIABLES
  log,           \* GitHub: the comments of all surfaces, in order
  seen,          \* source_events
  input,         \* thread_input_consumptions
  claims,        \* their order by claimed_at
  revision,      \* revision_inputs_v1
  review,        \* workflow_feedback_reviews_v1
  outbox,        \* workflow_comment_outbox_v1, rows that are due
  cycle, cycle_status, root,  \* the latest row of workflow_cycles_v1
  task,          \* its task run
  applied,       \* permits, result approvals and answers: occurrence, event
  interrupt,     \* the checkpoint's pending interrupt
  pc, resume, call, entry,    \* volatile: the tick under way
  failures, crashes

inboxVars == <<seen, input, claims, revision, review, outbox>>
cycleVars == <<cycle, cycle_status, root>>
tickVars  == <<pc, resume, call, entry>>
vars == <<log, inboxVars, cycleVars, task, applied, interrupt, tickVars, failures, crashes>>

-----------------------------------------------------------------------------
Event == 1 .. MaxLog
Human == {"approve", "say"}
Waiting == {"WAITING_FOR_PLAN_APPROVAL", "WAITING_FOR_RESULT_APPROVAL", "WAITING_FOR_INPUT"}
Phase == Waiting \cup {"PENDING", "PLANNING", "EXECUTING", "DONE", "FAILED"}
Occurrence == [kind : {"PLAN_APPROVAL", "RESULT_APPROVAL", "CLARIFICATION", "NONE"},
               cycle : 0 .. MaxCycles, id : Nat]

NoOcc == [kind |-> "NONE", cycle |-> 0, id |-> 0]
NoInput == [status |-> "NONE", occ |-> NoOcc]
NoRevision == [status |-> "NONE", reason |-> "NONE", cycle |-> 0, batched_at |-> 0]
NoReview == [status |-> "NONE", occ |-> NoOcc]
NoTask == [phase |-> "PENDING", from |-> "NONE", question |-> 0, plan |-> 0, result |-> 0, asked_at |-> 0]
NoInterrupt == [tool |-> "NONE", occ |-> NoOcc]
NoResume == [kind |-> "NONE", event |-> 0]
NoCall == [tool |-> "NONE", id |-> 0]

-----------------------------------------------------------------------------
(* A question's key is a hash of the phase, the question and the reason:   *)
(* asked again in the same phase, it is the same occurrence.               *)
QuestionId(from, text) == IF from = "PLANNING" THEN 2 * text - 1 ELSE 2 * text

PlanOcc == [kind |-> "PLAN_APPROVAL", cycle |-> cycle, id |-> task.plan]
ResultOcc == [kind |-> "RESULT_APPROVAL", cycle |-> cycle, id |-> task.result]
QuestionOcc == [kind |-> "CLARIFICATION", cycle |-> cycle, id |-> task.question]

(* The occurrence the task waits on, and when it opened.                   *)
OpenOcc == CASE task.phase = "WAITING_FOR_PLAN_APPROVAL" -> PlanOcc
             [] task.phase = "WAITING_FOR_RESULT_APPROVAL" -> ResultOcc
             [] task.phase = "WAITING_FOR_INPUT" -> QuestionOcc
             [] OTHER -> NoOcc
Threshold == IF task.phase = "WAITING_FOR_INPUT" THEN task.asked_at ELSE OpenOcc.id

(* Slip: an approval counts wherever it is written.                        *)
AnswersAnywhere(e) == e > Threshold

(* _same_target and _after: a comment that could answer the open wait.     *)
Answers(e) == log[e].at = log[root].at /\ e > Threshold

(* _matches_open_interaction.                                              *)
Matches(e) == cycle_status = "ACTIVE" /\ task.phase \in Waiting /\ Answers(e)

(* unconsumed_inputs; those of them a waiting branch would look at.        *)
Unconsumed == {e \in seen : input[e].status = "NONE"}
Candidates == {e \in Unconsumed : Answers(e)}
Earliest(E) == CHOOSE e \in E : \A d \in E : e <= d

PendingRevision == {e \in Event : revision[e].status = "PENDING"}
Steering == {e \in PendingRevision : revision[e].reason = "UNSOLICITED_STEERING"}

(* feedback_review_for_task.                                               *)
TaskReviews(status) ==
  {e \in Event : review[e].status = status /\ review[e].occ.cycle = cycle}

(* pending_resume_claim: the oldest claim that is not settled.             *)
PendingClaims == {i \in 1 .. Len(claims) : input[claims[i]].status = "CLAIMED"}
PendingClaim == IF PendingClaims = {} THEN 0 ELSE claims[Earliest(PendingClaims)]

HasInterrupt == OpenOcc # NoOcc /\ interrupt.occ = OpenOcc

(* _settle_revision_steering applies.                                      *)
SteeringDue ==
  /\ cycle > 1
  /\ task.phase \in {"WAITING_FOR_PLAN_APPROVAL", "WAITING_FOR_RESULT_APPROVAL"}
  /\ Steering # {}

(* Slip: a claimed input no longer keeps its thread runnable.              *)
RunnableForgetsClaims ==
  \/ outbox # {}
  \/ cycle = 0 /\ Unconsumed # {}
  \/ cycle_status = "PUBLISHED" /\ (PendingRevision # {} \/ Unconsumed # {})
  \/ cycle_status = "AWAITING_PUBLICATION" /\ PendingRevision # {}
  \/ /\ cycle_status = "ACTIVE"
     /\ \/ task.phase \notin Waiting
        \/ TaskReviews("REVIEWING") # {}
        \/ Candidates # {}

(* is_thread_runnable; publication has a module of its own.                *)
Runnable ==
  \/ outbox # {}
  \/ cycle = 0 /\ Unconsumed # {}
  \/ cycle_status = "PUBLISHED" /\ (PendingRevision # {} \/ Unconsumed # {})
  \/ cycle_status = "AWAITING_PUBLICATION" /\ PendingRevision # {}
  \/ /\ cycle_status = "ACTIVE"
     /\ \/ task.phase \notin Waiting
        \/ PendingClaim # 0
        \/ TaskReviews("REVIEWING") # {}
        \/ Candidates # {}

Init ==
  /\ log = <<[body |-> "say", at |-> Issue, cycle |-> 0, id |-> 0]>>
  /\ seen = {1}
  /\ input = [e \in Event |->
       IF e = 1 /\ Completed THEN [status |-> "CYCLE_ROOT", occ |-> NoOcc] ELSE NoInput]
  /\ claims = <<>>
  /\ revision = [e \in Event |-> NoRevision]
  /\ review = [e \in Event |-> NoReview]
  /\ outbox = {}
  /\ cycle = (IF Completed THEN 1 ELSE 0)
  /\ cycle_status = (IF Completed THEN "AWAITING_PUBLICATION" ELSE "NONE")
  /\ root = 1
  /\ task = (IF Completed THEN [NoTask EXCEPT !.phase = "DONE"] ELSE NoTask)
  /\ applied = {} /\ interrupt = NoInterrupt
  /\ pc = "idle" /\ resume = NoResume /\ call = NoCall /\ entry = "NONE"
  /\ failures = 0 /\ crashes = 0

-----------------------------------------------------------------------------
(* People: an approval, or anything else addressed to the agent.           *)
(* One entry is always left for the worker's next comment.                 *)
Post(body, surface) ==
  /\ Len(log) < MaxLog - 1
  /\ Cardinality({i \in DOMAIN log : log[i].body \in Human}) <= MaxHuman
  /\ log' = Append(log, [body |-> body, at |-> surface, cycle |-> 0, id |-> 0])
  /\ UNCHANGED <<inboxVars, cycleVars, task, applied, interrupt, tickVars, failures, crashes>>

(* _classify_revision_input for every comment of E.                        *)
Classify(E) ==
  LET rest == IF cycle = 0 THEN {} ELSE {e \in E : ~Matches(e)}
      stale == {e \in rest : log[e].body = "approve"}
      queued == rest \ stale IN
  /\ input' = [e \in Event |->
       CASE e \in stale -> [status |-> "STALE_APPROVAL", occ |-> NoOcc]
         [] e \in queued -> [status |-> "REVISION_QUEUED", occ |-> NoOcc]
         [] OTHER -> input[e]]
  /\ revision' = [e \in Event |->
       IF e \in queued
       THEN [NoRevision EXCEPT !.status = "PENDING", !.reason = "UNSOLICITED_STEERING"]
       ELSE revision[e]]
  /\ outbox' = outbox \cup queued

(* The poller records a comment; each surface is read in order.            *)
record_batch(e) ==
  /\ e \in DOMAIN log /\ log[e].body \in Human /\ e \notin seen
  /\ \A d \in 1 .. e - 1 : log[d].body \in Human /\ log[d].at = log[e].at => d \in seen
  /\ seen' = seen \cup {e}
  /\ Classify({e})
  /\ UNCHANGED <<log, claims, review, cycleVars, task, applied, interrupt, tickVars, failures,
                 crashes>>

-----------------------------------------------------------------------------
(* The tick goes on, ends, or raises.  A worker's failure count is cleared *)
(* when its drain loop ends without an exception, which a tick may or may  *)
(* not be the last of; at the limit the active task is failed.             *)
Goto(step) == pc' = step /\ UNCHANGED <<resume, call, entry, failures>>

Forget == resume' = NoResume /\ call' = NoCall /\ entry' = "NONE"

EndTick == pc' = "idle" /\ Forget /\ failures' \in {0, failures}

RaiseWith(unchanged) ==
  LET give_up == failures + 1 >= MaxFailures /\ cycle_status = "ACTIVE" IN
  /\ pc' = "idle" /\ Forget
  /\ failures' = IF failures < MaxFailures THEN failures + 1 ELSE failures
  /\ cycle_status' = IF give_up THEN "FAILED" ELSE cycle_status
  /\ task' = IF give_up THEN [task EXCEPT !.phase = "FAILED"] ELSE task
  /\ UNCHANGED <<unchanged, cycle, root, applied, interrupt, crashes>>

RaiseTick == RaiseWith(<<log, inboxVars>>)

(* The dispatcher submits a runnable thread; the tick first routes what    *)
(* answers nothing.                                                        *)
route_unmatched_inputs ==
  /\ pc = "idle" /\ Runnable
  /\ Classify({e \in Unconsumed : e # 1})
  /\ Goto("deliver")
  /\ UNCHANGED <<log, seen, claims, review, cycleVars, task, applied, interrupt, crashes>>

deliver_pending_workflow_comments ==
  /\ pc = "deliver"
  /\ outbox' = {}
  /\ Goto("begin")
  /\ UNCHANGED <<log, seen, input, claims, revision, review, cycleVars, task, applied,
                 interrupt, crashes>>

(* cycle_for_thread, and _begin_cycle when there is none to go on with:    *)
(* the cycle first, then the disposition of its root.                      *)
_begin_cycle ==
  /\ pc = "begin" /\ cycle = 0
  /\ cycle' = 1 /\ cycle_status' = "ACTIVE" /\ root' = 1 /\ task' = NoTask
  /\ Goto("root")
  /\ UNCHANGED <<log, inboxVars, applied, interrupt, crashes>>

record_cycle_root ==
  /\ pc = "root"
  /\ input' = [input EXCEPT ![1].status = "CYCLE_ROOT"]
  /\ Goto("claims")
  /\ UNCHANGED <<log, seen, claims, revision, review, outbox, cycleVars, task, applied,
                 interrupt, crashes>>

continue_cycle ==
  /\ pc = "begin" /\ cycle # 0
  /\ IF cycle_status # "PUBLISHED" THEN Goto("claims")
     ELSE IF PendingRevision # {} THEN Goto("revise")
     ELSE EndTick
  /\ UNCHANGED <<log, inboxVars, cycleVars, task, applied, interrupt, crashes>>

(* Slip: a claim an earlier worker left is taken for delivered.            *)
VerdictTrustsDelivery(e) ==
  LET occ == input[e].occ IN
  IF occ.kind = "CLARIFICATION" THEN (IF OpenOcc = occ THEN "NONE" ELSE "APPLIED")
  ELSE IF \E a \in applied : a.occ = occ
  THEN (IF [occ |-> occ, event |-> e] \in applied THEN "APPLIED" ELSE "STALE")
  ELSE "APPLIED"

(* Slip: only approvals are reconciled.                                    *)
VerdictSkipsAnswers(e) ==
  LET occ == input[e].occ IN
  CASE \E a \in applied : a.occ = occ /\ occ.kind # "CLARIFICATION" ->
         IF [occ |-> occ, event |-> e] \in applied THEN "APPLIED" ELSE "STALE"
    [] OTHER -> "NONE"

(* _claim_verdict, from what is durably recorded about the occurrence.     *)
_claim_verdict(e) ==
  LET occ == input[e].occ IN
  IF occ.kind = "CLARIFICATION" THEN (IF OpenOcc = occ THEN "NONE" ELSE "APPLIED")
  ELSE IF \E a \in applied : a.occ = occ
  THEN (IF [occ |-> occ, event |-> e] \in applied THEN "APPLIED" ELSE "STALE")
  ELSE "NONE"

_settle_resume_claim ==
  LET e == PendingClaim
      verdict == IF e = 0 THEN "NONE" ELSE _claim_verdict(e) IN
  /\ pc = "claims"
  /\ input' = IF verdict = "NONE" THEN input ELSE [input EXCEPT ![e].status = verdict]
  /\ Goto("branch")
  /\ UNCHANGED <<log, seen, claims, revision, review, outbox, cycleVars, task, applied,
                 interrupt, crashes>>

(* FAILED stops; a completed cycle is settled; an active one is scheduled. *)
cycle_failed ==
  /\ pc = "branch" /\ cycle_status = "FAILED"
  /\ EndTick
  /\ UNCHANGED <<log, inboxVars, cycleVars, task, applied, interrupt, crashes>>

cycle_awaits_publication ==
  /\ pc = "branch" /\ cycle_status = "AWAITING_PUBLICATION"
  /\ Goto("settle")
  /\ UNCHANGED <<log, inboxVars, cycleVars, task, applied, interrupt, crashes>>

select_active_task ==
  /\ \/ pc = "branch" /\ cycle_status = "ACTIVE"
     \/ pc = "select" /\ task.phase = "DONE"
     \/ pc = "successor"
  /\ cycle_status' = IF task.phase = "DONE" THEN "AWAITING_PUBLICATION" ELSE cycle_status
  /\ task' = IF task.phase = "PENDING" THEN [task EXCEPT !.phase = "PLANNING"] ELSE task
  /\ IF pc = "successor" THEN EndTick
     ELSE Goto(IF task.phase = "DONE" THEN "settle" ELSE "steer")
  /\ UNCHANGED <<log, inboxVars, cycle, root, applied, interrupt, crashes>>

(* _settle_completed_cycle: a revision consumes its inputs, then whatever  *)
(* is pending becomes the next revision.                                   *)
_settle_completed_cycle ==
  /\ pc = "settle"
  /\ revision' = [e \in Event |->
       IF revision[e].status = "BATCHED" /\ revision[e].cycle = cycle /\ cycle > 1
       THEN [revision[e] EXCEPT !.status = "CONSUMED"] ELSE revision[e]]
  /\ IF PendingRevision # {} THEN Goto("succeed") ELSE EndTick
  /\ UNCHANGED <<log, seen, input, claims, review, outbox, cycleVars, task, applied, interrupt,
                 crashes>>

(* _begin_revision: the cycle in one transaction, its inputs in another.   *)
(* The tick that finds the last cycle published goes on with the new one;  *)
(* the one that settled a cycle selects its task and stops.                *)
_begin_revision ==
  /\ pc \in {"revise", "succeed"} /\ cycle < MaxCycles
  /\ cycle' = cycle + 1 /\ cycle_status' = "ACTIVE"
  /\ root' = Earliest(PendingRevision)
  /\ task' = NoTask
  /\ interrupt' = NoInterrupt
  /\ Goto(IF pc = "revise" THEN "batch" ELSE "batch_successor")
  /\ UNCHANGED <<log, inboxVars, applied, crashes>>

Batch(E) ==
  revision' = [e \in Event |->
    IF e \in E
    THEN [revision[e] EXCEPT !.status = "BATCHED", !.cycle = cycle, !.batched_at = Len(log)]
    ELSE revision[e]]

batch_revision_inputs ==
  /\ pc \in {"batch", "batch_successor"}
  /\ Batch(PendingRevision)
  /\ Goto(IF pc = "batch" THEN "claims" ELSE "successor")
  /\ UNCHANGED <<log, seen, input, claims, review, outbox, cycleVars, task, applied, interrupt,
                 crashes>>

(* _settle_revision_steering: unsolicited steering joins the revision that *)
(* waits for approval, in one transaction, and makes it plan again, in a   *)
(* second.  It is looked for before and after the agent runs.              *)
batch_steering ==
  /\ pc \in {"steer", "select"} /\ SteeringDue
  /\ Batch(Steering)
  /\ Goto("replan")
  /\ UNCHANGED <<log, seen, input, claims, review, outbox, cycleVars, task, applied, interrupt,
                 crashes>>

(* Slip: the steering is taken in, but nothing is planned again.           *)
BatchWithoutReplan ==
  /\ pc = "replan"
  /\ EndTick
  /\ UNCHANGED <<log, inboxVars, cycleVars, task, applied, interrupt, crashes>>

replan_for_revision_inputs ==
  /\ pc = "replan"
  /\ task' = [task EXCEPT !.phase = "PLANNING"]
  /\ EndTick
  /\ UNCHANGED <<log, inboxVars, cycleVars, applied, interrupt, crashes>>

no_steering ==
  /\ pc = "steer" /\ ~SteeringDue
  /\ Goto(IF task.phase \in Waiting THEN "wait" ELSE "drive")
  /\ UNCHANGED <<log, inboxVars, cycleVars, task, applied, interrupt, crashes>>

end_of_tick ==
  /\ pc = "select" /\ ~SteeringDue /\ task.phase # "DONE"
  /\ EndTick
  /\ UNCHANGED <<log, inboxVars, cycleVars, task, applied, interrupt, crashes>>

-----------------------------------------------------------------------------
(* _plan_wait_resume, _result_wait_resume and _clarification_resume: what  *)
(* is delivered to the interrupt.  An active review comes first, then a    *)
(* claim an earlier worker left behind, then the earliest new comment.     *)
Reviewing == task.phase # "WAITING_FOR_INPUT" /\ TaskReviews("REVIEWING") # {}
Replayable == PendingClaim # 0 /\ input[PendingClaim].occ = OpenOcc /\ HasInterrupt

Drive(kind, e) ==
  /\ pc' = "drive" /\ resume' = [kind |-> kind, event |-> e]
  /\ UNCHANGED <<call, entry, failures>>

wait_stale_review ==
  /\ pc = "wait" /\ Reviewing
  /\ \E e \in TaskReviews("REVIEWING") : review[e].occ # OpenOcc
  /\ RaiseTick

wait_review ==
  /\ pc = "wait" /\ Reviewing
  /\ \A e \in TaskReviews("REVIEWING") : review[e].occ = OpenOcc
  /\ IF HasInterrupt THEN Drive("FEEDBACK", Earliest(TaskReviews("REVIEWING")))
                     ELSE Drive("NONE", 0)
  /\ UNCHANGED <<log, inboxVars, cycleVars, task, applied, interrupt, crashes>>

_claimed_resume ==
  /\ pc = "wait" /\ ~Reviewing /\ Replayable
  /\ Drive("ANSWER", PendingClaim)
  /\ UNCHANGED <<log, inboxVars, cycleVars, task, applied, interrupt, crashes>>

(* The earliest candidate, when there is an interrupt to deliver it to.    *)
Selected(e) ==
  /\ pc = "wait" /\ ~Reviewing /\ ~Replayable
  /\ HasInterrupt
  /\ Candidates # {} /\ e = Earliest(Candidates)

(* Approvals need permission, which GitHub may or may not grant; answers   *)
(* to a question do not.                                                   *)
claim_input_for_resume(e) ==
  /\ Selected(e)
  /\ (log[e].body = "say") <=> (task.phase = "WAITING_FOR_INPUT")
  /\ input' = [input EXCEPT ![e] = [status |-> "CLAIMED", occ |-> OpenOcc]]
  /\ claims' = Append(claims, e)
  /\ Drive("ANSWER", e)
  /\ UNCHANGED <<log, seen, revision, review, outbox, cycleVars, task, applied, interrupt,
                 crashes>>

record_input_disposition(e) ==
  /\ Selected(e) /\ log[e].body = "approve"
  /\ input' = [input EXCEPT ![e].status =
       IF task.phase = "WAITING_FOR_INPUT" THEN "STALE_APPROVAL" ELSE "STALE"]
  /\ UNCHANGED <<log, seen, claims, revision, review, outbox, cycleVars, task, applied,
                 interrupt, tickVars, failures, crashes>>

(* Slip: opening a review does not consume its comment.                    *)
ReviewWithoutConsuming(e) ==
  /\ Selected(e) /\ log[e].body = "say" /\ task.phase # "WAITING_FOR_INPUT"
  /\ review' = [review EXCEPT ![e] = [status |-> "REVIEWING", occ |-> OpenOcc]]
  /\ Drive("FEEDBACK", e)
  /\ UNCHANGED <<log, seen, input, claims, revision, outbox, cycleVars, task, applied,
                 interrupt, crashes>>

begin_feedback_review(e) ==
  /\ Selected(e) /\ log[e].body = "say" /\ task.phase # "WAITING_FOR_INPUT"
  /\ review' = [review EXCEPT ![e] = [status |-> "REVIEWING", occ |-> OpenOcc]]
  /\ input' = [input EXCEPT ![e].status = "FEEDBACK_REVIEW"]
  /\ Drive("FEEDBACK", e)
  /\ UNCHANGED <<log, seen, claims, revision, outbox, cycleVars, task, applied, interrupt,
                 crashes>>

(* reconcile_interrupts: a pending question that is not on GitHub yet.     *)
Question == [body |-> "question", at |-> log[root].at, cycle |-> cycle, id |-> task.question]
reconcile_interrupts ==
  LET missing == /\ HasInterrupt /\ task.phase = "WAITING_FOR_INPUT"
                 /\ \A i \in DOMAIN log : log[i] # Question IN
  /\ log' = IF missing THEN Append(log, Question) ELSE log

(* Nothing to deliver: only a deferred review whose interrupt was lost is  *)
(* taken up; otherwise the thread waits.                                   *)
NothingToDeliver ==
  /\ pc = "wait" /\ ~Reviewing /\ ~Replayable
  /\ Candidates = {} \/ ~HasInterrupt

DeferredInterruptMissing ==
  /\ task.phase # "WAITING_FOR_INPUT"
  /\ \E e \in TaskReviews("DEFERRED_WAITING") : interrupt.occ # review[e].occ

recover_deferred_review ==
  /\ NothingToDeliver /\ DeferredInterruptMissing
  /\ Drive("NONE", 0)
  /\ UNCHANGED <<log, inboxVars, cycleVars, task, applied, interrupt, crashes>>

keep_waiting ==
  /\ NothingToDeliver /\ ~DeferredInterruptMissing
  /\ reconcile_interrupts
  /\ EndTick
  /\ UNCHANGED <<inboxVars, cycleVars, task, applied, interrupt, crashes>>

-----------------------------------------------------------------------------
(* _durable_phase.                                                         *)
DurablePhase == IF task.phase = "WAITING_FOR_INPUT" THEN task.from ELSE task.phase

(* invoke_workflow_phase: a prompt starts over and drops the pending       *)
(* interrupt; a resume runs the interrupted gateway again.                 *)
Invoke(step) ==
  /\ pc = "drive" /\ pc' = step
  /\ entry' = DurablePhase
  /\ interrupt' = NoInterrupt
  /\ UNCHANGED <<resume, failures>>

prompt_agent ==
  /\ resume.kind = "NONE"
  /\ Invoke("agent")
  /\ UNCHANGED <<log, inboxVars, cycleVars, task, applied, call, crashes>>

(* The deferral gateway needs its review when it runs again.               *)
GatewayOpen == interrupt.tool = "defer" => TaskReviews("DEFERRED_WAITING") # {}

(* approve_plan, approve_result or resume_clarification, as the gateway    *)
(* that waited applies it.  After a deferral the review is closed next.    *)
apply_answer ==
  LET phase == CASE task.phase = "WAITING_FOR_PLAN_APPROVAL" -> "EXECUTING"
                 [] task.phase = "WAITING_FOR_RESULT_APPROVAL" -> "DONE"
                 [] task.phase = "WAITING_FOR_INPUT" -> task.from IN
  /\ pc = "drive" /\ resume.kind = "ANSWER" /\ GatewayOpen
  /\ applied' = applied \cup {[occ |-> OpenOcc, event |-> resume.event]}
  /\ task' = [task EXCEPT !.phase = phase, !.from = "NONE", !.question = 0, !.asked_at = 0]
  /\ Invoke(IF interrupt.tool = "defer" THEN "close" ELSE "agent")
  /\ UNCHANGED <<log, inboxVars, cycleVars, call, crashes>>

CloseDeferred ==
  review' = [e \in Event |->
    IF e \in TaskReviews("DEFERRED_WAITING")
    THEN [review[e] EXCEPT !.status = "CLOSED"] ELSE review[e]]

close_deferred_feedback ==
  /\ pc = "close"
  /\ CloseDeferred
  /\ Goto("agent")
  /\ UNCHANGED <<log, seen, input, claims, revision, outbox, cycleVars, task, applied,
                 interrupt, crashes>>

(* The gateway returns the review to the model as an instruction.          *)
deliver_feedback ==
  /\ resume.kind = "FEEDBACK" /\ interrupt.tool # "defer"
  /\ Invoke("agent")
  /\ UNCHANGED <<log, inboxVars, cycleVars, task, applied, call, crashes>>

(* The deferral gateway closes the review it waited with first; the        *)
(* checkpoint follows.                                                     *)
supersede_deferred_feedback ==
  /\ pc = "drive" /\ resume.kind = "FEEDBACK" /\ interrupt.tool = "defer" /\ GatewayOpen
  /\ CloseDeferred
  /\ pc' = "closed" /\ entry' = DurablePhase
  /\ UNCHANGED <<log, seen, input, claims, revision, outbox, cycleVars, task, applied,
                 interrupt, resume, call, failures, crashes>>

deliver_next_feedback ==
  /\ pc = "closed"
  /\ interrupt' = NoInterrupt
  /\ Goto("agent")
  /\ UNCHANGED <<log, inboxVars, cycleVars, task, applied, crashes>>

(* Run again after a crash between those two, it finds no deferred review: *)
(* it defers and closes the new one instead, or has none, and raises.      *)
resume_closed_deferral ==
  LET E == TaskReviews("REVIEWING") IN
  /\ pc = "drive" /\ resume.kind # "NONE" /\ ~GatewayOpen
  /\ revision' = [e \in Event |->
       IF e \in E
       THEN [revision[e] EXCEPT !.status = "PENDING", !.reason = "DEFERRED_FEEDBACK"]
       ELSE revision[e]]
  /\ review' = [e \in Event |->
       IF e \in E THEN [review[e] EXCEPT !.status = "CLOSED"] ELSE review[e]]
  /\ RaiseWith(<<log, seen, input, claims, outbox>>)

-----------------------------------------------------------------------------
(* WorkflowPolicyMiddleware.allowed_tools, for the lifecycle gateways.     *)
ActiveReviews == IF TaskReviews("REVIEWING") # {} THEN TaskReviews("REVIEWING")
                 ELSE TaskReviews("DEFERRED_WAITING")
ReviewsPlan == \E e \in ActiveReviews : review[e].occ.kind = "PLAN_APPROVAL"

allowed_tools ==
  CASE TaskReviews("REVIEWING") # {} ->
         {"replan", "defer", IF ReviewsPlan THEN "submit_plan" ELSE "finish_validation"}
    [] TaskReviews("REVIEWING") = {} /\ TaskReviews("DEFERRED_WAITING") # {} -> {"defer"}
    [] OTHER ->
         IF task.phase = "PLANNING" THEN {"submit_plan", "request_clarification"}
         ELSE IF task.phase = "EXECUTING" THEN {"finish_validation", "request_clarification"}
         ELSE {}

Calls(tool) == pc = "agent" /\ tool \in allowed_tools

Call(tool, id, step) ==
  /\ call' = [tool |-> tool, id |-> id]
  /\ pc' = step
  /\ UNCHANGED <<resume, entry, failures>>

(* submit_plan: the comment first, found again by its marker if an earlier *)
(* worker wrote it for the same text; then the row; then the interrupt.    *)
PlanComment == [body |-> "plan", at |-> log[root].at, cycle |-> cycle, id |-> 0]
publish_plan ==
  /\ Calls("submit_plan") /\ task.phase = "PLANNING"
  /\ \/ /\ Len(log) < MaxLog
        /\ log' = Append(log, PlanComment)
        /\ Call("submit_plan", Len(log) + 1, "posted")
     \/ \E i \in DOMAIN log :
          /\ log[i] = PlanComment /\ i > task.plan
          /\ Call("submit_plan", i, "posted")
          /\ UNCHANGED log
  /\ UNCHANGED <<inboxVars, cycleVars, task, applied, interrupt, crashes>>

submit_posted_plan ==
  /\ pc = "posted" /\ call.tool = "submit_plan"
  /\ task' = [task EXCEPT !.phase = "WAITING_FOR_PLAN_APPROVAL", !.plan = call.id]
  /\ Goto("interrupt")
  /\ UNCHANGED <<log, inboxVars, cycleVars, applied, interrupt, crashes>>

(* finish_validation with ACCEPT publishes the result the same way; every  *)
(* validation round has a marker of its own.  REPLAN goes back to planning.*)
ResultComment == [body |-> "result", at |-> log[root].at, cycle |-> cycle, id |-> 0]
publish_result ==
  /\ Calls("finish_validation") /\ task.phase = "EXECUTING"
  /\ Len(log) < MaxLog
  /\ log' = Append(log, ResultComment)
  /\ Call("finish_validation", Len(log) + 1, "posted")
  /\ UNCHANGED <<inboxVars, cycleVars, task, applied, interrupt, crashes>>

publish_validated_result ==
  /\ pc = "posted" /\ call.tool = "finish_validation"
  /\ task' = [task EXCEPT !.phase = "WAITING_FOR_RESULT_APPROVAL", !.result = call.id]
  /\ Goto("interrupt")
  /\ UNCHANGED <<log, inboxVars, cycleVars, applied, interrupt, crashes>>

finish_validation_replan ==
  /\ Calls("finish_validation") /\ task.phase = "EXECUTING"
  /\ task' = [task EXCEPT !.phase = "PLANNING"]
  /\ Goto("agent")
  /\ UNCHANGED <<log, inboxVars, cycleVars, applied, interrupt, crashes>>

(* A gateway called again while its occurrence is open just waits again.   *)
wait_again(tool, phase) ==
  /\ Calls(tool) /\ task.phase = phase
  /\ Call(tool, 0, "interrupt")
  /\ UNCHANGED <<log, inboxVars, cycleVars, task, applied, interrupt, crashes>>

pause_for_clarification ==
  /\ Calls("request_clarification") /\ Len(log) < MaxLog
  /\ \E text \in 1 .. MaxTexts :
       task' = [task EXCEPT !.phase = "WAITING_FOR_INPUT", !.from = task.phase,
                            !.question = QuestionId(task.phase, text), !.asked_at = Len(log)]
  /\ Call("request_clarification", 0, "interrupt")
  /\ UNCHANGED <<log, inboxVars, cycleVars, applied, interrupt, crashes>>

(* resolve_current_feedback_replan: the task first, the review after it.   *)
FeedbackPhase(occ) == IF occ.kind = "PLAN_APPROVAL" THEN "WAITING_FOR_PLAN_APPROVAL"
                      ELSE "WAITING_FOR_RESULT_APPROVAL"
replan_from_feedback ==
  \E e \in TaskReviews("REVIEWING") :
    /\ Calls("replan")
    /\ task.phase \in {"PLANNING", FeedbackPhase(review[e].occ)}
    /\ task' = [task EXCEPT !.phase = "PLANNING"]
    /\ Call("replan", e, "replanned")
    /\ UNCHANGED <<log, inboxVars, cycleVars, applied, interrupt, crashes>>

resolve_current_feedback_replan ==
  /\ pc = "replanned"
  /\ review' = [review EXCEPT ![call.id].status = "REPLAN"]
  /\ Goto("agent")
  /\ UNCHANGED <<log, seen, input, claims, revision, outbox, cycleVars, task, applied,
                 interrupt, crashes>>

(* defer_current_feedback_to_revision: queued and explained, unless that   *)
(* was already done; the approval stays open.                              *)
defer_feedback_to_revision ==
  /\ Calls("defer") /\ TaskReviews("DEFERRED_WAITING") = {}
  /\ \E e \in TaskReviews("REVIEWING") :
       /\ task.phase = FeedbackPhase(review[e].occ) /\ review[e].occ = OpenOcc
       /\ revision' = [revision EXCEPT ![e].status = "PENDING",
                                       ![e].reason = "DEFERRED_FEEDBACK"]
       /\ review' = [review EXCEPT ![e].status = "DEFERRED_WAITING"]
       /\ outbox' = outbox \cup {e}
  /\ Call("defer", 0, "interrupt")
  /\ UNCHANGED <<log, seen, input, claims, cycleVars, task, applied, interrupt, crashes>>

defer_again ==
  /\ Calls("defer") /\ TaskReviews("DEFERRED_WAITING") # {}
  /\ Call("defer", 0, "interrupt")
  /\ UNCHANGED <<log, inboxVars, cycleVars, task, applied, interrupt, crashes>>

(* The gateway waits: the interrupt becomes durable and the turn returns.  *)
GatewayOcc ==
  IF call.tool # "defer" THEN OpenOcc
  ELSE IF \E e \in TaskReviews("DEFERRED_WAITING") : review[e].occ.kind = "PLAN_APPROVAL"
       THEN PlanOcc ELSE ResultOcc

checkpoint_interrupt ==
  /\ pc = "interrupt"
  /\ interrupt' = [tool |-> call.tool, occ |-> GatewayOcc]
  /\ outbox' = IF call.tool = "defer" THEN {} ELSE outbox
  /\ Goto("reconcile")
  /\ UNCHANGED <<log, seen, input, claims, revision, review, cycleVars, task, applied, crashes>>

post_question ==
  /\ pc = "reconcile"
  /\ reconcile_interrupts
  /\ Goto("mark")
  /\ UNCHANGED <<inboxVars, cycleVars, task, applied, interrupt, crashes>>

(* A turn that stops without an interrupt counts only if the task moved.   *)
agent_stops ==
  /\ pc = "agent"
  /\ DurablePhase # entry
  /\ Goto("mark")
  /\ UNCHANGED <<log, inboxVars, cycleVars, task, applied, interrupt, crashes>>

agent_fails ==
  /\ pc = "agent"
  /\ DurablePhase = entry
  /\ RaiseTick

(* _mark_resume_applied.                                                   *)
finish_input_resume ==
  /\ pc = "mark"
  /\ input' = IF resume.kind = "ANSWER" /\ input[resume.event].status = "CLAIMED"
              THEN [input EXCEPT ![resume.event].status = "APPLIED"] ELSE input
  /\ Goto("select")
  /\ UNCHANGED <<log, seen, claims, revision, review, outbox, cycleVars, task, applied,
                 interrupt, crashes>>

-----------------------------------------------------------------------------
(* Publication: see module Publication.                                    *)
publish ==
  /\ pc = "idle" /\ cycle_status = "AWAITING_PUBLICATION" /\ PendingRevision = {}
  /\ cycle_status' = "PUBLISHED"
  /\ UNCHANGED <<log, inboxVars, cycle, root, task, applied, interrupt, tickVars, failures,
                 crashes>>

(* The worker is killed.                                                   *)
Crash ==
  /\ pc # "idle" /\ crashes < MaxCrashes
  /\ crashes' = crashes + 1
  /\ pc' = "idle" /\ Forget
  /\ UNCHANGED <<log, inboxVars, cycleVars, task, applied, interrupt, failures>>

Tick ==
  \/ route_unmatched_inputs \/ deliver_pending_workflow_comments
  \/ _begin_cycle \/ record_cycle_root \/ continue_cycle \/ _settle_resume_claim
  \/ cycle_failed \/ cycle_awaits_publication \/ select_active_task
  \/ _settle_completed_cycle \/ _begin_revision \/ batch_revision_inputs
  \/ batch_steering \/ replan_for_revision_inputs \/ no_steering \/ end_of_tick

Wait ==
  \/ wait_stale_review \/ wait_review \/ _claimed_resume
  \/ \E e \in Event : \/ claim_input_for_resume(e) \/ record_input_disposition(e)
                      \/ begin_feedback_review(e)
  \/ recover_deferred_review \/ keep_waiting

Agent ==
  \/ prompt_agent \/ apply_answer \/ close_deferred_feedback \/ deliver_feedback
  \/ supersede_deferred_feedback \/ deliver_next_feedback \/ resume_closed_deferral
  \/ publish_plan \/ submit_posted_plan \/ publish_result \/ publish_validated_result
  \/ finish_validation_replan \/ pause_for_clarification
  \/ wait_again("submit_plan", "WAITING_FOR_PLAN_APPROVAL")
  \/ wait_again("finish_validation", "WAITING_FOR_RESULT_APPROVAL")
  \/ replan_from_feedback \/ resolve_current_feedback_replan
  \/ defer_feedback_to_revision \/ defer_again
  \/ checkpoint_interrupt \/ post_question \/ agent_stops \/ agent_fails
  \/ finish_input_resume

Worker == Tick \/ Wait \/ Agent

Next ==
  \/ Worker \/ publish \/ Crash
  \/ \E body \in Human, s \in Surface : Post(body, s)
  \/ \E e \in Event : record_batch(e)

Spec == Init /\ [][Next]_vars

(* The dispatcher keeps ticking a runnable thread and the poller keeps     *)
(* polling.  Nothing is assumed of people, of publication or of crashes.   *)
FairSpec ==
  /\ Spec
  /\ WF_vars(Worker)
  /\ WF_vars(\E e \in Event : record_batch(e))
-----------------------------------------------------------------------------
TypeOK ==
  /\ log \in Seq([body : Human \cup {"plan", "result", "question"}, at : Surface,
                  cycle : 0 .. MaxCycles, id : 0 .. 2 * MaxTexts])
  /\ Len(log) <= MaxLog
  /\ seen \subseteq Event /\ outbox \subseteq Event /\ claims \in Seq(Event)
  /\ input \in [Event -> [status : {"NONE", "CYCLE_ROOT", "CLAIMED", "APPLIED", "STALE",
                                    "STALE_APPROVAL", "FEEDBACK_REVIEW", "REVISION_QUEUED"},
                           occ : Occurrence]]
  /\ revision \in [Event -> [status : {"NONE", "PENDING", "BATCHED", "CONSUMED"},
                              reason : {"NONE", "UNSOLICITED_STEERING", "DEFERRED_FEEDBACK"},
                              cycle : 0 .. MaxCycles, batched_at : 0 .. MaxLog]]
  /\ review \in [Event -> [status : {"NONE", "REVIEWING", "DEFERRED_WAITING", "REPLAN",
                                     "CLOSED"}, occ : Occurrence]]
  /\ cycle \in 0 .. MaxCycles /\ root \in Event
  /\ cycle_status \in {"NONE", "ACTIVE", "AWAITING_PUBLICATION", "PUBLISHED", "FAILED"}
  /\ task \in [phase : Phase, from : {"NONE", "PLANNING", "EXECUTING"},
               question : 0 .. 2 * MaxTexts, plan : 0 .. MaxLog, result : 0 .. MaxLog, asked_at : 0 .. MaxLog]
  /\ applied \subseteq [occ : Occurrence, event : Event]
  /\ failures \in 0 .. MaxFailures /\ crashes \in 0 .. MaxCrashes

(* An approval recorded as applied did cause the transition it was bound   *)
(* to: finish_input_resume never runs for a delivery that did not land.    *)
ClaimsTruthful ==
  \A e \in Event :
    input[e].status = "APPLIED" /\ input[e].occ.kind # "CLARIFICATION"
      => [occ |-> input[e].occ, event |-> e] \in applied

(* One comment does one thing: it answers one occurrence, or opens one     *)
(* review, or steers one revision, whatever is replayed after a restart.   *)
UsedOnce ==
  \A e \in Event :
    Cardinality({a \in applied : a.event = e})
      + Cardinality({e} \cap {d \in Event : review[d].status # "NONE"})
      + Cardinality({e} \cap {d \in Event : revision[d].reason = "UNSOLICITED_STEERING"}) <= 1

(* An occurrence is decided by one comment: an exact approval, written     *)
(* after the plan or result it approves and in the same conversation.      *)
AuthorityFromItsConversation ==
  \A a \in applied : a.occ.kind # "CLARIFICATION" =>
    /\ \A b \in applied : b.occ = a.occ => b = a
    /\ log[a.event].body = "approve"
    /\ log[a.event].at = log[a.occ.id].at
    /\ log[a.occ.id].body = (IF a.occ.kind = "PLAN_APPROVAL" THEN "plan" ELSE "result")
    /\ a.event > a.occ.id

(* Whatever a revision shows, does or delivers was planned after the last  *)
(* input that batch_revision_inputs put into it, as long as no worker dies *)
(* between the batch and the replan, which are two transactions.           *)
PlanCoversInputs ==
  DurablePhase \notin {"PENDING", "PLANNING", "FAILED"} /\ pc # "replan" /\ crashes = 0 =>
    \A e \in Event : revision[e].status \in {"BATCHED", "CONSUMED"} /\ revision[e].cycle = cycle
      => revision[e].batched_at < task.plan

(* A comment claimed as an answer was written after _publish_clarification *)
(* posted the question it answers.                                         *)
AskedFirst ==
  \A a \in applied : a.occ.kind = "CLARIFICATION" =>
    \E q \in 1 .. a.event : log[q].body = "question" /\ log[q].cycle = a.occ.cycle /\ log[q].id = a.occ.id

(* A task in PLANNING with no review to decide is authorized to publish    *)
(* its plan: allowed_tools leaves it a way out of the phase.               *)
PlanningHasItsGateway ==
  pc = "agent" /\ task.phase = "PLANNING" /\ TaskReviews("REVIEWING") = {}
    => "submit_plan" \in allowed_tools

(* A comment has its disposition, or the cycle failed.                     *)
Settled(e) == input[e].status \notin {"NONE", "CLAIMED"} \/ cycle_status = "FAILED"

(* Every comment record_batch stored gets its disposition: it is queued,   *)
(* delivered or dismissed, whatever the thread waits for.                  *)
InputSettled == \A e \in Event : e \in seen ~> Settled(e)

(* The comment the open wait would take next, between two ticks.           *)
NextAnswer(e) ==
  /\ pc = "idle" /\ cycle_status = "ACTIVE" /\ task.phase \in Waiting /\ ~Reviewing /\ PendingClaim = 0
  /\ e \in Candidates /\ e = Earliest(Candidates)

(* An approval that reaches the interrupt waiting for it is settled, even  *)
(* if the worker that binds it dies before or after it is applied.         *)
ApprovalDelivered ==
  \A e \in Event :
    NextAnswer(e) /\ HasInterrupt /\ task.phase # "WAITING_FOR_INPUT" ~> Settled(e)

(* The next answer to a waiting task is settled by the controller,         *)
(* whatever a restart of the worker lost.                                  *)
AnswersSurviveRestart == \A e \in Event : NextAnswer(e) ~> Settled(e)

(* Past the reconciliation of claims, a claim that is left is still        *)
(* replayable: its occurrence is the one the task waits on.  A worker that *)
(* dies with a claim of a revision's plan leaves one that steering may     *)
(* overtake, and a task that failed keeps its claim unanswered, so an      *)
(* active initial workflow is the one that is held to this.                *)
ClaimsReconciled ==
  pc = "branch" /\ cycle = 1 /\ cycle_status = "ACTIVE" /\ PendingClaim # 0
    => input[PendingClaim].occ = OpenOcc

(* Between ticks, a task in WAITING_FOR_INPUT has its question on GitHub,  *)
(* posted since request_clarification paused it.                           *)
QuestionIsAsked ==
  pc = "idle" /\ task.phase = "WAITING_FOR_INPUT" /\ HasInterrupt
    => \E q \in DOMAIN log : q > task.asked_at /\ log[q] = Question
=============================================================================
