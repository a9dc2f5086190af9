------------------------ MODULE ThreadControllerProofs ------------------------
(***************************************************************************)
(* What the controller of a thread does with people's comments, proved for *)
(* every conversation, every number of cycles, crashes and failures.       *)
(*                                                                         *)
(* None of the properties is inductive by itself.  ControllerInv adds what *)
(* they rest on: every comment with a disposition was ingested, and its    *)
(* disposition says what became of it (Disposed); a claim is bound to a    *)
(* comment of the same conversation that it follows (Bound); a decided     *)
(* occurrence is never opened again, because plans and results of a cycle  *)
(* only move forward in the log (Decided, Shown); the step the tick is at  *)
(* remembers what was true when it was taken (Underway); no plan comment   *)
(* lies ahead of the plan unless a worker died (Covered); and in the       *)
(* initial workflow at most one claim is unsettled (Single).               *)
(***************************************************************************)
EXTENDS ThreadController, TLAPS, FiniteSetTheorems, NaturalsInduction, WellFoundedInduction

Moment == {"idle", "deliver", "begin", "root", "claims", "branch", "settle", "succeed", "revise",
           "batch", "batch_successor", "successor", "steer", "replan", "wait", "drive", "close",
           "closed", "agent", "posted", "replanned", "interrupt", "reconcile", "mark", "select"}
Tool == {"NONE", "submit_plan", "finish_validation", "request_clarification", "replan", "defer"}

(* The types TypeOK leaves out: the tick under way and the interrupt.      *)
Volatile ==
  /\ pc \in Moment
  /\ resume \in [kind : {"NONE", "ANSWER", "FEEDBACK"}, event : 0 .. MaxLog]
  /\ call \in [tool : Tool, id : 0 .. MaxLog]
  /\ interrupt \in [tool : Tool, occ : Occurrence]

(* The conversation: what was ingested was written by people, the root and *)
(* the comments of a cycle are in it.                                      *)
Conversation ==
  /\ seen \subseteq DOMAIN log /\ 1 \in seen /\ root \in seen
  /\ \A e \in seen : log[e].body \in Human
  /\ \A i \in DOMAIN log : log[i].cycle <= cycle

(* A disposition is of an ingested comment, and there is only one.         *)
Disposed ==
  /\ \A e \in Event : input[e].status # "NONE" => e \in seen
  /\ \A e \in Event : input[e].status = "NONE" => input[e].occ.kind = "NONE"
  /\ \A e \in Event : input[e].status = "CLAIMED" => input[e].occ.kind # "NONE"
  /\ \A e \in Event : review[e].status # "NONE" => input[e].status = "FEEDBACK_REVIEW"
  /\ \A e \in Event : revision[e].reason = "UNSOLICITED_STEERING"
                        => input[e].status = "REVISION_QUEUED"
  /\ \A e \in Event : revision[e].status # "NONE" => e \in seen
  /\ \A e \in Event : revision[e].cycle <= cycle /\ revision[e].batched_at <= Len(log)

(* The comment e approves the plan or result occ, in its conversation.     *)
Approves(e, occ) ==
  /\ occ.id \in DOMAIN log /\ e \in DOMAIN log /\ occ.id < e
  /\ log[e].body = "approve" /\ log[e].at = log[occ.id].at
  /\ log[occ.id].body = (IF occ.kind = "PLAN_APPROVAL" THEN "plan" ELSE "result")

(* A claim of an approval is bound to what it approves.                    *)
Approval == {"PLAN_APPROVAL", "RESULT_APPROVAL"}
Bound == \A e \in Event : input[e].occ.kind \in Approval => Approves(e, input[e].occ)

(* What was decided stays behind the plan and the result of its cycle, and *)
(* is not what the task waits on.                                          *)
Decided ==
  /\ \A a \in applied :
       /\ input[a.event].status \in {"CLAIMED", "APPLIED"} /\ input[a.event].occ = a.occ
       /\ a.occ.kind # "NONE" /\ a.occ.cycle <= cycle
       /\ a.occ.cycle = cycle /\ a.occ.kind = "PLAN_APPROVAL" =>
            a.occ.id <= task.plan /\ (task.phase = "WAITING_FOR_PLAN_APPROVAL" => a.occ.id < task.plan)
       /\ a.occ.cycle = cycle /\ a.occ.kind = "RESULT_APPROVAL" =>
            a.occ.id <= task.result /\ (task.phase = "WAITING_FOR_RESULT_APPROVAL" => a.occ.id < task.result)
  /\ \A a, b \in applied : a.occ.kind \in Approval /\ b.occ = a.occ => b = a
  /\ \A e \in Event : input[e].status = "APPLIED" /\ input[e].occ.kind # "CLARIFICATION"
                        => [occ |-> input[e].occ, event |-> e] \in applied

(* The plan, the result and the question the task shows.                   *)
Shown ==
  /\ task.plan # 0 => task.plan \in DOMAIN log /\ log[task.plan] = PlanComment
  /\ task.result # 0 => task.result \in DOMAIN log /\ log[task.result] = ResultComment
  /\ task.phase = "WAITING_FOR_PLAN_APPROVAL" => task.plan # 0
  /\ task.phase = "WAITING_FOR_RESULT_APPROVAL" => task.result # 0
  /\ task.phase = "WAITING_FOR_INPUT" =>
       /\ task.from \in {"PLANNING", "EXECUTING"}
       /\ Len(log) < MaxLog \/ \E i \in DOMAIN log : log[i] = Question
  /\ pc = "posted" /\ call.tool = "submit_plan" =>
       /\ call.id \in DOMAIN log /\ log[call.id] = PlanComment /\ task.plan < call.id
       /\ task.phase = "PLANNING"
  /\ pc = "posted" /\ call.tool # "submit_plan" =>
       /\ call.tool = "finish_validation"
       /\ call.id \in DOMAIN log /\ log[call.id] = ResultComment /\ task.result < call.id
       /\ task.phase = "EXECUTING"

(* What the tick under way has found out and still holds.                  *)
Carries == [occ |-> input[resume.event].occ, event |-> resume.event]
Fresh == {"idle", "deliver", "begin", "root", "claims", "branch", "revise", "batch", "steer", "wait"}
Turn == {"close", "closed", "agent", "posted", "replanned", "interrupt", "reconcile", "mark"}
Underway ==
  /\ cycle = 0 => pc \in {"idle", "deliver", "begin"} /\ \A e \in Event : input[e].status = "NONE"
  /\ pc = "root" => input[1].status = "NONE"
  /\ pc \in {"revise", "succeed"} => PendingRevision # {}
  /\ pc \in {"batch", "batch_successor"} => task.phase = "PENDING"
  /\ pc \in {"steer", "wait"} => cycle_status = "ACTIVE"
  /\ pc = "wait" => task.phase \in Waiting
  /\ pc = "replan" => cycle > 1
  /\ pc = "replanned" => call.id \in Event /\ review[call.id].status = "REVIEWING"
  /\ pc \in Fresh => resume.kind = "NONE"
  /\ resume.kind = "ANSWER" /\ pc = "drive" =>
       /\ resume.event \in Event /\ input[resume.event].status = "CLAIMED"
       /\ input[resume.event].occ = OpenOcc /\ task.phase \in Waiting
  /\ resume.kind = "ANSWER" /\ pc \in Turn => resume.event \in Event /\ Carries \in applied

(* Unless a worker died, the last plan comment of a cycle is its plan.     *)
Batched(e) == revision[e].status \in {"BATCHED", "CONSUMED"} /\ revision[e].cycle = cycle
LastPlan == IF pc = "posted" /\ call.tool = "submit_plan" THEN call.id ELSE task.plan
Covered ==
  crashes = 0 =>
    /\ \A i \in DOMAIN log : log[i].body = "plan" /\ log[i].cycle = cycle => i <= LastPlan
    /\ pc = "posted" /\ call.tool = "submit_plan" =>
         \A e \in Event : Batched(e) => revision[e].batched_at < call.id
    /\ PlanCoversInputs

(* In the initial workflow there is one claim at a time, and one that was  *)
(* not applied still answers what the task waits on.                       *)
Claimed(e) == input[e].status = "CLAIMED"
Single ==
  cycle = 1 =>
    /\ \A e \in Event : Claimed(e) => \E i \in DOMAIN claims : claims[i] = e
    /\ \A d, e \in Event : Claimed(d) /\ Claimed(e) => d = e
    /\ cycle_status = "ACTIVE" => \A e \in Event : Claimed(e) =>
         /\ pc \in {"branch", "steer", "wait"} => input[e].occ = OpenOcc
         /\ \/ input[e].occ.kind = "CLARIFICATION"
            \/ [occ |-> input[e].occ, event |-> e] \in applied
            \/ input[e].occ = OpenOcc /\ TaskReviews("REVIEWING") = {}

ControllerInv ==
  /\ TypeOK /\ Volatile /\ Conversation /\ Disposed /\ Bound /\ Decided /\ Shown /\ Underway
  /\ Covered /\ Single

-----------------------------------------------------------------------------
(* The rows of TypeOK.                                                     *)
Comment == [body : Human \cup {"plan", "result", "question"}, at : Surface,
            cycle : 0 .. MaxCycles, id : 0 .. 2 * MaxTexts]
InputRow == [status : {"NONE", "CYCLE_ROOT", "CLAIMED", "APPLIED", "STALE",
                       "STALE_APPROVAL", "FEEDBACK_REVIEW", "REVISION_QUEUED"}, occ : Occurrence]
RevisionRow == [status : {"NONE", "PENDING", "BATCHED", "CONSUMED"},
                reason : {"NONE", "UNSOLICITED_STEERING", "DEFERRED_FEEDBACK"},
                cycle : 0 .. MaxCycles, batched_at : 0 .. MaxLog]
ReviewRow == [status : {"NONE", "REVIEWING", "DEFERRED_WAITING", "REPLAN", "CLOSED"},
              occ : Occurrence]
TaskRow == [phase : Phase, from : {"NONE", "PLANNING", "EXECUTING"},
            question : 0 .. 2 * MaxTexts, plan : 0 .. MaxLog, result : 0 .. MaxLog,
            asked_at : 0 .. MaxLog]
CycleStatus == {"NONE", "ACTIVE", "AWAITING_PUBLICATION", "PUBLISHED", "FAILED"}
Answer == [occ : Occurrence, event : Event]

(* TypeOK, in those terms.                                                 *)
LEMMA Types ==
  TypeOK <=>
    /\ log \in Seq(Comment) /\ Len(log) <= MaxLog
    /\ seen \subseteq Event /\ outbox \subseteq Event /\ claims \in Seq(Event)
    /\ input \in [Event -> InputRow] /\ revision \in [Event -> RevisionRow]
    /\ review \in [Event -> ReviewRow]
    /\ cycle \in 0 .. MaxCycles /\ root \in Event /\ cycle_status \in CycleStatus
    /\ task \in TaskRow /\ applied \subseteq Answer
    /\ failures \in 0 .. MaxFailures /\ crashes \in 0 .. MaxCrashes
BY Zenon DEF TypeOK, Comment, InputRow, RevisionRow, ReviewRow, TaskRow, CycleStatus, Answer

(* The same of the next state.                                             *)
LEMMA TypesNext ==
  TypeOK' <=>
    /\ log' \in Seq(Comment) /\ Len(log') <= MaxLog
    /\ seen' \subseteq Event /\ outbox' \subseteq Event /\ claims' \in Seq(Event)
    /\ input' \in [Event -> InputRow] /\ revision' \in [Event -> RevisionRow]
    /\ review' \in [Event -> ReviewRow]
    /\ cycle' \in 0 .. MaxCycles /\ root' \in Event /\ cycle_status' \in CycleStatus
    /\ task' \in TaskRow /\ applied' \subseteq Answer
    /\ failures' \in 0 .. MaxFailures /\ crashes' \in 0 .. MaxCrashes
BY Zenon DEF TypeOK, Comment, InputRow, RevisionRow, ReviewRow, TaskRow, CycleStatus, Answer

(* Where the comments are.                                                 *)
LEMMA Positions ==
  ASSUME TypeOK
  PROVE  /\ Len(log) \in Nat /\ Len(log) <= MaxLog /\ DOMAIN log = 1 .. Len(log)
         /\ \A i \in DOMAIN log : log[i] \in Comment
         /\ DOMAIN log \subseteq Event /\ Event \subseteq Nat /\ ~(0 \in Event) /\ 1 \in Event
         /\ \A n : n \in DOMAIN log => n \in Nat /\ n <= MaxLog
<1>1. log \in Seq(Comment) /\ Len(log) <= MaxLog
  BY Types
<1>2. MaxLog \in Nat \ {0}
  BY ControllerBounds
<1>3. Len(log) \in Nat /\ DOMAIN log = 1 .. Len(log) /\ \A i \in DOMAIN log : log[i] \in Comment
  BY <1>1
<1> QED BY <1>1, <1>2, <1>3 DEF Event

(* A set of positions that is not empty has an earliest member.            *)
LEMMA EarliestIsLeast ==
  ASSUME NEW E, E \subseteq Nat, E # {}
  PROVE  Earliest(E) \in E /\ \A d \in E : Earliest(E) <= d
<1> DEFINE R == OpToRel(<, Nat)
<1>1. IsWellFoundedOn(R, Nat)
  BY NatLessThanWellFounded
<1>2. \A d, c \in Nat : d < c => <<d, c>> \in R
  BY DEF OpToRel
<1> HIDE DEF R
<1>3. PICK k \in E : \A d \in E : ~(<<d, k>> \in R)
  BY <1>1, WFMin, Zenon
<1>4. \A d \in E : k <= d
  <2> SUFFICES ASSUME NEW d \in E PROVE k <= d
    OBVIOUS
  <2>1. k \in Nat /\ d \in Nat
    OBVIOUS
  <2>2. ~(d < k)
    BY <2>1, <1>2, <1>3, Zenon
  <2> QED BY <2>1, <2>2
<1> QED BY <1>4, Zenon DEF Earliest

(* The claim the reconciliation looks at, if there is one, is unsettled.   *)
LEMMA ClaimFound ==
  ASSUME TypeOK
  PROVE  /\ PendingClaim # 0 => PendingClaim \in Event /\ Claimed(PendingClaim)
         /\ \A i \in DOMAIN claims : Claimed(claims[i]) => PendingClaim # 0
<1>1. claims \in Seq(Event) /\ ~(0 \in Event) /\ DOMAIN claims = 1 .. Len(claims) /\ Len(claims) \in Nat
  BY Types, Positions
<1>2. PendingClaims \subseteq Nat /\ PendingClaims \subseteq DOMAIN claims
  BY <1>1 DEF PendingClaims
<1>3. ASSUME PendingClaims # {}
      PROVE  PendingClaim \in Event /\ Claimed(PendingClaim) /\ PendingClaim # 0
  <2>1. Earliest(PendingClaims) \in PendingClaims
    BY <1>2, <1>3, EarliestIsLeast
  <2>2. PendingClaim = claims[Earliest(PendingClaims)]
    BY <1>3 DEF PendingClaim
  <2> QED BY <1>1, <1>2, <2>1, <2>2 DEF PendingClaims, Claimed
<1>4. PendingClaims = {} => PendingClaim = 0
  BY DEF PendingClaim
<1>5. \A i \in DOMAIN claims : Claimed(claims[i]) => i \in PendingClaims
  BY <1>1 DEF PendingClaims, Claimed
<1> QED BY <1>3, <1>4, <1>5

(* What the task waits on, by its phase.                                   *)
LEMMA Opens ==
  ASSUME TypeOK
  PROVE  /\ OpenOcc \in Occurrence /\ (OpenOcc # NoOcc <=> task.phase \in Waiting)
         /\ (OpenOcc.kind = "PLAN_APPROVAL" <=> task.phase = "WAITING_FOR_PLAN_APPROVAL")
         /\ (OpenOcc.kind = "RESULT_APPROVAL" <=> task.phase = "WAITING_FOR_RESULT_APPROVAL")
         /\ (OpenOcc.kind = "CLARIFICATION" <=> task.phase = "WAITING_FOR_INPUT")
         /\ (OpenOcc.kind = "NONE" <=> task.phase \notin Waiting)
         /\ (task.phase \in Waiting => OpenOcc.cycle = cycle)
         /\ (task.phase = "WAITING_FOR_PLAN_APPROVAL" => OpenOcc.id = task.plan)
         /\ (task.phase = "WAITING_FOR_RESULT_APPROVAL" => OpenOcc.id = task.result)
         /\ (task.phase \in {"WAITING_FOR_PLAN_APPROVAL", "WAITING_FOR_RESULT_APPROVAL"} =>
               Threshold = OpenOcc.id)
<1>1. task \in TaskRow /\ cycle \in 0 .. MaxCycles
  BY Types
<1>2. task.question \in Nat /\ task.plan \in Nat /\ task.result \in Nat
  BY <1>1, ControllerBounds DEF TaskRow
<1>3. CASE task.phase = "WAITING_FOR_PLAN_APPROVAL"
  <2>1. OpenOcc = PlanOcc
    BY <1>3 DEF OpenOcc
  <2> QED BY <1>1, <1>2, <1>3, <2>1 DEF PlanOcc, Occurrence, Waiting, NoOcc, Threshold
<1>4. CASE task.phase = "WAITING_FOR_RESULT_APPROVAL"
  <2>1. OpenOcc = ResultOcc
    BY <1>4 DEF OpenOcc
  <2> QED BY <1>1, <1>2, <1>4, <2>1 DEF ResultOcc, Occurrence, Waiting, NoOcc, Threshold
<1>5. CASE task.phase = "WAITING_FOR_INPUT"
  <2>1. OpenOcc = QuestionOcc
    BY <1>5 DEF OpenOcc
  <2> QED BY <1>1, <1>2, <1>5, <2>1 DEF QuestionOcc, Occurrence, Waiting, NoOcc, Threshold
<1>6. CASE task.phase \notin Waiting
  <2>1. OpenOcc = NoOcc
    BY <1>6 DEF OpenOcc, Waiting
  <2> QED BY <1>1, <1>2, <1>6, <2>1, ControllerBounds DEF Occurrence, Waiting, NoOcc
<1> QED BY <1>3, <1>4, <1>5, <1>6 DEF Waiting

-----------------------------------------------------------------------------
(* What is recorded, on GitHub and in the database, but for the outbox.    *)
record == <<log, seen, input, claims, revision, review, cycleVars, task, applied>>
recorded == <<record, crashes>>

(* What is said of the record alone is kept when only the tick moves.      *)
LEMMA RecordKept ==
  ASSUME ControllerInv, UNCHANGED record, outbox' \subseteq Event, failures' \in 0 .. MaxFailures,
         crashes' \in 0 .. MaxCrashes
  PROVE  /\ TypeOK' /\ Conversation' /\ Disposed' /\ Bound' /\ Decided' /\ OpenOcc' = OpenOcc
         /\ PlanComment' = PlanComment /\ ResultComment' = ResultComment /\ Question' = Question
         /\ PendingRevision' = PendingRevision /\ DurablePhase' = DurablePhase
         /\ \A s : TaskReviews(s)' = TaskReviews(s)
<1> USE DEF record, cycleVars
<1>1. TypeOK'
  BY Types, TypesNext DEF ControllerInv
<1>2. Conversation' /\ Disposed'
  BY DEF ControllerInv, Conversation, Disposed
<1>3. Bound' /\ Decided'
  BY DEF ControllerInv, Bound, Approves, Decided
<1>4. OpenOcc' = OpenOcc /\ PlanComment' = PlanComment /\ ResultComment' = ResultComment
  BY DEF OpenOcc, PlanOcc, ResultOcc, QuestionOcc, PlanComment, ResultComment
<1>5. Question' = Question /\ PendingRevision' = PendingRevision /\ DurablePhase' = DurablePhase
      /\ \A s : TaskReviews(s)' = TaskReviews(s)
  BY DEF Question, PendingRevision, DurablePhase, TaskReviews
<1> QED BY <1>1, <1>2, <1>3, <1>4, <1>5

(* A step that only moves the tick, and not to or from a posted comment.   *)
LEMMA TickMoves ==
  ASSUME ControllerInv, UNCHANGED recorded, outbox' \subseteq Event, failures' \in 0 .. MaxFailures,
         pc \notin {"posted", "replan"}, pc' # "posted",
         pc' \in {"branch", "steer", "wait"} => pc \in {"branch", "steer", "wait"},
         Volatile', Underway'
  PROVE  ControllerInv'
<1>1. /\ TypeOK' /\ Conversation' /\ Disposed' /\ Bound' /\ Decided' /\ OpenOcc' = OpenOcc
      /\ PlanComment' = PlanComment /\ ResultComment' = ResultComment /\ Question' = Question
      /\ DurablePhase' = DurablePhase /\ \A s : TaskReviews(s)' = TaskReviews(s)
  BY RecordKept, Types DEF recorded, ControllerInv
<1>2. UNCHANGED <<log, input, claims, revision, cycle, cycle_status, task, applied, crashes>>
  BY DEF recorded, record, cycleVars
<1>3. Shown'
  BY <1>1, <1>2 DEF ControllerInv, Shown
<1>4. Covered'
  <2>1. LastPlan' = LastPlan /\ \A e \in Event : Batched(e)' = Batched(e)
    BY <1>2 DEF LastPlan, Batched
  <2>2. PlanCoversInputs => PlanCoversInputs'
    BY <1>1, <1>2 DEF PlanCoversInputs
  <2> QED BY <1>2, <2>1, <2>2 DEF ControllerInv, Covered
<1>5. Single'
  BY <1>1, <1>2 DEF ControllerInv, Single, Claimed
<1> QED BY <1>1, <1>3, <1>4, <1>5 DEF ControllerInv

(* A tick that stands between two ticks owes nothing.                      *)
LEMMA IdleOwesNothing ==
  ASSUME pc' = "idle", resume'.kind = "NONE", cycle = 0 => \A e \in Event : input[e].status = "NONE",
         cycle' = 0 => cycle = 0, cycle' = 0 => input' = input
  PROVE  Underway'
BY DEF Underway, Turn, Fresh

(* The tick ends.                                                          *)
LEMMA Ends ==
  ASSUME ControllerInv, UNCHANGED recorded, outbox' \subseteq Event, EndTick,
         pc \notin {"posted", "replan"}, interrupt' = interrupt
  PROVE  ControllerInv'
<1>1. failures' \in 0 .. MaxFailures
  BY Types, ControllerBounds DEF EndTick, ControllerInv
<1>2. Volatile'
  BY Positions, ControllerBounds
     DEF EndTick, Forget, ControllerInv, Volatile, NoResume, NoCall, Moment, Tool
<1>3. Underway'
  BY IdleOwesNothing DEF EndTick, Forget, NoResume, ControllerInv, Underway, recorded, record, cycleVars
<1> QED BY <1>1, <1>2, <1>3, TickMoves DEF EndTick

(* The tick goes on; what it remembers of the step before is kept.         *)
LEMMA GoesOn ==
  ASSUME ControllerInv, UNCHANGED recorded, outbox' \subseteq Event, failures' = failures,
         NEW step \in Moment, pc' = step, interrupt' \in [tool : Tool, occ : Occurrence],
         call' \in [tool : Tool, id : 0 .. MaxLog],
         resume' \in [kind : {"NONE", "ANSWER", "FEEDBACK"}, event : 0 .. MaxLog],
         resume' # resume => step = "drive" /\ resume'.kind # "ANSWER",
         pc \notin {"posted", "replan"},
         step \notin {"posted", "root", "batch", "batch_successor", "replan", "replanned"},
         step \in {"branch", "steer", "wait"} =>
           pc \in {"branch", "steer", "wait"} /\ cycle_status = "ACTIVE",
         step \in {"revise", "succeed"} => PendingRevision # {},
         step = "wait" => task.phase \in Waiting,
         step \in Fresh => pc \in Fresh,
         step \in Turn => pc \in Turn \/ resume.kind # "ANSWER",
         step = "drive" => resume'.kind # "ANSWER",
         cycle = 0 => step \in {"idle", "deliver", "begin"}
  PROVE  ControllerInv'
<1>1. /\ UNCHANGED <<input, cycle, cycle_status, task, applied>>
      /\ PendingRevision' = PendingRevision /\ OpenOcc' = OpenOcc
  BY RecordKept, Types DEF recorded, record, cycleVars, ControllerInv
<1>2. Volatile'
  BY DEF ControllerInv, Volatile
<1>3. Underway'
  BY <1>1 DEF ControllerInv, Underway, Carries, Fresh, Turn
<1>4. failures' \in 0 .. MaxFailures
  BY Types DEF ControllerInv
<1> QED BY <1>1, <1>2, <1>3, <1>4, TickMoves

(* What a step finds in the record and the tick.                           *)
LEMMA Finds ==
  ASSUME ControllerInv
  PROVE  /\ TypeOK /\ Volatile /\ outbox \subseteq Event /\ NoInterrupt \in [tool : Tool, occ : Occurrence]
         /\ pc \in Moment /\ call \in [tool : Tool, id : 0 .. MaxLog]
         /\ resume \in [kind : {"NONE", "ANSWER", "FEEDBACK"}, event : 0 .. MaxLog]
         /\ interrupt \in [tool : Tool, occ : Occurrence] /\ 0 \in 0 .. MaxLog
         /\ cycle = 0 => pc \in {"idle", "deliver", "begin"}
         /\ pc \in Fresh => resume.kind = "NONE"
<1>1. TypeOK /\ Volatile /\ Underway /\ outbox \subseteq Event
  BY Types DEF ControllerInv
<1>2. NoInterrupt \in [tool : Tool, occ : Occurrence] /\ 0 \in 0 .. MaxLog
  BY ControllerBounds DEF NoInterrupt, NoOcc, Occurrence, Tool
<1> QED BY <1>1, <1>2 DEF Volatile, Underway

(* deliver_pending_workflow_comments posts what is due.                    *)
LEMMA Delivers ==
  ASSUME ControllerInv, deliver_pending_workflow_comments
  PROVE  ControllerInv'
BY Finds, GoesOn DEF deliver_pending_workflow_comments, Goto, recorded, record, Moment, Fresh, Turn

(* The controller reads its cycle.                                         *)
LEMMA ReadsCycle ==
  ASSUME ControllerInv, continue_cycle \/ cycle_failed \/ cycle_awaits_publication
  PROVE  ControllerInv'
<1>1. CASE continue_cycle
  <2>1. UNCHANGED <<log, inboxVars, cycleVars, task, applied, interrupt, crashes>>
        /\ pc = "begin" /\ cycle # 0
    BY <1>1 DEF continue_cycle
  <2>2. CASE cycle_status # "PUBLISHED"
    <3>1. Goto("claims")
      BY <1>1, <2>2 DEF continue_cycle
    <3> QED BY <2>1, <3>1, Finds, GoesOn DEF Goto, inboxVars, recorded, record, Moment, Fresh, Turn
  <2>3. CASE cycle_status = "PUBLISHED" /\ PendingRevision # {}
    <3>1. Goto("revise")
      BY <1>1, <2>3 DEF continue_cycle
    <3> QED BY <2>1, <2>3, <3>1, Finds, GoesOn DEF Goto, inboxVars, recorded, record, Moment, Fresh, Turn
  <2>4. CASE cycle_status = "PUBLISHED" /\ PendingRevision = {}
    <3>1. EndTick
      BY <1>1, <2>4 DEF continue_cycle
    <3> QED BY <2>1, <3>1, Ends, Finds DEF inboxVars, recorded, record
  <2> QED BY <2>2, <2>3, <2>4
<1>2. CASE cycle_failed
  BY <1>2, Ends, Finds DEF cycle_failed, inboxVars, recorded, record
<1>3. CASE cycle_awaits_publication
  BY <1>3, Finds, GoesOn
     DEF cycle_awaits_publication, Goto, inboxVars, recorded, record, Moment, Fresh, Turn
<1> QED BY <1>1, <1>2, <1>3

(* Without steering the tick goes on to wait or to drive the agent.        *)
LEMMA NoSteering ==
  ASSUME ControllerInv, no_steering \/ end_of_tick
  PROVE  ControllerInv'
<1>1. CASE no_steering
  <2>1. cycle_status = "ACTIVE" /\ resume.kind = "NONE"
    BY <1>1, Finds DEF ControllerInv, Underway, no_steering, Fresh
  <2>2. CASE task.phase \in Waiting
    BY <1>1, <2>1, <2>2, Finds, GoesOn
       DEF no_steering, Goto, inboxVars, recorded, record, Moment, Fresh, Turn
  <2>3. CASE task.phase \notin Waiting
    BY <1>1, <2>1, <2>3, Finds, GoesOn
       DEF no_steering, Goto, inboxVars, recorded, record, Moment, Fresh, Turn
  <2> QED BY <2>2, <2>3
<1>2. CASE end_of_tick
  BY <1>2, Ends, Finds DEF end_of_tick, inboxVars, recorded, record
<1> QED BY <1>1, <1>2

(* A review that waits, or a deferral whose interrupt was lost.            *)
LEMMA WaitsForReview ==
  ASSUME ControllerInv, wait_review \/ recover_deferred_review
  PROVE  ControllerInv'
<1>1. PICK kind \in {"NONE", "FEEDBACK"}, e \in 0 .. MaxLog : Drive(kind, e)
  <2>1. CASE wait_review
    <3>1. TaskReviews("REVIEWING") # {} /\ TaskReviews("REVIEWING") \subseteq Event
      BY <2>1 DEF wait_review, Reviewing, TaskReviews
    <3>2. Earliest(TaskReviews("REVIEWING")) \in 0 .. MaxLog
      BY <3>1, EarliestIsLeast, ControllerBounds DEF Event
    <3> QED BY <2>1, <3>2, Finds DEF wait_review
  <2>2. CASE recover_deferred_review
    BY <2>2, Finds DEF recover_deferred_review
  <2> QED BY <2>1, <2>2
<1>2. UNCHANGED <<log, inboxVars, cycleVars, task, applied, interrupt, crashes>> /\ pc = "wait"
  BY DEF wait_review, recover_deferred_review, NothingToDeliver
<1> QED BY <1>1, <1>2, Finds, GoesOn DEF Drive, inboxVars, recorded, record, Moment, Fresh, Turn

(* A prompt, or a review handed to the agent.                              *)
LEMMA Prompts ==
  ASSUME ControllerInv, prompt_agent \/ deliver_feedback \/ deliver_next_feedback
  PROVE  ControllerInv'
<1>1. /\ UNCHANGED <<log, inboxVars, cycleVars, task, applied, call, crashes, resume, failures>>
      /\ pc' = "agent" /\ interrupt' = NoInterrupt
      /\ (pc = "drive" /\ resume.kind # "ANSWER") \/ pc = "closed"
  BY DEF prompt_agent, deliver_feedback, deliver_next_feedback, Invoke, Goto
<1> QED BY <1>1, Finds, GoesOn DEF inboxVars, recorded, record, Moment, Fresh, Turn

(* A gateway waits again; a turn stops.                                    *)
LEMMA WaitsAgain ==
  ASSUME ControllerInv,
         \/ wait_again("submit_plan", "WAITING_FOR_PLAN_APPROVAL")
         \/ wait_again("finish_validation", "WAITING_FOR_RESULT_APPROVAL")
         \/ defer_again \/ agent_stops
  PROVE  ControllerInv'
<1>1. CASE agent_stops
  BY <1>1, Finds, GoesOn DEF agent_stops, Goto, inboxVars, recorded, record, Moment, Fresh, Turn
<1>2. CASE ~agent_stops
  <2>1. PICK tool \in Tool : Call(tool, 0, "interrupt")
    BY <1>2 DEF wait_again, defer_again, Tool
  <2>2. UNCHANGED <<log, inboxVars, cycleVars, task, applied, interrupt, crashes>> /\ pc = "agent"
    BY <1>2 DEF wait_again, defer_again, Calls
  <2> QED BY <2>1, <2>2, Finds, GoesOn DEF Call, inboxVars, recorded, record, Moment, Fresh, Turn
<1> QED BY <1>1, <1>2

(* The interrupt becomes durable.                                          *)
LEMMA Checkpoints ==
  ASSUME ControllerInv, checkpoint_interrupt
  PROVE  ControllerInv'
<1>1. GatewayOcc \in Occurrence
  <2>1. task \in TaskRow /\ cycle \in 0 .. MaxCycles /\ TypeOK
    BY Types DEF ControllerInv
  <2>2. PlanOcc \in Occurrence /\ ResultOcc \in Occurrence
    BY <2>1, ControllerBounds DEF PlanOcc, ResultOcc, Occurrence, TaskRow
  <2> QED BY <2>1, <2>2, Opens DEF GatewayOcc
<1>2. interrupt' \in [tool : Tool, occ : Occurrence] /\ outbox' \subseteq Event
  BY <1>1, Finds DEF checkpoint_interrupt
<1> QED BY <1>2, Finds, GoesOn DEF checkpoint_interrupt, Goto, recorded, record, Moment, Fresh, Turn

(* A claim an earlier worker left is delivered to the interrupt.           *)
LEMMA Replays ==
  ASSUME ControllerInv, _claimed_resume
  PROVE  ControllerInv'
<1>1. PendingClaim \in Event /\ Claimed(PendingClaim) /\ input[PendingClaim].occ = OpenOcc
  BY Finds, ClaimFound DEF _claimed_resume, Replayable
<1>2. task.phase \in Waiting
  BY Finds, Opens DEF _claimed_resume, Replayable, HasInterrupt
<1>3. /\ pc = "wait" /\ pc' = "drive" /\ resume' = [kind |-> "ANSWER", event |-> PendingClaim]
      /\ UNCHANGED <<call, interrupt, failures, outbox>> /\ UNCHANGED recorded
  BY DEF _claimed_resume, Drive, inboxVars, recorded, record
<1>4. /\ OpenOcc' = OpenOcc /\ UNCHANGED <<input, cycle, task, cycle_status, applied>>
      /\ PendingRevision' = PendingRevision
  BY <1>3, Finds, RecordKept, Types DEF recorded, record, cycleVars, ControllerInv
<1>5. Volatile'
  BY <1>1, <1>3, Finds, ControllerBounds DEF Volatile, Moment, Event
<1>6. Underway'
  BY <1>1, <1>2, <1>3, <1>4, Finds DEF Underway, Fresh, Turn, Claimed
<1> QED BY <1>3, <1>5, <1>6, Finds, Types, TickMoves DEF ControllerInv

(* The worker dies: from now on nothing is claimed of the plans it posted. *)
LEMMA Dies ==
  ASSUME ControllerInv, Crash
  PROVE  ControllerInv'
<1>1. /\ UNCHANGED record /\ UNCHANGED <<outbox, interrupt, failures>> /\ crashes' = crashes + 1
      /\ pc' = "idle" /\ resume' = NoResume /\ call' = NoCall
  BY DEF Crash, Forget, inboxVars, record
<1>2. crashes \in 0 .. MaxCrashes /\ crashes' \in 0 .. MaxCrashes
  BY Types, ControllerBounds DEF ControllerInv, Crash
<1>3. /\ TypeOK' /\ Conversation' /\ Disposed' /\ Bound' /\ Decided' /\ OpenOcc' = OpenOcc
      /\ PlanComment' = PlanComment /\ ResultComment' = ResultComment /\ Question' = Question
      /\ \A s : TaskReviews(s)' = TaskReviews(s)
  BY <1>1, <1>2, Finds, RecordKept, Types DEF ControllerInv
<1>4. UNCHANGED <<log, input, claims, revision, cycle, cycle_status, task, applied>>
  BY <1>1 DEF record, cycleVars
<1>5. Volatile'
  BY <1>1, Finds DEF Volatile, Moment, NoResume, NoCall, Tool
<1>6. Underway'
  BY <1>1, <1>4, IdleOwesNothing DEF ControllerInv, Underway, NoResume
<1>7. Shown'
  BY <1>1, <1>3, <1>4 DEF ControllerInv, Shown
<1>8. Covered'
  BY <1>1, <1>2 DEF Covered
<1>9. Single'
  BY <1>1, <1>3, <1>4 DEF ControllerInv, Single, Claimed
<1> QED BY <1>3, <1>5, <1>6, <1>7, <1>8, <1>9 DEF ControllerInv

(* A tick that raises: at the limit its task fails, and a review that met  *)
(* a closed deferral has become a deferred input.                          *)
LEMMA Raises ==
  ASSUME ControllerInv, pc \notin {"posted", "replan"}, pc' = "idle", Forget,
         UNCHANGED <<log, seen, input, claims, outbox, cycle, root, applied, interrupt, crashes>>,
         failures' \in 0 .. MaxFailures,
         \/ UNCHANGED <<task, cycle_status>>
         \/ task' = [task EXCEPT !.phase = "FAILED"] /\ cycle_status' = "FAILED",
         revision' \in [Event -> RevisionRow], review' \in [Event -> ReviewRow],
         \A e \in Event :
           /\ UNCHANGED <<revision[e].cycle, revision[e].batched_at, review[e].occ>>
           /\ \/ UNCHANGED <<revision[e], review[e]>>
              \/ /\ review[e].status = "REVIEWING" /\ review'[e].status = "CLOSED"
                 /\ revision'[e].status = "PENDING" /\ revision'[e].reason = "DEFERRED_FEEDBACK"
  PROVE  ControllerInv'
<1>0. TypeOK /\ task \in TaskRow
  BY Types DEF ControllerInv
<1>1. task' \in TaskRow /\ cycle_status' \in CycleStatus
      /\ UNCHANGED <<task.plan, task.result, task.from, task.question>>
      /\ (task'.phase = task.phase \/ task'.phase = "FAILED")
      /\ (cycle_status' = "ACTIVE" => cycle_status = "ACTIVE" /\ task' = task)
  BY <1>0, Types DEF TaskRow, Phase, CycleStatus
<1>2. TypeOK'
  BY <1>0, <1>1, Types, TypesNext
<1>3. Volatile' /\ Underway'
  BY Finds, IdleOwesNothing DEF Forget, ControllerInv, Volatile, Underway, Moment, NoResume, NoCall, Tool
<1>4. Conversation' /\ Bound'
  BY DEF ControllerInv, Conversation, Bound, Approves
<1>5. Disposed'
  BY DEF ControllerInv, Disposed
<1>6. Decided'
  BY <1>1 DEF ControllerInv, Decided
<1>7. Shown'
  BY <1>1 DEF ControllerInv, Shown, PlanComment, ResultComment, Question
<1>8. Covered'
  <2>1. \A e \in Event : Batched(e)' => Batched(e)
    BY DEF Batched
  <2>2. DurablePhase' = DurablePhase \/ DurablePhase' = "FAILED"
    BY <1>1 DEF DurablePhase
  <2>3. PlanCoversInputs => PlanCoversInputs'
    BY <1>1, <2>1, <2>2 DEF PlanCoversInputs, Batched
  <2>4. LastPlan' = LastPlan
    BY <1>1 DEF LastPlan
  <2> QED BY <2>3, <2>4 DEF ControllerInv, Covered
<1>9. Single'
  <2>1. TaskReviews("REVIEWING")' \subseteq TaskReviews("REVIEWING")
    BY DEF TaskReviews
  <2>2. cycle_status' = "ACTIVE" => OpenOcc' = OpenOcc
    BY <1>1 DEF OpenOcc, PlanOcc, ResultOcc, QuestionOcc
  <2> QED BY <1>1, <2>1, <2>2 DEF ControllerInv, Single, Claimed
<1> QED BY <1>2, <1>3, <1>4, <1>5, <1>6, <1>7, <1>8, <1>9 DEF ControllerInv

(* A stale review, and a turn that stops without having moved its task.    *)
LEMMA RaiseTicks ==
  ASSUME ControllerInv, wait_stale_review \/ agent_fails
  PROVE  ControllerInv'
<1>1. RaiseTick /\ pc \notin {"posted", "replan"}
  BY DEF wait_stale_review, agent_fails
<1>2. /\ failures' = (IF failures < MaxFailures THEN failures + 1 ELSE failures)
      /\ cycle_status' = (IF failures + 1 >= MaxFailures /\ cycle_status = "ACTIVE" THEN "FAILED" ELSE cycle_status)
      /\ task' = (IF failures + 1 >= MaxFailures /\ cycle_status = "ACTIVE" THEN [task EXCEPT !.phase = "FAILED"] ELSE task)
      /\ UNCHANGED <<log, inboxVars, cycle, root, applied, interrupt, crashes>>
      /\ pc' = "idle" /\ Forget
  BY <1>1 DEF RaiseTick, RaiseWith
<1>3. failures' \in 0 .. MaxFailures /\ revision \in [Event -> RevisionRow]
      /\ review \in [Event -> ReviewRow]
  BY <1>2, Types, ControllerBounds DEF ControllerInv
<1> QED BY <1>1, <1>2, <1>3, Raises DEF inboxVars

(* A deferral gateway whose review was closed by a worker that died.       *)
LEMMA MeetsClosedDeferral ==
  ASSUME ControllerInv, resume_closed_deferral
  PROVE  ControllerInv'
<1> DEFINE E == TaskReviews("REVIEWING")
<1>1. /\ failures' = (IF failures < MaxFailures THEN failures + 1 ELSE failures)
      /\ cycle_status' = (IF failures + 1 >= MaxFailures /\ cycle_status = "ACTIVE" THEN "FAILED" ELSE cycle_status)
      /\ task' = (IF failures + 1 >= MaxFailures /\ cycle_status = "ACTIVE" THEN [task EXCEPT !.phase = "FAILED"] ELSE task)
      /\ UNCHANGED <<log, seen, input, claims, outbox, cycle, root, applied, interrupt, crashes>>
      /\ pc' = "idle" /\ Forget /\ pc = "drive"
  BY DEF resume_closed_deferral, RaiseWith
<1>2. /\ revision' = [e \in Event |->
           IF e \in E
           THEN [revision[e] EXCEPT !.status = "PENDING", !.reason = "DEFERRED_FEEDBACK"]
           ELSE revision[e]]
      /\ review' = [e \in Event |->
           IF e \in E THEN [review[e] EXCEPT !.status = "CLOSED"] ELSE review[e]]
  BY DEF resume_closed_deferral
<1>3. failures' \in 0 .. MaxFailures /\ revision \in [Event -> RevisionRow]
      /\ review \in [Event -> ReviewRow] /\ \A e \in E : review[e].status = "REVIEWING"
  BY <1>1, Types, ControllerBounds DEF ControllerInv, TaskReviews
<1> HIDE DEF E
<1>4. ASSUME NEW e \in Event
      PROVE  /\ revision'[e] \in RevisionRow /\ review'[e] \in ReviewRow
             /\ UNCHANGED <<revision[e].cycle, revision[e].batched_at, review[e].occ>>
             /\ \/ UNCHANGED <<revision[e], review[e]>>
                \/ /\ review[e].status = "REVIEWING" /\ review'[e].status = "CLOSED"
                   /\ revision'[e].status = "PENDING" /\ revision'[e].reason = "DEFERRED_FEEDBACK"
  <2>1. revision[e] \in RevisionRow /\ review[e] \in ReviewRow
    BY <1>3
  <2>2. CASE e \in E
    <3>1. revision'[e] = [revision[e] EXCEPT !.status = "PENDING", !.reason = "DEFERRED_FEEDBACK"]
      BY <1>2, <2>2
    <3>2. review'[e] = [review[e] EXCEPT !.status = "CLOSED"]
      BY <1>2, <2>2
    <3>3. /\ revision'[e] \in RevisionRow /\ revision'[e].status = "PENDING"
          /\ revision'[e].reason = "DEFERRED_FEEDBACK"
          /\ UNCHANGED <<revision[e].cycle, revision[e].batched_at>>
      BY <2>1, <3>1 DEF RevisionRow
    <3>4. review'[e] \in ReviewRow /\ review'[e].status = "CLOSED" /\ UNCHANGED <<review[e].occ>>
      BY <2>1, <3>2 DEF ReviewRow
    <3> QED BY <1>3, <2>2, <3>3, <3>4
  <2>3. CASE e \notin E
    BY <1>2, <2>1, <2>3
  <2> QED BY <2>2, <2>3
<1>5. revision' \in [Event -> RevisionRow] /\ review' \in [Event -> ReviewRow]
  <2> DEFINE Input(e) == IF e \in E
                         THEN [revision[e] EXCEPT !.status = "PENDING", !.reason = "DEFERRED_FEEDBACK"]
                         ELSE revision[e]
             Review(e) == IF e \in E THEN [review[e] EXCEPT !.status = "CLOSED"] ELSE review[e]
  <2>1. revision' = [e \in Event |-> Input(e)] /\ review' = [e \in Event |-> Review(e)]
    BY <1>2
  <2> HIDE DEF Input, Review
  <2> QED BY <1>4, <2>1
<1> QED BY <1>1, <1>3, <1>4, <1>5, Raises

(* Publication of the cycle.                                               *)
LEMMA Publishes ==
  ASSUME ControllerInv, publish
  PROVE  ControllerInv'
<1>1. /\ UNCHANGED <<log, seen, input, claims, revision, review, outbox, cycle, root, task>>
      /\ UNCHANGED <<applied, interrupt, pc, resume, call, failures, crashes>>
      /\ cycle_status' = "PUBLISHED" /\ pc = "idle"
  BY DEF publish, inboxVars, tickVars
<1>2. TypeOK' /\ Volatile'
  BY <1>1, Types, TypesNext DEF ControllerInv, Volatile, CycleStatus
<1>3. Conversation' /\ Disposed' /\ Bound' /\ Decided'
  BY <1>1 DEF ControllerInv, Conversation, Disposed, Bound, Approves, Decided
<1>4. Shown' /\ Underway'
  BY <1>1 DEF ControllerInv, Shown, Underway, PlanComment, ResultComment, Question, Fresh, Turn
<1>5. Covered'
  BY <1>1 DEF ControllerInv, Covered, LastPlan, Batched, PlanCoversInputs, DurablePhase
<1>6. Single'
  BY <1>1 DEF ControllerInv, Single, Claimed
<1> QED BY <1>2, <1>3, <1>4, <1>5, <1>6 DEF ControllerInv

-----------------------------------------------------------------------------
(* Everything that is recorded but the conversation.                       *)
rows == <<seen, input, claims, revision, review, outbox, cycleVars, task, applied, crashes>>

(* A comment is added, and nothing recorded before it changes.             *)
LEMMA Grows ==
  ASSUME ControllerInv, NEW c \in Comment, c.cycle <= cycle, Len(log) < MaxLog,
         log' = Append(log, c), UNCHANGED rows, failures' \in 0 .. MaxFailures
  PROVE  /\ TypeOK' /\ Conversation' /\ Disposed' /\ Bound' /\ Decided'
         /\ Len(log') = Len(log) + 1 /\ DOMAIN log' = DOMAIN log \cup {Len(log) + 1}
         /\ log'[Len(log) + 1] = c /\ \A i \in DOMAIN log : log'[i] = log[i]
         /\ OpenOcc' = OpenOcc /\ PlanComment' = PlanComment /\ ResultComment' = ResultComment
         /\ Question' = Question /\ DurablePhase' = DurablePhase
         /\ PendingRevision' = PendingRevision /\ \A s : TaskReviews(s)' = TaskReviews(s)
<1>0. TypeOK /\ log \in Seq(Comment) /\ Len(log) \in Nat /\ DOMAIN log = 1 .. Len(log)
  BY Types, Positions DEF ControllerInv
<1>1. /\ log' \in Seq(Comment) /\ Len(log') = Len(log) + 1
      /\ DOMAIN log' = DOMAIN log \cup {Len(log) + 1}
      /\ log'[Len(log) + 1] = c /\ \A i \in DOMAIN log : log'[i] = log[i]
  BY <1>0
<1>2. UNCHANGED <<seen, input, claims, revision, review, outbox, cycle, cycle_status, root, task,
                  applied, crashes>>
  BY DEF rows, cycleVars
<1>3. TypeOK'
  BY <1>0, <1>1, <1>2, Types, TypesNext, ControllerBounds
<1>4. root \in DOMAIN log /\ seen \subseteq DOMAIN log
  BY DEF ControllerInv, Conversation
<1>5. Conversation'
  BY <1>1, <1>2, <1>4 DEF ControllerInv, Conversation
<1>6. Disposed'
  <2>1. \A e \in Event : revision[e].batched_at \in Nat /\ revision[e].batched_at <= Len(log)
    BY <1>0, Types, ControllerBounds DEF ControllerInv, Disposed, RevisionRow
  <2>2. \A e \in Event : revision[e].batched_at <= Len(log')
    BY <2>1, <1>0, <1>1
  <2> QED BY <2>2, <1>2 DEF ControllerInv, Disposed
<1>7. Bound'
  BY <1>1, <1>2 DEF ControllerInv, Bound, Approves
<1>8. Decided'
  BY <1>2 DEF ControllerInv, Decided
<1>9. OpenOcc' = OpenOcc
  BY <1>2, Zenon DEF OpenOcc, PlanOcc, ResultOcc, QuestionOcc
<1>10. PlanComment' = PlanComment /\ ResultComment' = ResultComment /\ Question' = Question
  BY <1>1, <1>2, <1>4 DEF PlanComment, ResultComment, Question
<1>11. DurablePhase' = DurablePhase /\ PendingRevision' = PendingRevision
       /\ \A s : TaskReviews(s)' = TaskReviews(s)
  BY <1>2 DEF DurablePhase, PendingRevision, TaskReviews
<1> QED BY <1>1, <1>3, <1>5, <1>6, <1>7, <1>8, <1>9, <1>10, <1>11

(* What a growing conversation leaves of the rest, if the tick does not    *)
(* come to a branch or a wait that it was not at.                          *)
LEMMA GrowsSingle ==
  ASSUME Single, UNCHANGED rows, OpenOcc' = OpenOcc,
         TaskReviews("REVIEWING")' = TaskReviews("REVIEWING"),
         pc' \in {"branch", "steer", "wait"} => pc' = pc
  PROVE  Single'
BY DEF Single, Claimed, rows, cycleVars

(* People write.                                                           *)
LEMMA Posts ==
  ASSUME ControllerInv, NEW body \in Human, NEW surface \in Surface, Post(body, surface)
  PROVE  ControllerInv'
<1> DEFINE c == [body |-> body, at |-> surface, cycle |-> 0, id |-> 0]
<1>1. /\ log' = Append(log, c) /\ UNCHANGED rows /\ Len(log) < MaxLog - 1
      /\ UNCHANGED <<interrupt, pc, resume, call, failures>>
  BY DEF Post, rows, inboxVars, tickVars
<1>2. c \in Comment /\ c.cycle <= cycle /\ c.body # "plan" /\ Len(log) \in Nat
      /\ failures \in 0 .. MaxFailures /\ cycle \in 0 .. MaxCycles
  BY Types, Finds, Positions, ControllerBounds DEF Comment, Human, ControllerInv
<1> HIDE DEF c
<1>3. Len(log) < MaxLog
  BY <1>1, <1>2, ControllerBounds
<1>4. /\ TypeOK' /\ Conversation' /\ Disposed' /\ Bound' /\ Decided'
      /\ Len(log') = Len(log) + 1 /\ DOMAIN log' = DOMAIN log \cup {Len(log) + 1}
      /\ log'[Len(log) + 1] = c /\ \A i \in DOMAIN log : log'[i] = log[i]
      /\ OpenOcc' = OpenOcc /\ PlanComment' = PlanComment /\ ResultComment' = ResultComment
      /\ Question' = Question /\ DurablePhase' = DurablePhase
      /\ PendingRevision' = PendingRevision /\ \A s : TaskReviews(s)' = TaskReviews(s)
  BY <1>1, <1>2, <1>3, Grows
<1>5. Volatile' /\ Underway' /\ Single'
  <2>1. Single'
    BY <1>1, <1>4, GrowsSingle DEF ControllerInv
  <2>2. Volatile' /\ Underway'
    BY <1>1, <1>4 DEF ControllerInv, Volatile, Underway, Carries, rows, cycleVars
  <2> QED BY <2>1, <2>2
<1>6. Shown'
  BY <1>1, <1>2, <1>4, ControllerBounds DEF ControllerInv, Shown, rows
<1>7. Covered'
  <2>1. LastPlan' = LastPlan /\ \A e \in Event : Batched(e)' = Batched(e)
    BY <1>1 DEF LastPlan, Batched, rows, cycleVars
  <2>2. PlanCoversInputs => PlanCoversInputs'
    BY <1>1, <1>4 DEF PlanCoversInputs, rows, cycleVars
  <2> QED BY <1>1, <1>2, <1>4, <2>1, <2>2 DEF ControllerInv, Covered, rows, cycleVars
<1> QED BY <1>4, <1>5, <1>6, <1>7 DEF ControllerInv

(* The comments the worker writes.                                         *)
LEMMA Written ==
  ASSUME ControllerInv
  PROVE  /\ PlanComment \in Comment /\ ResultComment \in Comment /\ Question \in Comment
         /\ PlanComment.cycle = cycle /\ ResultComment.cycle = cycle /\ Question.cycle = cycle
         /\ PlanComment.body = "plan" /\ ResultComment.body = "result" /\ Question.body = "question"
         /\ PlanComment.at = log[root].at /\ ResultComment.at = log[root].at /\ cycle <= cycle
<1>1. TypeOK /\ root \in DOMAIN log
  BY DEF ControllerInv, Conversation
<1>2. log[root].at \in Surface
  BY <1>1, Positions DEF Comment
<1>3. cycle \in 0 .. MaxCycles /\ task.question \in 0 .. 2 * MaxTexts /\ 0 \in 0 .. 2 * MaxTexts
  BY <1>1, Types, ControllerBounds DEF TaskRow
<1>4. cycle <= cycle
  BY <1>3, ControllerBounds
<1> QED BY <1>2, <1>3, <1>4 DEF PlanComment, ResultComment, Question, Comment

(* The worker posts the question a task waits for, unless it is there.     *)
LEMMA PostsQuestion ==
  ASSUME ControllerInv, keep_waiting \/ post_question
  PROVE  ControllerInv'
<1>1. /\ UNCHANGED rows /\ UNCHANGED interrupt
      /\ \/ pc = "wait" /\ EndTick
         \/ pc = "reconcile" /\ Goto("mark")
  <2>1. CASE keep_waiting
    BY <2>1 DEF keep_waiting, NothingToDeliver, rows, inboxVars
  <2>2. CASE post_question
    BY <2>2 DEF post_question, rows, inboxVars
  <2> QED BY <2>1, <2>2
<1>2. /\ pc' \notin {"branch", "steer", "wait", "posted"} /\ pc \notin {"posted", "replan"}
      /\ failures' \in 0 .. MaxFailures
  BY <1>1, Types, ControllerBounds DEF EndTick, Goto, ControllerInv
<1>3. CASE log' = log
  <2>1. UNCHANGED recorded /\ outbox' \subseteq Event
    BY <1>1, <1>3, Finds DEF rows, recorded, record
  <2>2. CASE EndTick
    BY <1>1, <1>2, <2>1, <2>2, Ends
  <2>3. CASE pc = "reconcile" /\ Goto("mark")
    BY <1>1, <1>2, <2>1, <2>3, Finds, GoesOn DEF Goto, Moment, Fresh, Turn
  <2> QED BY <1>1, <2>2, <2>3
<1>4. CASE log' # log
  <2>1. /\ log' = Append(log, Question) /\ task.phase = "WAITING_FOR_INPUT"
        /\ \A i \in DOMAIN log : log[i] # Question
    BY <1>4 DEF keep_waiting, post_question, reconcile_interrupts
  <2>2. Len(log) < MaxLog
    BY <2>1 DEF ControllerInv, Shown
  <2>3. /\ TypeOK' /\ Conversation' /\ Disposed' /\ Bound' /\ Decided'
        /\ Len(log') = Len(log) + 1 /\ DOMAIN log' = DOMAIN log \cup {Len(log) + 1}
        /\ log'[Len(log) + 1] = Question /\ \A i \in DOMAIN log : log'[i] = log[i]
        /\ OpenOcc' = OpenOcc /\ PlanComment' = PlanComment /\ ResultComment' = ResultComment
        /\ Question' = Question /\ DurablePhase' = DurablePhase
        /\ PendingRevision' = PendingRevision /\ \A s : TaskReviews(s)' = TaskReviews(s)
    BY <1>1, <1>2, <2>1, <2>2, Written, Grows
  <2>4. Volatile'
    BY <1>1, Finds DEF Volatile, EndTick, Forget, Goto, Moment, NoResume, NoCall, Tool
  <2>5. Underway'
    <3>1. CASE EndTick
      BY <1>1, <3>1, IdleOwesNothing
         DEF EndTick, Forget, NoResume, ControllerInv, Underway, rows, cycleVars
    <3>2. CASE pc = "reconcile" /\ Goto("mark")
      BY <1>1, <2>3, <3>2 DEF Goto, ControllerInv, Underway, Carries, rows, cycleVars, Fresh, Turn
    <3> QED BY <1>1, <3>1, <3>2
  <2>6. Single'
    BY <1>1, <1>2, <2>3, GrowsSingle DEF ControllerInv
  <2>7. Shown'
    BY <1>1, <1>2, <2>1, <2>3 DEF ControllerInv, Shown, rows
  <2>8. Covered'
    <3>1. LastPlan' = LastPlan /\ \A e \in Event : Batched(e)' = Batched(e)
      BY <1>1, <1>2 DEF LastPlan, Batched, rows, cycleVars
    <3>2. PlanCoversInputs => PlanCoversInputs'
      BY <1>1, <1>2, <2>3 DEF PlanCoversInputs, rows, cycleVars
    <3> QED BY <1>1, <1>2, <2>3, <3>1, <3>2, Written DEF ControllerInv, Covered, rows, cycleVars
  <2> QED BY <2>3, <2>4, <2>5, <2>6, <2>7, <2>8 DEF ControllerInv
<1> QED BY <1>3, <1>4

(* A call that has posted its comment, or found it.                        *)
LEMMA PostsPlan ==
  ASSUME ControllerInv, publish_plan
  PROVE  ControllerInv'
<1>0. TypeOK /\ Len(log) \in Nat /\ Len(log) <= MaxLog /\ DOMAIN log = 1 .. Len(log) /\ task \in TaskRow
      /\ task.plan \in Nat /\ task.plan <= Len(log)
  <2>1. TypeOK /\ Len(log) \in Nat /\ Len(log) <= MaxLog /\ DOMAIN log = 1 .. Len(log) /\ task \in TaskRow
    BY Types, Positions DEF ControllerInv
  <2>2. task.plan = 0 \/ task.plan \in DOMAIN log
    BY DEF ControllerInv, Shown
  <2> QED BY <2>1, <2>2
<1>1. /\ UNCHANGED rows /\ UNCHANGED <<interrupt, resume, failures>> /\ pc = "agent" /\ pc' = "posted"
      /\ task.phase = "PLANNING" /\ call'.tool = "submit_plan"
  BY DEF publish_plan, Calls, Call, rows, inboxVars
<1>2. failures' \in 0 .. MaxFailures /\ outbox' \subseteq Event
  BY <1>1, Types DEF ControllerInv, rows
<1>3. CASE Len(log) < MaxLog /\ log' = Append(log, PlanComment) /\ Call("submit_plan", Len(log) + 1, "posted")
  <2>1. /\ TypeOK' /\ Conversation' /\ Disposed' /\ Bound' /\ Decided'
        /\ Len(log') = Len(log) + 1 /\ DOMAIN log' = DOMAIN log \cup {Len(log) + 1}
        /\ log'[Len(log) + 1] = PlanComment /\ \A i \in DOMAIN log : log'[i] = log[i]
        /\ OpenOcc' = OpenOcc /\ PlanComment' = PlanComment /\ ResultComment' = ResultComment
        /\ Question' = Question /\ DurablePhase' = DurablePhase
        /\ PendingRevision' = PendingRevision /\ \A s : TaskReviews(s)' = TaskReviews(s)
    BY <1>1, <1>2, <1>3, Written, Grows
  <2>2. call'.id = Len(log) + 1 /\ call' \in [tool : Tool, id : 0 .. MaxLog]
    BY <1>0, <1>3, ControllerBounds DEF Call, Tool
  <2>3. Volatile'
    BY <1>1, <2>2, Finds DEF Volatile, Moment
  <2>4. Underway'
    BY <1>1, <2>1 DEF ControllerInv, Underway, Carries, rows, cycleVars, Fresh, Turn
  <2>5. Single'
    BY <1>1, <2>1, GrowsSingle DEF ControllerInv
  <2>6. Shown'
    BY <1>0, <1>1, <2>1, <2>2 DEF ControllerInv, Shown, rows
  <2>7. Covered'
    <3>1. LastPlan' = Len(log) + 1 /\ \A e \in Event : Batched(e)' = Batched(e)
      BY <1>1, <2>2 DEF LastPlan, Batched, rows, cycleVars
    <3>2. PlanCoversInputs'
      BY <1>1, <2>1 DEF PlanCoversInputs, DurablePhase, rows
    <3>3. \A e \in Event : revision'[e].batched_at < Len(log) + 1
      <4>1. \A e \in Event : revision[e].batched_at \in Nat /\ revision[e].batched_at <= Len(log)
        BY <1>0, Types, ControllerBounds DEF ControllerInv, Disposed, RevisionRow
      <4> QED BY <4>1, <1>0, <1>1 DEF rows
    <3>4. \A i \in DOMAIN log' : i <= Len(log) + 1
      BY <1>0, <2>1
    <3> QED BY <1>1, <2>2, <3>1, <3>2, <3>3, <3>4 DEF Covered
  <2> QED BY <2>1, <2>3, <2>4, <2>5, <2>6, <2>7 DEF ControllerInv
<1>4. ASSUME NEW i \in DOMAIN log, log[i] = PlanComment, i > task.plan,
             Call("submit_plan", i, "posted"), log' = log
      PROVE  ControllerInv'
  <2>1. UNCHANGED record /\ UNCHANGED crashes
    BY <1>1, <1>4 DEF rows, record
  <2>2. /\ TypeOK' /\ Conversation' /\ Disposed' /\ Bound' /\ Decided' /\ OpenOcc' = OpenOcc
        /\ PlanComment' = PlanComment /\ ResultComment' = ResultComment /\ Question' = Question
        /\ PendingRevision' = PendingRevision
        /\ \A s : TaskReviews(s)' = TaskReviews(s)
    BY <1>0, <1>2, <2>1, Types, RecordKept
  <2>3. call'.id = i /\ call' \in [tool : Tool, id : 0 .. MaxLog]
    BY <1>0, <1>4, ControllerBounds DEF Call, Tool
  <2>4. Volatile'
    BY <1>1, <2>3, Finds DEF Volatile, Moment
  <2>5. Underway'
    BY <1>1, <2>2 DEF ControllerInv, Underway, Carries, rows, cycleVars, Fresh, Turn
  <2>6. Single'
    BY <1>1, <2>2, GrowsSingle DEF ControllerInv
  <2>7. Shown'
    BY <1>0, <1>1, <1>4, <2>2, <2>3 DEF ControllerInv, Shown, rows
  <2>8. Covered'
    <3>1. crashes # 0
      <4>1. LastPlan = task.plan
        BY <1>1 DEF LastPlan
      <4>2. crashes = 0 => i <= task.plan
        BY <4>1, <1>4, Written DEF ControllerInv, Covered
      <4> QED BY <4>2, <1>0, <1>4
    <3> QED BY <2>1, <3>1 DEF Covered
  <2> QED BY <2>2, <2>4, <2>5, <2>6, <2>7, <2>8 DEF ControllerInv
<1> QED BY <1>3, <1>4 DEF publish_plan

(* The result of a validation.                                             *)
LEMMA PostsResult ==
  ASSUME ControllerInv, publish_result
  PROVE  ControllerInv'
<1>0. TypeOK /\ Len(log) \in Nat /\ Len(log) <= MaxLog /\ DOMAIN log = 1 .. Len(log) /\ task \in TaskRow
      /\ task.result \in Nat /\ task.result <= Len(log)
  <2>1. TypeOK /\ Len(log) \in Nat /\ Len(log) <= MaxLog /\ DOMAIN log = 1 .. Len(log) /\ task \in TaskRow
    BY Types, Positions DEF ControllerInv
  <2>2. task.result = 0 \/ task.result \in DOMAIN log
    BY DEF ControllerInv, Shown
  <2> QED BY <2>1, <2>2
<1>1. /\ UNCHANGED rows /\ UNCHANGED <<interrupt, resume, failures>> /\ pc = "agent" /\ pc' = "posted"
      /\ task.phase = "EXECUTING" /\ call'.tool = "finish_validation" /\ call'.id = Len(log) + 1
      /\ Len(log) < MaxLog /\ log' = Append(log, ResultComment)
  BY DEF publish_result, Calls, Call, rows, inboxVars
<1>2. failures' \in 0 .. MaxFailures /\ call' \in [tool : Tool, id : 0 .. MaxLog]
  BY <1>0, <1>1, Types, ControllerBounds DEF ControllerInv, publish_result, Call, Tool
<1>3. /\ TypeOK' /\ Conversation' /\ Disposed' /\ Bound' /\ Decided'
      /\ Len(log') = Len(log) + 1 /\ DOMAIN log' = DOMAIN log \cup {Len(log) + 1}
      /\ log'[Len(log) + 1] = ResultComment /\ \A i \in DOMAIN log : log'[i] = log[i]
      /\ OpenOcc' = OpenOcc /\ PlanComment' = PlanComment /\ ResultComment' = ResultComment
      /\ Question' = Question /\ DurablePhase' = DurablePhase
      /\ PendingRevision' = PendingRevision /\ \A s : TaskReviews(s)' = TaskReviews(s)
  BY <1>1, <1>2, Written, Grows
<1>4. Volatile'
  BY <1>1, <1>2, Finds DEF Volatile, Moment
<1>5. Underway'
  BY <1>1, <1>3 DEF ControllerInv, Underway, Carries, rows, cycleVars, Fresh, Turn
<1>6. Single'
  BY <1>1, <1>3, GrowsSingle DEF ControllerInv
<1>7. Shown'
  BY <1>0, <1>1, <1>3 DEF ControllerInv, Shown, rows
<1>8. Covered'
  <2>1. LastPlan' = LastPlan /\ \A e \in Event : Batched(e)' = Batched(e)
    BY <1>1 DEF LastPlan, Batched, rows, cycleVars
  <2>2. PlanCoversInputs => PlanCoversInputs'
    BY <1>1, <1>3 DEF PlanCoversInputs, rows, cycleVars
  <2> QED BY <1>1, <1>3, <2>1, <2>2, Written DEF ControllerInv, Covered, rows, cycleVars
<1> QED BY <1>3, <1>4, <1>5, <1>6, <1>7, <1>8 DEF ControllerInv

-----------------------------------------------------------------------------
(* What _classify_revision_input does to each comment.                     *)
Queued == [NoRevision EXCEPT !.status = "PENDING", !.reason = "UNSOLICITED_STEERING"]

(* It disposes of comments nobody has disposed of, between two ticks or    *)
(* whatever the tick under way does.                                       *)
LEMMA Classifies ==
  ASSUME ControllerInv, NEW E, E \subseteq Event, Classify(E), 1 \notin E,
         \A e \in E : input[e].status = "NONE" /\ e \in seen',
         seen \subseteq seen', seen' \subseteq DOMAIN log, \A e \in seen' : log[e].body \in Human,
         pc' = pc \/ (pc = "idle" /\ pc' = "deliver"),
         UNCHANGED <<log, claims, review, cycleVars, task, applied, interrupt, resume, call,
                     failures, crashes>>
  PROVE  ControllerInv'
<1>0. /\ TypeOK /\ DOMAIN log \subseteq Event /\ input \in [Event -> InputRow]
      /\ revision \in [Event -> RevisionRow] /\ outbox \subseteq Event /\ cycle \in Nat
      /\ UNCHANGED <<cycle, cycle_status, root>> /\ cycle \in 0 .. MaxCycles
  BY Types, Positions, ControllerBounds DEF ControllerInv, cycleVars
<1>1. PICK stale, queued :
        /\ stale \subseteq E /\ queued \subseteq E /\ stale \cap queued = {}
        /\ cycle = 0 => stale = {} /\ queued = {}
        /\ input' = [e \in Event |->
             CASE e \in stale -> [status |-> "STALE_APPROVAL", occ |-> NoOcc]
               [] e \in queued -> [status |-> "REVISION_QUEUED", occ |-> NoOcc]
               [] OTHER -> input[e]]
        /\ revision' = [e \in Event |-> IF e \in queued THEN Queued ELSE revision[e]]
        /\ outbox' = outbox \cup queued
  <2> DEFINE rest == IF cycle = 0 THEN {} ELSE {e \in E : ~Matches(e)}
             stale == {e \in rest : log[e].body = "approve"}
             queued == rest \ stale
  <2>1. /\ stale \subseteq E /\ queued \subseteq E /\ stale \cap queued = {}
        /\ cycle = 0 => stale = {} /\ queued = {}
    OBVIOUS
  <2>2. /\ input' = [e \in Event |->
             CASE e \in stale -> [status |-> "STALE_APPROVAL", occ |-> NoOcc]
               [] e \in queued -> [status |-> "REVISION_QUEUED", occ |-> NoOcc]
               [] OTHER -> input[e]]
        /\ revision' = [e \in Event |-> IF e \in queued THEN Queued ELSE revision[e]]
        /\ outbox' = outbox \cup queued
    BY Zenon DEF Classify, Queued
  <2> QED BY <2>1, <2>2
<1>2. /\ \A e \in Event : e \notin stale \cup queued => input'[e] = input[e]
      /\ \A e \in stale : input'[e] = [status |-> "STALE_APPROVAL", occ |-> NoOcc]
      /\ \A e \in queued : input'[e] = [status |-> "REVISION_QUEUED", occ |-> NoOcc]
      /\ \A e \in Event : e \notin queued => revision'[e] = revision[e]
      /\ \A e \in queued : revision'[e] = Queued
  BY <1>1
<1>3. /\ Queued \in RevisionRow /\ Queued.status = "PENDING" /\ Queued.cycle = 0
      /\ Queued.batched_at = 0 /\ NoOcc \in Occurrence /\ NoOcc.kind = "NONE"
  <2>1. NoRevision \in RevisionRow /\ NoRevision.cycle = 0 /\ NoRevision.batched_at = 0
    BY ControllerBounds DEF RevisionRow, NoRevision
  <2>2. /\ Queued \in RevisionRow /\ Queued.status = "PENDING" /\ Queued.cycle = 0
        /\ Queued.batched_at = 0
    BY <2>1 DEF Queued, RevisionRow
  <2>3. NoOcc \in Occurrence /\ NoOcc.kind = "NONE"
    BY ControllerBounds DEF NoOcc, Occurrence
  <2> QED BY <2>2, <2>3
<1>4. input' \in [Event -> InputRow] /\ revision' \in [Event -> RevisionRow]
  <2>1. \A e \in Event : input'[e] \in InputRow
    BY <1>0, <1>2, <1>3 DEF InputRow
  <2>2. \A e \in Event : revision'[e] \in RevisionRow
    BY <1>0, <1>2, <1>3
  <2> QED BY <2>1, <2>2, <1>1
<1>5. TypeOK'
  BY <1>0, <1>1, <1>4, Types, TypesNext
<1>6. Volatile' /\ Conversation'
  BY <1>0 DEF ControllerInv, Volatile, Conversation, Moment
<1>7. \A e \in Event : input'[e] = input[e] \/
        (input[e].status = "NONE" /\ e \in seen' /\ input'[e].occ.kind = "NONE"
           /\ input'[e].status \in {"STALE_APPROVAL", "REVISION_QUEUED"})
  BY <1>1, <1>2, <1>3
<1>8. Disposed'
  <2>1. 0 <= cycle /\ 0 <= Len(log)
    BY <1>0, Positions
  <2>2. \A e \in queued : input'[e].status = "REVISION_QUEUED" /\ e \in seen' /\ input[e].status = "NONE"
    BY <1>1, <1>2
  <2> QED BY <1>0, <1>2, <1>3, <1>7, <2>1, <2>2 DEF ControllerInv, Disposed
<1>9. Bound'
  BY <1>7 DEF ControllerInv, Bound, Approves, Approval
<1>10. Decided'
  <2>1. applied \subseteq Answer
    BY <1>0, Types
  <2> QED BY <2>1, <1>0, <1>7 DEF ControllerInv, Decided, Answer
<1>11. /\ OpenOcc' = OpenOcc /\ PlanComment' = PlanComment /\ ResultComment' = ResultComment
       /\ Question' = Question /\ DurablePhase' = DurablePhase
       /\ \A s : TaskReviews(s)' = TaskReviews(s)
  <2>1. OpenOcc' = OpenOcc
    BY <1>0, Zenon DEF OpenOcc, PlanOcc, ResultOcc, QuestionOcc
  <2> QED BY <2>1, <1>0 DEF PlanComment, ResultComment, Question, DurablePhase, TaskReviews
<1>12. Shown'
  BY <1>0, <1>11 DEF ControllerInv, Shown
<1>13. Underway'
  <2>1. PendingRevision \subseteq PendingRevision'
    BY <1>2, <1>3 DEF PendingRevision
  <2>2. input'[1] = input[1]
    BY <1>1, <1>2, <1>0, Positions
  <2>3. cycle = 0 => \A e \in Event : input'[e] = input[e]
    BY <1>1, <1>2
  <2>4. resume.kind = "ANSWER" /\ pc \in Turn => Carries' = Carries
    <3>1. ASSUME resume.kind = "ANSWER", pc \in Turn PROVE input'[resume.event] = input[resume.event]
      <4>1. resume.event \in Event /\ Carries \in applied
        BY <3>1 DEF ControllerInv, Underway
      <4>2. input[resume.event].status # "NONE"
        BY <4>1 DEF ControllerInv, Decided, Carries
      <4> QED BY <4>1, <4>2, <1>7
    <3> QED BY <3>1 DEF Carries
  <2> QED BY <1>0, <1>7, <1>11, <2>1, <2>2, <2>3, <2>4 DEF ControllerInv, Underway, Fresh, Turn
<1>14. Covered'
  <2>1. LastPlan' = LastPlan
    BY <1>0 DEF LastPlan
  <2>2. \A e \in Event : Batched(e)' => Batched(e) /\ revision'[e] = revision[e]
    BY <1>0, <1>2, <1>3 DEF Batched
  <2>3. PlanCoversInputs => PlanCoversInputs'
    BY <1>0, <1>11, <2>2 DEF PlanCoversInputs, Batched
  <2> QED BY <1>0, <2>1, <2>2, <2>3 DEF ControllerInv, Covered
<1>15. Single'
  <2>1. \A e \in Event : Claimed(e)' => Claimed(e) /\ input'[e] = input[e]
    BY <1>7 DEF Claimed
  <2> QED BY <1>0, <1>11, <2>1 DEF ControllerInv, Single
<1> QED BY <1>5, <1>6, <1>8, <1>9, <1>10, <1>12, <1>13, <1>14, <1>15 DEF ControllerInv

(* The poller, and the controller before its tick.                         *)
LEMMA Routes ==
  ASSUME ControllerInv, route_unmatched_inputs \/ \E e \in Event : record_batch(e)
  PROVE  ControllerInv'
<1>0. seen \subseteq Event /\ seen \subseteq DOMAIN log /\ 1 \in seen /\ \A e \in seen : log[e].body \in Human
  BY Types DEF ControllerInv, Conversation
<1>1. CASE route_unmatched_inputs
  <2> DEFINE E == {e \in Unconsumed : e # 1}
  <2>1. /\ Classify(E) /\ pc = "idle" /\ pc' = "deliver"
        /\ UNCHANGED <<log, seen, claims, review, cycleVars, task, applied, interrupt, resume, call,
                       failures, crashes>>
    BY <1>1 DEF route_unmatched_inputs, Goto
  <2>2. E \subseteq Event /\ 1 \notin E /\ \A e \in E : input[e].status = "NONE" /\ e \in seen'
    BY <1>0, <2>1 DEF Unconsumed
  <2> HIDE DEF E
  <2> QED BY <1>0, <2>1, <2>2, Classifies
<1>2. ASSUME NEW e \in Event, record_batch(e) PROVE ControllerInv'
  <2>1. /\ Classify({e}) /\ e \in DOMAIN log /\ log[e].body \in Human /\ e \notin seen
        /\ seen' = seen \cup {e}
        /\ UNCHANGED <<log, claims, review, cycleVars, task, applied, interrupt, pc, resume, call,
                       failures, crashes>>
    BY <1>2 DEF record_batch, tickVars
  <2>2. input[e].status = "NONE"
    BY <2>1 DEF ControllerInv, Disposed
  <2> QED BY <1>0, <2>1, <2>2, Classifies
<1> QED BY <1>1, <1>2

-----------------------------------------------------------------------------
(* Everything that is recorded but the dispositions of comments.           *)
others == <<log, seen, claims, revision, review, outbox, cycleVars, task, applied, crashes>>

(* One comment gets its final disposition.                                 *)
LEMMA Settles ==
  ASSUME ControllerInv, NEW e \in seen,
         NEW status \in {"CYCLE_ROOT", "APPLIED", "STALE", "STALE_APPROVAL"},
         input[e].status \in {"NONE", "CLAIMED"},
         input' = [input EXCEPT ![e].status = status], UNCHANGED others,
         status = "APPLIED" =>
           \/ input[e].occ.kind = "CLARIFICATION"
           \/ [occ |-> input[e].occ, event |-> e] \in applied,
         status # "APPLIED" => \A a \in applied : a.event # e,
         failures' \in 0 .. MaxFailures, pc \notin {"posted", "replan"}, pc' # "posted"
  PROVE  /\ TypeOK' /\ Conversation' /\ Disposed' /\ Bound' /\ Decided' /\ Shown' /\ Covered'
         /\ OpenOcc' = OpenOcc /\ PendingRevision' = PendingRevision
         /\ \A s : TaskReviews(s)' = TaskReviews(s)
         /\ UNCHANGED <<claims, cycle, cycle_status, task, applied>>
         /\ \A d \in Event : input'[d].occ = input[d].occ
         /\ \A d \in Event : Claimed(d)' => Claimed(d) /\ d # e
<1>0. /\ TypeOK /\ input \in [Event -> InputRow] /\ e \in Event /\ applied \subseteq Answer
      /\ UNCHANGED <<log, seen, claims, revision, review, outbox, cycle, cycle_status, root, task,
                     applied, crashes>>
  BY Types DEF ControllerInv, others, cycleVars
<1>1. /\ input' \in [Event -> InputRow] /\ input'[e].status = status
      /\ \A d \in Event : input'[d].occ = input[d].occ
      /\ \A d \in Event : d # e => input'[d] = input[d]
  BY <1>0 DEF InputRow
<1>2. TypeOK'
  BY <1>0, <1>1, Types, TypesNext
<1>3. Conversation'
  BY <1>0 DEF ControllerInv, Conversation
<1>4. Disposed'
  BY <1>0, <1>1 DEF ControllerInv, Disposed
<1>5. Bound'
  BY <1>0, <1>1 DEF ControllerInv, Bound, Approves
<1>6. Decided'
  BY <1>0, <1>1 DEF ControllerInv, Decided, Answer
<1>7. OpenOcc' = OpenOcc
  BY <1>0, Zenon DEF OpenOcc, PlanOcc, ResultOcc, QuestionOcc
<1>8. /\ PendingRevision' = PendingRevision /\ \A s : TaskReviews(s)' = TaskReviews(s)
      /\ PlanComment' = PlanComment /\ ResultComment' = ResultComment /\ Question' = Question
      /\ DurablePhase' = DurablePhase
  BY <1>0 DEF PlanComment, ResultComment, Question, DurablePhase, TaskReviews, PendingRevision
<1>9. Shown'
  BY <1>0, <1>8 DEF ControllerInv, Shown
<1>10. Covered'
  <2>1. LastPlan' = LastPlan /\ \A d \in Event : Batched(d)' = Batched(d)
    BY <1>0 DEF LastPlan, Batched
  <2>2. PlanCoversInputs => PlanCoversInputs'
    BY <1>0, <1>8 DEF PlanCoversInputs
  <2> QED BY <1>0, <2>1, <2>2 DEF ControllerInv, Covered
<1>11. \A d \in Event : Claimed(d)' => Claimed(d) /\ d # e
  BY <1>1 DEF Claimed
<1> QED BY <1>0, <1>1, <1>2, <1>3, <1>4, <1>5, <1>6, <1>7, <1>8, <1>9, <1>10, <1>11

(* The first of a kind of disposition: the root of the first cycle.        *)
LEMMA RecordsRoot ==
  ASSUME ControllerInv, record_cycle_root
  PROVE  ControllerInv'
<1>1. /\ pc = "root" /\ pc' = "claims" /\ input' = [input EXCEPT ![1].status = "CYCLE_ROOT"]
      /\ UNCHANGED others /\ UNCHANGED <<interrupt, resume, call, failures>>
  BY DEF record_cycle_root, Goto, others
<1>2. 1 \in seen /\ input[1].status = "NONE" /\ \A a \in applied : a.event # 1
  BY <1>1 DEF ControllerInv, Conversation, Underway, Decided
<1>3. failures' \in 0 .. MaxFailures
  BY <1>1, Types DEF ControllerInv
<1>4. /\ TypeOK' /\ Conversation' /\ Disposed' /\ Bound' /\ Decided' /\ Shown' /\ Covered'
      /\ OpenOcc' = OpenOcc /\ PendingRevision' = PendingRevision
      /\ \A s : TaskReviews(s)' = TaskReviews(s)
      /\ UNCHANGED <<claims, cycle, cycle_status, task, applied>>
      /\ \A d \in Event : input'[d].occ = input[d].occ
      /\ \A d \in Event : Claimed(d)' => Claimed(d) /\ d # 1
  BY <1>1, <1>2, <1>3, Settles
<1>5. Volatile' /\ Underway'
  BY <1>1, <1>4, Finds DEF ControllerInv, Volatile, Underway, Moment, Fresh, Turn
<1>6. Single'
  BY <1>1, <1>4 DEF ControllerInv, Single
<1> QED BY <1>4, <1>5, <1>6 DEF ControllerInv

(* _settle_resume_claim: in the initial workflow what is left afterwards   *)
(* is a claim of what the task waits on.                                   *)
LEMMA Reconciles ==
  ASSUME ControllerInv, _settle_resume_claim
  PROVE  ControllerInv'
<1> DEFINE e == PendingClaim
           verdict == IF e = 0 THEN "NONE" ELSE _claim_verdict(e)
<1>1. /\ pc = "claims" /\ pc' = "branch" /\ UNCHANGED others
      /\ UNCHANGED <<interrupt, resume, call, failures>>
      /\ input' = IF verdict = "NONE" THEN input ELSE [input EXCEPT ![e].status = verdict]
  BY DEF _settle_resume_claim, Goto, others
<1>2. /\ e # 0 => e \in Event /\ Claimed(e)
      /\ \A d \in Event : cycle = 1 /\ Claimed(d) => e # 0 /\ d = e
  <2>1. /\ e # 0 => e \in Event /\ Claimed(e)
        /\ \A i \in DOMAIN claims : Claimed(claims[i]) => e # 0
    BY Finds, ClaimFound
  <2> QED BY <2>1 DEF ControllerInv, Single
<1>3. /\ verdict \in {"NONE", "APPLIED", "STALE"}
      /\ verdict = "APPLIED" =>
           \/ input[e].occ.kind = "CLARIFICATION"
           \/ [occ |-> input[e].occ, event |-> e] \in applied
      /\ verdict = "STALE" => ~([occ |-> input[e].occ, event |-> e] \in applied)
      /\ verdict = "NONE" /\ e # 0 =>
           \/ input[e].occ.kind = "CLARIFICATION" /\ input[e].occ = OpenOcc
           \/ /\ input[e].occ.kind # "CLARIFICATION"
              /\ ~([occ |-> input[e].occ, event |-> e] \in applied)
      /\ verdict # "NONE" => e # 0
  BY DEF _claim_verdict
<1> HIDE DEF verdict, e
<1>4. failures' \in 0 .. MaxFailures /\ crashes' \in 0 .. MaxCrashes /\ outbox' \subseteq Event
      /\ applied \subseteq Answer
  BY <1>1, Types DEF ControllerInv, others
<1>5. Volatile'
  BY <1>1, Finds DEF Volatile, Moment
<1>6. CASE verdict = "NONE"
  <2>1. UNCHANGED recorded
    BY <1>1, <1>6 DEF others, recorded, record
  <2>2. /\ TypeOK' /\ Conversation' /\ Disposed' /\ Bound' /\ Decided' /\ OpenOcc' = OpenOcc
        /\ PlanComment' = PlanComment /\ ResultComment' = ResultComment /\ Question' = Question
        /\ PendingRevision' = PendingRevision /\ DurablePhase' = DurablePhase
        /\ \A s : TaskReviews(s)' = TaskReviews(s)
    BY <1>4, <2>1, RecordKept DEF recorded
  <2>3. UNCHANGED <<log, input, claims, revision, cycle, cycle_status, task, applied, crashes>>
    BY <2>1 DEF recorded, record, cycleVars
  <2>4. Underway'
    BY <1>1, <2>2, <2>3, Finds DEF ControllerInv, Underway, Fresh, Turn
  <2>5. Shown'
    BY <1>1, <2>2, <2>3 DEF ControllerInv, Shown
  <2>6. Covered'
    <3>1. LastPlan' = LastPlan /\ \A d \in Event : Batched(d)' = Batched(d)
      BY <1>1, <2>3 DEF LastPlan, Batched
    <3>2. PlanCoversInputs => PlanCoversInputs'
      BY <1>1, <2>2, <2>3 DEF PlanCoversInputs
    <3> QED BY <1>1, <2>3, <3>1, <3>2 DEF ControllerInv, Covered
  <2>7. Single'
    <3>1. ASSUME NEW d \in Event, Claimed(d), cycle = 1, cycle_status = "ACTIVE"
          PROVE  input[d].occ = OpenOcc
      <4>1. e # 0 /\ d = e
        BY <1>2, <3>1
      <4>2. \/ input[e].occ.kind = "CLARIFICATION"
            \/ [occ |-> input[e].occ, event |-> e] \in applied
            \/ input[e].occ = OpenOcc
        BY <3>1, <4>1 DEF ControllerInv, Single
      <4> QED BY <1>3, <1>6, <4>1, <4>2
    <3>2. \A d \in Event : Claimed(d)' = Claimed(d)
      BY <2>3 DEF Claimed
    <3> QED BY <2>2, <2>3, <3>1, <3>2 DEF ControllerInv, Single
  <2> QED BY <2>2, <1>5, <2>4, <2>5, <2>6, <2>7 DEF ControllerInv
<1>7. CASE verdict # "NONE"
  <2>1. /\ e \in Event /\ Claimed(e) /\ e \in seen /\ verdict \in {"APPLIED", "STALE"}
        /\ input' = [input EXCEPT ![e].status = verdict]
    BY <1>1, <1>2, <1>3, <1>7 DEF ControllerInv, Disposed, Claimed
  <2>2. verdict # "APPLIED" => \A a \in applied : a.event # e
    <3> SUFFICES ASSUME verdict = "STALE", NEW a \in applied, a.event = e PROVE FALSE
      BY <2>1
    <3>1. a = [occ |-> a.occ, event |-> a.event]
      BY <1>4 DEF Answer
    <3>2. input[e].occ = a.occ
      BY DEF ControllerInv, Decided
    <3> QED BY <1>3, <3>1, <3>2
  <2>3. /\ TypeOK' /\ Conversation' /\ Disposed' /\ Bound' /\ Decided' /\ Shown' /\ Covered'
        /\ OpenOcc' = OpenOcc /\ PendingRevision' = PendingRevision
        /\ \A s : TaskReviews(s)' = TaskReviews(s)
        /\ UNCHANGED <<claims, cycle, cycle_status, task, applied>>
        /\ \A d \in Event : input'[d].occ = input[d].occ
        /\ \A d \in Event : Claimed(d)' => Claimed(d) /\ d # e
    BY <1>1, <1>3, <1>4, <2>1, <2>2, Settles DEF Claimed
  <2>4. Underway'
    BY <1>1, <2>3, Finds DEF ControllerInv, Underway, Fresh, Turn
  <2>5. Single'
    BY <1>2, <2>3 DEF Single
  <2> QED BY <1>5, <2>3, <2>4, <2>5 DEF ControllerInv
<1> QED BY <1>6, <1>7

(* finish_input_resume: what the turn carried was applied.                 *)
LEMMA Finishes ==
  ASSUME ControllerInv, finish_input_resume
  PROVE  ControllerInv'
<1> DEFINE e == resume.event
<1>1. /\ pc = "mark" /\ pc' = "select" /\ UNCHANGED others
      /\ UNCHANGED <<interrupt, resume, call, failures>>
  BY DEF finish_input_resume, Goto, others
<1>2. failures' \in 0 .. MaxFailures /\ outbox' \subseteq Event
  BY <1>1, Types DEF ControllerInv, others
<1>3. CASE resume.kind = "ANSWER" /\ input[e].status = "CLAIMED"
  <2>1. input' = [input EXCEPT ![e].status = "APPLIED"]
    BY <1>3 DEF finish_input_resume
  <2>2. e \in Event /\ [occ |-> input[e].occ, event |-> e] \in applied /\ e \in seen
    BY <1>1, <1>3 DEF ControllerInv, Underway, Carries, Turn, Disposed
  <2>3. /\ TypeOK' /\ Conversation' /\ Disposed' /\ Bound' /\ Decided' /\ Shown' /\ Covered'
        /\ OpenOcc' = OpenOcc /\ PendingRevision' = PendingRevision
        /\ \A s : TaskReviews(s)' = TaskReviews(s)
        /\ UNCHANGED <<claims, cycle, cycle_status, task, applied>>
        /\ \A d \in Event : input'[d].occ = input[d].occ
        /\ \A d \in Event : Claimed(d)' => Claimed(d) /\ d # e
    BY <1>1, <1>2, <1>3, <2>1, <2>2, Settles
  <2>4. Volatile' /\ Underway'
    BY <1>1, <2>3, Finds DEF ControllerInv, Volatile, Underway, Moment, Fresh, Turn
  <2>5. Single'
    BY <1>1, <2>3 DEF ControllerInv, Single
  <2> QED BY <2>3, <2>4, <2>5 DEF ControllerInv
<1>4. CASE ~(resume.kind = "ANSWER" /\ input[e].status = "CLAIMED")
  <2>1. UNCHANGED recorded
    BY <1>1, <1>4 DEF finish_input_resume, others, recorded, record
  <2> QED BY <1>1, <1>2, <2>1, Finds, GoesOn DEF Moment, Fresh, Turn
<1> QED BY <1>3, <1>4

-----------------------------------------------------------------------------
(* The comment a wait selects is new, and answers what the task waits on.  *)
LEMMA SelectedIsNew ==
  ASSUME ControllerInv, NEW e \in Event, Selected(e)
  PROVE  /\ e \in seen /\ input[e].status = "NONE" /\ e \in DOMAIN log /\ log[e].body \in Human
         /\ log[e].at = log[root].at /\ e > Threshold
         /\ task.phase \in Waiting /\ \A a \in applied : a.event # e
         /\ OpenOcc \in Occurrence /\ OpenOcc.kind # "NONE" /\ OpenOcc.cycle = cycle
         /\ cycle = 1 => \A d \in Event : ~Claimed(d)
<1>1. pc = "wait" /\ ~Reviewing /\ ~Replayable /\ HasInterrupt /\ e = Earliest(Candidates)
      /\ Candidates # {}
  BY DEF Selected
<1>2. /\ TypeOK /\ Conversation /\ cycle_status = "ACTIVE" /\ task.phase \in Waiting
      /\ seen \subseteq Event /\ Event \subseteq Nat
  BY <1>1, Types, Positions DEF ControllerInv, Underway
<1>3. e \in Candidates
  BY <1>1, <1>2, EarliestIsLeast DEF Candidates, Unconsumed
<1>4. e \in seen /\ input[e].status = "NONE" /\ log[e].at = log[root].at /\ e > Threshold
  BY <1>3 DEF Candidates, Unconsumed, Answers
<1>5. e \in DOMAIN log /\ log[e].body \in Human
  BY <1>2, <1>4 DEF Conversation
<1>6. \A a \in applied : a.event # e
  BY <1>4 DEF ControllerInv, Decided
<1>7. OpenOcc \in Occurrence /\ OpenOcc.kind # "NONE" /\ OpenOcc.cycle = cycle
  BY <1>2, Opens
<1>8. ASSUME cycle = 1, NEW d \in Event, Claimed(d) PROVE FALSE
  <2>1. input[d].occ = OpenOcc /\ PendingClaim # 0
    BY <1>1, <1>2, <1>8, ClaimFound DEF ControllerInv, Single
  <2>2. PendingClaim = d
    BY <1>2, <1>8, <2>1, ClaimFound DEF ControllerInv, Single
  <2> QED BY <1>1, <2>1, <2>2 DEF Replayable
<1> QED BY <1>2, <1>4, <1>5, <1>6, <1>7, <1>8

(* An answer is bound to the occurrence, and goes to its interrupt.        *)
LEMMA Claims ==
  ASSUME ControllerInv, NEW e \in Event, claim_input_for_resume(e)
  PROVE  ControllerInv'
<1>0. /\ e \in seen /\ input[e].status = "NONE" /\ e \in DOMAIN log /\ log[e].body \in Human
      /\ log[e].at = log[root].at /\ e > Threshold
      /\ task.phase \in Waiting /\ \A a \in applied : a.event # e
      /\ OpenOcc \in Occurrence /\ OpenOcc.kind # "NONE" /\ OpenOcc.cycle = cycle
      /\ cycle = 1 => \A d \in Event : ~Claimed(d)
  BY SelectedIsNew DEF claim_input_for_resume
<1>1. /\ pc = "wait" /\ pc' = "drive" /\ resume' = [kind |-> "ANSWER", event |-> e]
      /\ input' = [input EXCEPT ![e] = [status |-> "CLAIMED", occ |-> OpenOcc]]
      /\ claims' = Append(claims, e) /\ ~Reviewing /\ HasInterrupt
      /\ UNCHANGED <<call, failures, interrupt>>
  BY DEF claim_input_for_resume, Selected, Drive
<1>2. UNCHANGED <<log, seen, revision, review, outbox, cycle, cycle_status, root, task, applied,
                  crashes>>
  BY DEF claim_input_for_resume, cycleVars
<1>3. /\ TypeOK /\ input \in [Event -> InputRow] /\ claims \in Seq(Event) /\ applied \subseteq Answer
      /\ [status |-> "CLAIMED", occ |-> OpenOcc] \in InputRow
  BY <1>0, Types DEF ControllerInv, InputRow
<1>4. /\ input' \in [Event -> InputRow] /\ input'[e].status = "CLAIMED" /\ input'[e].occ = OpenOcc
      /\ \A d \in Event : d # e => input'[d] = input[d]
  BY <1>1, <1>3
<1>5. /\ claims' \in Seq(Event) /\ \E i \in DOMAIN claims' : claims'[i] = e
  <2>1. claims' \in Seq(Event) /\ Len(claims) + 1 \in DOMAIN claims' /\ claims'[Len(claims) + 1] = e
    BY <1>1, <1>3
  <2> QED BY <2>1
<1>6. TypeOK'
  BY <1>1, <1>2, <1>3, <1>4, <1>5, Types, TypesNext
<1>7. Conversation'
  BY <1>2 DEF ControllerInv, Conversation
<1>8. Disposed'
  BY <1>0, <1>2, <1>4 DEF ControllerInv, Disposed
<1>9. Bound'
  <2>1. ASSUME OpenOcc.kind \in Approval PROVE Approves(e, OpenOcc)
    <3>1. /\ task.phase \in {"WAITING_FOR_PLAN_APPROVAL", "WAITING_FOR_RESULT_APPROVAL"}
          /\ Threshold = OpenOcc.id
          /\ OpenOcc.kind = "PLAN_APPROVAL" <=> task.phase = "WAITING_FOR_PLAN_APPROVAL"
          /\ OpenOcc.id = IF task.phase = "WAITING_FOR_PLAN_APPROVAL" THEN task.plan ELSE task.result
      BY <1>3, <2>1, Opens DEF Approval
    <3>2. log[e].body = "approve"
      BY <1>0, <3>1 DEF claim_input_for_resume, Human
    <3>3. /\ OpenOcc.id \in DOMAIN log
          /\ log[OpenOcc.id] = IF OpenOcc.kind = "PLAN_APPROVAL" THEN PlanComment ELSE ResultComment
      BY <3>1 DEF ControllerInv, Shown
    <3>4. log[OpenOcc.id].at = log[e].at
          /\ log[OpenOcc.id].body = IF OpenOcc.kind = "PLAN_APPROVAL" THEN "plan" ELSE "result"
      BY <1>0, <3>3, Written
    <3>5. OpenOcc.id < e
      BY <1>0, <1>3, <3>1, <3>3, Positions
    <3> QED BY <1>0, <3>2, <3>3, <3>4, <3>5 DEF Approves
  <2> QED BY <1>2, <1>4, <2>1 DEF ControllerInv, Bound, Approves
<1>10. Decided'
  BY <1>0, <1>2, <1>3, <1>4 DEF ControllerInv, Decided, Answer
<1>11. OpenOcc' = OpenOcc
  BY <1>2, Zenon DEF OpenOcc, PlanOcc, ResultOcc, QuestionOcc
<1>12. /\ PendingRevision' = PendingRevision /\ \A s : TaskReviews(s)' = TaskReviews(s)
       /\ PlanComment' = PlanComment /\ ResultComment' = ResultComment /\ Question' = Question
       /\ DurablePhase' = DurablePhase
  BY <1>2 DEF PlanComment, ResultComment, Question, DurablePhase, TaskReviews, PendingRevision
<1>13. Volatile'
  BY <1>1, Finds, ControllerBounds DEF Volatile, Moment, Event
<1>14. Shown'
  BY <1>1, <1>2, <1>12 DEF ControllerInv, Shown
<1>15. Underway'
  BY <1>0, <1>1, <1>2, <1>4, <1>11, Finds DEF Underway, Fresh, Turn
<1>16. Covered'
  <2>1. LastPlan' = LastPlan /\ \A d \in Event : Batched(d)' = Batched(d)
    BY <1>1, <1>2 DEF LastPlan, Batched
  <2>2. PlanCoversInputs => PlanCoversInputs'
    BY <1>1, <1>2, <1>12 DEF PlanCoversInputs
  <2> QED BY <1>1, <1>2, <2>1, <2>2 DEF ControllerInv, Covered
<1>17. Single'
  <2>1. \A d \in Event : cycle = 1 /\ Claimed(d)' => d = e
    BY <1>0, <1>4 DEF Claimed
  <2>2. OpenOcc.kind = "CLARIFICATION" \/ TaskReviews("REVIEWING") = {}
    BY <1>0, <1>1, <1>3, Opens DEF Reviewing
  <2> QED BY <1>1, <1>2, <1>4, <1>5, <1>11, <1>12, <2>1, <2>2 DEF Single
<1> QED BY <1>6, <1>7, <1>8, <1>9, <1>10, <1>13, <1>14, <1>15, <1>16, <1>17 DEF ControllerInv

(* An approval that is not permitted, or answers a question.               *)
LEMMA Dismisses ==
  ASSUME ControllerInv, NEW e \in Event, record_input_disposition(e)
  PROVE  ControllerInv'
<1>0. e \in seen /\ input[e].status = "NONE" /\ \A a \in applied : a.event # e
  BY SelectedIsNew DEF record_input_disposition
<1>1. PICK status \in {"STALE", "STALE_APPROVAL"} : input' = [input EXCEPT ![e].status = status]
  BY DEF record_input_disposition
<1>2. /\ pc = "wait" /\ UNCHANGED others /\ UNCHANGED <<interrupt, pc, resume, call, failures>>
  BY DEF record_input_disposition, Selected, others, tickVars
<1>3. failures' \in 0 .. MaxFailures
  BY <1>2, Types DEF ControllerInv
<1>4. /\ TypeOK' /\ Conversation' /\ Disposed' /\ Bound' /\ Decided' /\ Shown' /\ Covered'
      /\ OpenOcc' = OpenOcc /\ PendingRevision' = PendingRevision
      /\ \A s : TaskReviews(s)' = TaskReviews(s)
      /\ UNCHANGED <<claims, cycle, cycle_status, task, applied>>
      /\ \A d \in Event : input'[d].occ = input[d].occ
      /\ \A d \in Event : Claimed(d)' => Claimed(d) /\ d # e
  BY <1>0, <1>1, <1>2, <1>3, Settles
<1>5. Volatile' /\ Underway'
  BY <1>2, <1>4, Finds DEF ControllerInv, Volatile, Underway, Moment, Fresh, Turn
<1>6. Single'
  BY <1>2, <1>4 DEF ControllerInv, Single
<1> QED BY <1>4, <1>5, <1>6 DEF ControllerInv

(* Feedback on what waits for approval opens a review.                     *)
LEMMA OpensReview ==
  ASSUME ControllerInv, NEW e \in Event, begin_feedback_review(e)
  PROVE  ControllerInv'
<1>0. /\ e \in seen /\ input[e].status = "NONE" /\ \A a \in applied : a.event # e
      /\ OpenOcc \in Occurrence
      /\ cycle = 1 => \A d \in Event : ~Claimed(d)
  BY SelectedIsNew DEF begin_feedback_review
<1>1. /\ pc = "wait" /\ pc' = "drive" /\ resume' = [kind |-> "FEEDBACK", event |-> e]
      /\ input' = [input EXCEPT ![e].status = "FEEDBACK_REVIEW"]
      /\ review' = [review EXCEPT ![e] = [status |-> "REVIEWING", occ |-> OpenOcc]]
      /\ UNCHANGED <<call, failures, interrupt>>
  BY DEF begin_feedback_review, Selected, Drive
<1>2. UNCHANGED <<log, seen, claims, revision, outbox, cycle, cycle_status, root, task, applied,
                  crashes>>
  BY DEF begin_feedback_review, cycleVars
<1>3. /\ TypeOK /\ input \in [Event -> InputRow] /\ review \in [Event -> ReviewRow]
      /\ applied \subseteq Answer /\ [status |-> "REVIEWING", occ |-> OpenOcc] \in ReviewRow
  BY <1>0, Types DEF ControllerInv, ReviewRow
<1>4. /\ input' \in [Event -> InputRow] /\ input'[e].status = "FEEDBACK_REVIEW"
      /\ \A d \in Event : input'[d].occ = input[d].occ
      /\ \A d \in Event : d # e => input'[d] = input[d]
      /\ review' \in [Event -> ReviewRow] /\ \A d \in Event : d # e => review'[d] = review[d]
  BY <1>1, <1>3 DEF InputRow
<1>5. TypeOK'
  BY <1>1, <1>2, <1>3, <1>4, Types, TypesNext
<1>6. Conversation' /\ Bound'
  BY <1>2, <1>4 DEF ControllerInv, Conversation, Bound, Approves
<1>7. Disposed'
  BY <1>0, <1>2, <1>4 DEF ControllerInv, Disposed
<1>8. Decided'
  BY <1>0, <1>2, <1>3, <1>4 DEF ControllerInv, Decided, Answer
<1>9. OpenOcc' = OpenOcc
  BY <1>2, Zenon DEF OpenOcc, PlanOcc, ResultOcc, QuestionOcc
<1>10. /\ PlanComment' = PlanComment /\ ResultComment' = ResultComment /\ Question' = Question
       /\ DurablePhase' = DurablePhase
  BY <1>2 DEF PlanComment, ResultComment, Question, DurablePhase
<1>11. Volatile'
  BY <1>1, Finds, ControllerBounds DEF Volatile, Moment, Event
<1>12. Shown'
  BY <1>1, <1>2, <1>10 DEF ControllerInv, Shown
<1>13. Underway'
  BY <1>1, <1>2, Finds DEF Underway, Fresh, Turn
<1>14. Covered'
  <2>1. LastPlan' = LastPlan /\ \A d \in Event : Batched(d)' = Batched(d)
    BY <1>1, <1>2 DEF LastPlan, Batched
  <2>2. PlanCoversInputs => PlanCoversInputs'
    BY <1>1, <1>2, <1>10 DEF PlanCoversInputs
  <2> QED BY <1>1, <1>2, <2>1, <2>2 DEF ControllerInv, Covered
<1>15. Single'
  BY <1>0, <1>2, <1>4 DEF Single, Claimed
<1> QED BY <1>5, <1>6, <1>7, <1>8, <1>11, <1>12, <1>13, <1>14, <1>15 DEF ControllerInv

-----------------------------------------------------------------------------
(* Reviews that are open move on, and may leave a deferred input behind.   *)
LEMMA ReviewsMove ==
  ASSUME ControllerInv, pc \notin {"posted", "replan"},
         pc' \in Turn, pc' \notin {"posted", "replanned"}, pc \in Turn \/ resume.kind # "ANSWER",
         UNCHANGED <<log, seen, input, claims, cycleVars, task, applied, interrupt, resume, failures,
                     crashes>>,
         outbox' \subseteq Event, call' \in [tool : Tool, id : 0 .. MaxLog], cycle # 0,
         revision' \in [Event -> RevisionRow], review' \in [Event -> ReviewRow],
         \A e \in Event : review'[e] = review[e] \/
           (review[e].status # "NONE" /\ review'[e].status # "REVIEWING"),
         \A e \in Event : revision'[e] = revision[e] \/
           /\ review[e].status = "REVIEWING" /\ revision'[e].cycle = revision[e].cycle
           /\ revision'[e].batched_at = revision[e].batched_at
           /\ revision'[e].status = "PENDING" /\ revision'[e].reason = "DEFERRED_FEEDBACK"
  PROVE  ControllerInv'
<1>0. TypeOK /\ UNCHANGED <<cycle, cycle_status, root>>
  BY DEF ControllerInv, cycleVars
<1>1. TypeOK'
  BY <1>0, Types, TypesNext
<1>2. Volatile'
  BY Finds DEF Volatile, Turn, Moment
<1>3. Conversation' /\ Bound' /\ Decided'
  BY <1>0 DEF ControllerInv, Conversation, Bound, Approves, Decided
<1>4. Disposed'
  BY <1>0 DEF ControllerInv, Disposed
<1>5. OpenOcc' = OpenOcc
  BY <1>0, Zenon DEF OpenOcc, PlanOcc, ResultOcc, QuestionOcc
<1>6. /\ PlanComment' = PlanComment /\ ResultComment' = ResultComment /\ Question' = Question
      /\ DurablePhase' = DurablePhase
  BY <1>0 DEF PlanComment, ResultComment, Question, DurablePhase
<1>7. Shown'
  BY <1>0, <1>6 DEF ControllerInv, Shown
<1>8. Underway'
  <2>1. resume.kind = "ANSWER" => resume.event \in Event /\ Carries \in applied /\ Carries' = Carries
    BY DEF ControllerInv, Underway, Carries
  <2>2. pc' \notin Fresh /\ pc' \notin {"revise", "succeed", "batch", "batch_successor", "root", "drive"}
        /\ pc' \notin {"steer", "wait", "replan", "replanned", "idle", "deliver", "begin"}
    BY DEF Turn, Fresh
  <2> QED BY <1>0, <2>1, <2>2 DEF Underway
<1>9. Covered'
  <2>1. LastPlan' = LastPlan
    BY DEF LastPlan
  <2>2. \A e \in Event : Batched(e)' => Batched(e) /\ revision'[e] = revision[e]
    BY <1>0 DEF Batched
  <2>3. PlanCoversInputs => PlanCoversInputs'
    BY <1>0, <1>6, <2>2 DEF PlanCoversInputs, Batched
  <2> QED BY <1>0, <2>1, <2>3 DEF ControllerInv, Covered
<1>10. Single'
  <2>1. TaskReviews("REVIEWING")' \subseteq TaskReviews("REVIEWING")
    BY <1>0 DEF TaskReviews
  <2>2. pc' \notin {"branch", "steer", "wait"}
    BY DEF Turn
  <2> QED BY <1>0, <1>5, <2>1, <2>2 DEF ControllerInv, Single, Claimed
<1> QED BY <1>1, <1>2, <1>3, <1>4, <1>7, <1>8, <1>9, <1>10 DEF ControllerInv

(* A deferral that was answered, or overtaken, closes its review.          *)
LEMMA ClosesDeferral ==
  ASSUME ControllerInv, close_deferred_feedback \/ supersede_deferred_feedback
  PROVE  ControllerInv'
<1>1. /\ UNCHANGED <<log, seen, input, claims, revision, outbox, cycleVars, task, applied, interrupt,
                     resume, call, failures, crashes>>
      /\ CloseDeferred
      /\ \/ pc = "close" /\ pc' = "agent"
         \/ pc = "drive" /\ pc' = "closed" /\ resume.kind # "ANSWER"
  BY DEF close_deferred_feedback, supersede_deferred_feedback, Goto
<1>2. review \in [Event -> ReviewRow] /\ revision \in [Event -> RevisionRow]
  BY Types DEF ControllerInv
<1>3. /\ review' \in [Event -> ReviewRow]
      /\ \A e \in Event : review'[e] = review[e] \/
           (review[e].status # "NONE" /\ review'[e].status # "REVIEWING")
  <2> DEFINE E == TaskReviews("DEFERRED_WAITING")
  <2>1. review' = [e \in Event |->
          IF e \in E THEN [review[e] EXCEPT !.status = "CLOSED"] ELSE review[e]]
    BY <1>1 DEF CloseDeferred
  <2>2. \A e \in E : review[e].status = "DEFERRED_WAITING"
    BY DEF TaskReviews
  <2> HIDE DEF E
  <2> QED BY <1>2, <2>1, <2>2 DEF ReviewRow
<1> QED BY <1>1, <1>2, <1>3, Finds, ReviewsMove DEF Turn

(* A review whose replanning is done.                                      *)
LEMMA ResolvesReview ==
  ASSUME ControllerInv, resolve_current_feedback_replan
  PROVE  ControllerInv'
<1>1. /\ UNCHANGED <<log, seen, input, claims, revision, outbox, cycleVars, task, applied, interrupt,
                     resume, call, failures, crashes>>
      /\ pc = "replanned" /\ pc' = "agent" /\ review' = [review EXCEPT ![call.id].status = "REPLAN"]
  BY DEF resolve_current_feedback_replan, Goto
<1>2. call.id \in Event /\ review[call.id].status = "REVIEWING"
  BY <1>1 DEF ControllerInv, Underway
<1>3. review \in [Event -> ReviewRow] /\ revision \in [Event -> RevisionRow]
  BY Types DEF ControllerInv
<1>4. /\ review' \in [Event -> ReviewRow]
      /\ \A e \in Event : review'[e] = review[e] \/
           (review[e].status # "NONE" /\ review'[e].status # "REVIEWING")
  BY <1>1, <1>2, <1>3 DEF ReviewRow
<1> QED BY <1>1, <1>3, <1>4, Finds, ReviewsMove DEF Turn

(* Feedback that waits for the next revision.                              *)
LEMMA DefersReview ==
  ASSUME ControllerInv, defer_feedback_to_revision
  PROVE  ControllerInv'
<1>1. PICK e \in TaskReviews("REVIEWING") :
        /\ revision' = [revision EXCEPT ![e].status = "PENDING", ![e].reason = "DEFERRED_FEEDBACK"]
        /\ review' = [review EXCEPT ![e].status = "DEFERRED_WAITING"]
        /\ outbox' = outbox \cup {e}
  BY DEF defer_feedback_to_revision
<1>2. /\ UNCHANGED <<log, seen, input, claims, cycleVars, task, applied, interrupt, resume, failures,
                     crashes>>
      /\ pc = "agent" /\ pc' = "interrupt" /\ call' = [tool |-> "defer", id |-> 0]
  BY DEF defer_feedback_to_revision, Calls, Call
<1>3. /\ e \in Event /\ review[e].status = "REVIEWING" /\ review \in [Event -> ReviewRow]
      /\ revision \in [Event -> RevisionRow] /\ outbox \subseteq Event
  BY Types DEF ControllerInv, TaskReviews
<1>4. /\ review' \in [Event -> ReviewRow]
      /\ \A d \in Event : review'[d] = review[d] \/
           (review[d].status # "NONE" /\ review'[d].status # "REVIEWING")
  BY <1>1, <1>3 DEF ReviewRow
<1>5. /\ revision' \in [Event -> RevisionRow]
      /\ \A d \in Event : revision'[d] = revision[d] \/
           /\ review[d].status = "REVIEWING" /\ revision'[d].cycle = revision[d].cycle
           /\ revision'[d].batched_at = revision[d].batched_at
           /\ revision'[d].status = "PENDING" /\ revision'[d].reason = "DEFERRED_FEEDBACK"
  BY <1>1, <1>3 DEF RevisionRow
<1>6. call' \in [tool : Tool, id : 0 .. MaxLog] /\ outbox' \subseteq Event
  BY <1>1, <1>2, <1>3, Finds DEF Tool
<1> QED BY <1>2, <1>4, <1>5, <1>6, Finds, ReviewsMove DEF Turn

-----------------------------------------------------------------------------
(* The task moves; its plan and its result only move forward.              *)
LEMMA TaskMoves ==
  ASSUME ControllerInv,
         UNCHANGED <<log, inboxVars, cycle, root, applied, crashes>>, failures' \in 0 .. MaxFailures,
         task' \in TaskRow, cycle_status' \in CycleStatus,
         task'.plan >= task.plan, task'.result >= task.result,
         task'.phase = "WAITING_FOR_PLAN_APPROVAL" =>
           task'.plan > task.plan \/ (task'.plan = task.plan /\ task'.phase = task.phase),
         task'.phase = "WAITING_FOR_RESULT_APPROVAL" =>
           task'.result > task.result \/ (task'.result = task.result /\ task'.phase = task.phase)
  PROVE  /\ TypeOK' /\ Conversation' /\ Disposed' /\ Bound' /\ Decided'
         /\ PlanComment' = PlanComment /\ ResultComment' = ResultComment
         /\ UNCHANGED <<log, input, claims, revision, review, cycle, root, applied, crashes>>
         /\ PendingRevision' = PendingRevision /\ \A s : TaskReviews(s)' = TaskReviews(s)
<1>0. /\ TypeOK /\ task \in TaskRow /\ applied \subseteq Answer
      /\ UNCHANGED <<seen, input, claims, revision, review, outbox>>
  BY Types DEF ControllerInv, inboxVars
<1>1. TypeOK'
  BY <1>0, Types, TypesNext
<1>2. Conversation' /\ Disposed' /\ Bound'
  BY <1>0 DEF ControllerInv, Conversation, Disposed, Bound, Approves
<1>3. Decided'
  <2>1. /\ task.plan \in Nat /\ task.result \in Nat /\ task'.plan \in Nat /\ task'.result \in Nat
        /\ \A a \in applied : a.occ.id \in Nat
    BY <1>0, ControllerBounds DEF TaskRow, Answer, Occurrence
  <2>2. \A a \in applied :
          /\ a.occ.cycle = cycle /\ a.occ.kind = "PLAN_APPROVAL" =>
               a.occ.id <= task'.plan /\ (task'.phase = "WAITING_FOR_PLAN_APPROVAL" => a.occ.id < task'.plan)
          /\ a.occ.cycle = cycle /\ a.occ.kind = "RESULT_APPROVAL" =>
               a.occ.id <= task'.result /\ (task'.phase = "WAITING_FOR_RESULT_APPROVAL" => a.occ.id < task'.result)
    BY <2>1 DEF ControllerInv, Decided
  <2> QED BY <1>0, <2>2 DEF ControllerInv, Decided
<1>4. PlanComment' = PlanComment /\ ResultComment' = ResultComment
      /\ PendingRevision' = PendingRevision /\ \A s : TaskReviews(s)' = TaskReviews(s)
  BY <1>0 DEF PlanComment, ResultComment, PendingRevision, TaskReviews
<1> QED BY <1>0, <1>1, <1>2, <1>3, <1>4

(* Unless the task waits, every claim of the initial workflow was applied, *)
(* or is of a question.                                                    *)
LEMMA NothingUnapplied ==
  ASSUME ControllerInv, task.phase \notin Waiting \/ TaskReviews("REVIEWING") # {},
         UNCHANGED <<input, claims, cycle, applied>>, cycle_status' = cycle_status,
         pc' \notin {"branch", "steer", "wait"}
  PROVE  Single'
<1>1. \A e \in Event : Claimed(e) => input[e].occ.kind # "NONE"
  BY DEF ControllerInv, Disposed, Claimed
<1>2. task.phase \notin Waiting => OpenOcc.kind = "NONE"
  BY Finds, Opens
<1> QED BY <1>1, <1>2 DEF ControllerInv, Single, Claimed

(* Only the phase of the task moves.                                       *)
LEMMA PhaseMoves ==
  ASSUME TypeOK, NEW phase \in Phase, task' = [task EXCEPT !.phase = phase]
  PROVE  /\ task' \in TaskRow /\ task'.phase = phase
         /\ UNCHANGED <<task.plan, task.result, task.question, task.from>>
         /\ task'.plan >= task.plan /\ task'.result >= task.result
<1>1. task \in TaskRow
  BY Types
<1>2. /\ task' \in TaskRow /\ task'.phase = phase
      /\ UNCHANGED <<task.plan, task.result, task.question, task.from>>
  BY <1>1 DEF TaskRow
<1>3. task.plan \in Nat /\ task.result \in Nat
  BY <1>1, ControllerBounds DEF TaskRow
<1> QED BY <1>2, <1>3

(* The controller takes its task up, or finds it done.                     *)
LEMMA Selects ==
  ASSUME ControllerInv, select_active_task
  PROVE  ControllerInv'
<1>0. TypeOK /\ task \in TaskRow /\ cycle_status \in CycleStatus /\ cycle # 0
  BY Types, Finds DEF ControllerInv, select_active_task
<1>1. /\ UNCHANGED <<log, inboxVars, cycle, root, applied, interrupt, crashes>>
      /\ cycle_status' = (IF task.phase = "DONE" THEN "AWAITING_PUBLICATION" ELSE cycle_status)
      /\ task' = (IF task.phase = "PENDING" THEN [task EXCEPT !.phase = "PLANNING"] ELSE task)
  BY DEF select_active_task
<1>2. /\ \/ /\ pc = "branch" /\ pc' = "steer" /\ task.phase # "DONE" /\ cycle_status = "ACTIVE"
            /\ UNCHANGED <<resume, call, failures>>
         \/ pc \in {"branch", "select"} /\ pc' = "settle" /\ UNCHANGED <<resume, call, failures>>
         \/ pc = "successor" /\ EndTick
  <2>1. CASE pc = "successor"
    BY <2>1 DEF select_active_task
  <2>2. CASE pc # "successor"
    BY <2>2 DEF select_active_task, Goto
  <2> QED BY <2>1, <2>2
<1>3. /\ task' \in TaskRow /\ cycle_status' \in CycleStatus
      /\ UNCHANGED <<task.plan, task.result, task.question, task.from>>
      /\ (task' = task \/ (task.phase = "PENDING" /\ task'.phase = "PLANNING"))
      /\ (cycle_status' = "ACTIVE" => cycle_status = "ACTIVE")
      /\ failures' \in 0 .. MaxFailures
      /\ task'.plan >= task.plan /\ task'.result >= task.result
  <2>1. failures' \in 0 .. MaxFailures
    BY <1>0, <1>2, Types, ControllerBounds DEF EndTick
  <2>2. cycle_status' \in CycleStatus /\ (cycle_status' = "ACTIVE" => cycle_status = "ACTIVE")
    BY <1>0, <1>1 DEF CycleStatus
  <2>3. CASE task' = task
    <3>1. task.plan \in Nat /\ task.result \in Nat
      BY <1>0, ControllerBounds DEF TaskRow
    <3> QED BY <1>0, <2>1, <2>2, <2>3, <3>1
  <2>4. CASE task' # task
    <3>1. task.phase = "PENDING" /\ task' = [task EXCEPT !.phase = "PLANNING"]
      BY <1>1, <2>4
    <3> QED BY <1>0, <2>1, <2>2, <3>1, PhaseMoves DEF Phase
  <2> QED BY <2>3, <2>4
<1>4. /\ TypeOK' /\ Conversation' /\ Disposed' /\ Bound' /\ Decided'
      /\ PlanComment' = PlanComment /\ ResultComment' = ResultComment
      /\ UNCHANGED <<log, input, claims, revision, review, cycle, root, applied, crashes>>
      /\ PendingRevision' = PendingRevision /\ \A s : TaskReviews(s)' = TaskReviews(s)
  BY <1>1, <1>3, TaskMoves
<1>5. OpenOcc' = OpenOcc
  BY <1>3, <1>4 DEF OpenOcc, PlanOcc, ResultOcc, QuestionOcc
<1>6. Volatile'
  BY <1>1, <1>2, Finds DEF Volatile, Moment, EndTick, Forget, NoResume, NoCall, Tool
<1>7. Shown'
  <2>1. task'.phase = "WAITING_FOR_INPUT" => Question' = Question
    BY <1>1, <1>3, <1>4 DEF Question
  <2>2. pc' # "posted"
    BY <1>2 DEF EndTick
  <2> QED BY <1>3, <1>4, <2>1, <2>2 DEF ControllerInv, Shown
<1>8. Underway'
  <2>1. CASE pc = "successor" /\ EndTick
    BY <1>0, <1>4, <2>1, IdleOwesNothing DEF EndTick, Forget, NoResume
  <2>2. CASE ~(pc = "successor" /\ EndTick)
    BY <1>0, <1>1, <1>2, <2>2, Finds DEF Underway, Fresh, Turn
  <2> QED BY <2>1, <2>2
<1>9. Covered'
  <2>1. pc' # "posted" /\ pc \notin {"posted", "replan"}
    BY <1>2 DEF EndTick
  <2>2. LastPlan' = LastPlan /\ \A e \in Event : Batched(e)' = Batched(e)
    BY <1>3, <1>4, <2>1 DEF LastPlan, Batched
  <2>3. PlanCoversInputs => PlanCoversInputs'
    BY <1>3, <1>4, <2>1 DEF PlanCoversInputs, DurablePhase
  <2> QED BY <1>4, <2>1, <2>2, <2>3 DEF ControllerInv, Covered
<1>10. Single'
  <2>1. pc' \in {"branch", "steer", "wait"} => pc = "branch"
    BY <1>2 DEF EndTick
  <2> QED BY <1>3, <1>4, <1>5, <2>1 DEF ControllerInv, Single, Claimed
<1> QED BY <1>4, <1>6, <1>7, <1>8, <1>9, <1>10 DEF ControllerInv

(* Steering makes a revision plan again.                                   *)
LEMMA Replans ==
  ASSUME ControllerInv, replan_for_revision_inputs
  PROVE  ControllerInv'
<1>0. TypeOK /\ task \in TaskRow /\ cycle_status \in CycleStatus /\ cycle > 1
  BY Types DEF ControllerInv, Underway, replan_for_revision_inputs
<1>1. /\ UNCHANGED <<log, inboxVars, cycle, cycle_status, root, applied, interrupt, crashes>>
      /\ task' = [task EXCEPT !.phase = "PLANNING"] /\ EndTick /\ pc = "replan"
  BY DEF replan_for_revision_inputs, cycleVars
<1>2. /\ task' \in TaskRow /\ UNCHANGED <<task.plan, task.result>> /\ task'.phase = "PLANNING"
      /\ task'.plan >= task.plan /\ task'.result >= task.result /\ failures' \in 0 .. MaxFailures
      /\ cycle_status' \in CycleStatus
  <2>1. failures' \in 0 .. MaxFailures
    BY <1>0, <1>1, Types, ControllerBounds DEF EndTick
  <2> QED BY <1>0, <1>1, <2>1, PhaseMoves DEF Phase
<1>3. /\ TypeOK' /\ Conversation' /\ Disposed' /\ Bound' /\ Decided'
      /\ PlanComment' = PlanComment /\ ResultComment' = ResultComment
      /\ UNCHANGED <<log, input, claims, revision, review, cycle, root, applied, crashes>>
      /\ PendingRevision' = PendingRevision /\ \A s : TaskReviews(s)' = TaskReviews(s)
  BY <1>1, <1>2, TaskMoves
<1>4. Volatile'
  BY <1>1, Finds DEF Volatile, Moment, EndTick, Forget, NoResume, NoCall, Tool
<1>5. Underway'
  BY <1>0, <1>1, <1>3, IdleOwesNothing, ControllerBounds, Types DEF EndTick, Forget, NoResume
<1>6. Shown'
  BY <1>1, <1>2, <1>3 DEF ControllerInv, Shown, EndTick
<1>7. Covered'
  BY <1>1, <1>2, <1>3 DEF ControllerInv, Covered, LastPlan, PlanCoversInputs, DurablePhase, EndTick
<1>8. Single'
  BY <1>0, <1>1, Types, ControllerBounds DEF Single
<1> QED BY <1>3, <1>4, <1>5, <1>6, <1>7, <1>8 DEF ControllerInv

(* The row of a task that shows a plan.                                    *)
LEMMA ShowsPlan ==
  ASSUME TypeOK, NEW phase \in Phase, NEW at \in 0 .. MaxLog,
         task' = [task EXCEPT !.phase = phase, !.plan = at]
  PROVE  /\ task' \in TaskRow /\ task'.phase = phase /\ task'.plan = at
         /\ task'.result = task.result /\ task'.result >= task.result
<1>1. task \in TaskRow
  BY Types
<1>2. task.result >= task.result
  BY <1>1, ControllerBounds DEF TaskRow
<1> QED BY <1>1, <1>2 DEF TaskRow

(* The row of a task that shows a result.                                  *)
LEMMA ShowsResult ==
  ASSUME TypeOK, NEW phase \in Phase, NEW at \in 0 .. MaxLog,
         task' = [task EXCEPT !.phase = phase, !.result = at]
  PROVE  /\ task' \in TaskRow /\ task'.phase = phase /\ task'.result = at
         /\ task'.plan = task.plan /\ task'.plan >= task.plan
<1>1. task \in TaskRow
  BY Types
<1>2. task.plan >= task.plan
  BY <1>1, ControllerBounds DEF TaskRow
<1> QED BY <1>1, <1>2 DEF TaskRow

(* The row of a task that asks, or is answered.                            *)
LEMMA AsksOrGoesOn ==
  ASSUME TypeOK, NEW phase \in Phase, NEW from \in {"NONE", "PLANNING", "EXECUTING"},
         NEW question \in 0 .. 2 * MaxTexts, NEW at \in 0 .. MaxLog,
         task' = [task EXCEPT !.phase = phase, !.from = from, !.question = question,
                              !.asked_at = at]
  PROVE  /\ task' \in TaskRow /\ task'.phase = phase /\ task'.from = from
         /\ UNCHANGED <<task.plan, task.result>>
         /\ task'.plan >= task.plan /\ task'.result >= task.result
<1>1. task \in TaskRow
  BY Types
<1>2. task.plan >= task.plan /\ task.result >= task.result
  BY <1>1, ControllerBounds DEF TaskRow
<1> QED BY <1>1, <1>2 DEF TaskRow

(* The row follows its comment: a plan or a result waits for approval.     *)
LEMMA RowFollows ==
  ASSUME ControllerInv, submit_posted_plan \/ publish_validated_result
  PROVE  ControllerInv'
<1>0. /\ TypeOK /\ task \in TaskRow /\ cycle_status \in CycleStatus /\ failures \in 0 .. MaxFailures
      /\ task.plan \in Nat /\ task.result \in Nat
  <2>1. TypeOK /\ task \in TaskRow /\ cycle_status \in CycleStatus /\ failures \in 0 .. MaxFailures
    BY Types DEF ControllerInv
  <2> QED BY <2>1, ControllerBounds DEF TaskRow
<1>1. /\ UNCHANGED <<log, inboxVars, cycle, cycle_status, root, applied, interrupt, crashes>>
      /\ UNCHANGED <<resume, call, failures>> /\ pc = "posted" /\ pc' = "interrupt"
  BY DEF submit_posted_plan, publish_validated_result, Goto, cycleVars
<1>2. /\ call.id \in DOMAIN log /\ call.id \in 0 .. MaxLog /\ call.id \in Nat /\ call.id # 0
      /\ task.phase \in {"PLANNING", "EXECUTING"}
  BY <1>0, <1>1, Positions, Finds DEF ControllerInv, Shown
<1>3. Volatile' /\ Single'
  <2>1. task.phase \notin Waiting
    BY <1>2 DEF Waiting
  <2> QED BY <1>1, <2>1, Finds, NothingUnapplied DEF Volatile, Moment, inboxVars
<1>4. CASE submit_posted_plan
  <2>1. call.tool = "submit_plan" /\ log[call.id] = PlanComment /\ task.plan < call.id
    BY <1>1, <1>4 DEF ControllerInv, Shown, submit_posted_plan
  <2>2. /\ task' \in TaskRow /\ task'.phase = "WAITING_FOR_PLAN_APPROVAL" /\ task'.plan = call.id
        /\ task'.result = task.result /\ task'.result >= task.result
    <3>1. task' = [task EXCEPT !.phase = "WAITING_FOR_PLAN_APPROVAL", !.plan = call.id]
      BY <1>4 DEF submit_posted_plan
    <3>2. "WAITING_FOR_PLAN_APPROVAL" \in Phase
      BY DEF Phase, Waiting
    <3> QED BY <1>0, <1>2, <3>1, <3>2, ShowsPlan
  <2>3. task'.plan >= task.plan /\ task'.plan > task.plan
    BY <1>0, <1>2, <2>1, <2>2
  <2>4. /\ TypeOK' /\ Conversation' /\ Disposed' /\ Bound' /\ Decided'
        /\ PlanComment' = PlanComment /\ ResultComment' = ResultComment
        /\ UNCHANGED <<log, input, claims, revision, review, cycle, root, applied, crashes>>
        /\ PendingRevision' = PendingRevision /\ \A s : TaskReviews(s)' = TaskReviews(s)
    BY <1>0, <1>1, <2>2, <2>3, TaskMoves
  <2>5. Shown'
    BY <1>1, <1>2, <2>1, <2>2, <2>4 DEF ControllerInv, Shown
  <2>6. Underway'
    BY <1>1, <2>4, Finds DEF ControllerInv, Underway, Carries, Fresh, Turn
  <2>7. Covered'
    <3>1. LastPlan' = LastPlan /\ \A e \in Event : Batched(e)' = Batched(e)
      BY <1>1, <2>1, <2>2, <2>4 DEF LastPlan, Batched
    <3>2. crashes = 0 => PlanCoversInputs'
      BY <1>1, <2>1, <2>2, <2>4 DEF ControllerInv, Covered, PlanCoversInputs, Batched
    <3> QED BY <1>1, <2>4, <3>1, <3>2 DEF ControllerInv, Covered
  <2> QED BY <1>3, <2>4, <2>5, <2>6, <2>7 DEF ControllerInv
<1>5. CASE publish_validated_result
  <2>1. /\ call.tool # "submit_plan" /\ log[call.id] = ResultComment /\ task.result < call.id
        /\ task.phase = "EXECUTING"
    BY <1>1, <1>5 DEF ControllerInv, Shown, publish_validated_result
  <2>2. /\ task' \in TaskRow /\ task'.phase = "WAITING_FOR_RESULT_APPROVAL" /\ task'.result = call.id
        /\ task'.plan = task.plan /\ task'.plan >= task.plan
    <3>1. task' = [task EXCEPT !.phase = "WAITING_FOR_RESULT_APPROVAL", !.result = call.id]
      BY <1>5 DEF publish_validated_result
    <3>2. "WAITING_FOR_RESULT_APPROVAL" \in Phase
      BY DEF Phase, Waiting
    <3> QED BY <1>0, <1>2, <3>1, <3>2, ShowsResult
  <2>3. task'.result >= task.result /\ task'.result > task.result
    BY <1>0, <1>2, <2>1, <2>2
  <2>4. /\ TypeOK' /\ Conversation' /\ Disposed' /\ Bound' /\ Decided'
        /\ PlanComment' = PlanComment /\ ResultComment' = ResultComment
        /\ UNCHANGED <<log, input, claims, revision, review, cycle, root, applied, crashes>>
        /\ PendingRevision' = PendingRevision /\ \A s : TaskReviews(s)' = TaskReviews(s)
    BY <1>0, <1>1, <2>2, <2>3, TaskMoves
  <2>5. Shown'
    BY <1>1, <1>2, <2>1, <2>2, <2>4 DEF ControllerInv, Shown
  <2>6. Underway'
    BY <1>1, <2>4, Finds DEF ControllerInv, Underway, Carries, Fresh, Turn
  <2>7. Covered'
    <3>1. LastPlan' = LastPlan /\ \A e \in Event : Batched(e)' = Batched(e)
      BY <1>1, <2>1, <2>2, <2>4 DEF LastPlan, Batched
    <3>2. PlanCoversInputs => PlanCoversInputs'
      BY <1>1, <2>1, <2>2, <2>4 DEF PlanCoversInputs, DurablePhase
    <3> QED BY <1>1, <2>4, <3>1, <3>2 DEF ControllerInv, Covered
  <2> QED BY <1>3, <2>4, <2>5, <2>6, <2>7 DEF ControllerInv
<1> QED BY <1>4, <1>5

(* The agent goes back to planning, by a validation or by a review.        *)
LEMMA BackToPlanning ==
  ASSUME ControllerInv, finish_validation_replan \/ replan_from_feedback
  PROVE  ControllerInv'
<1>0. TypeOK /\ cycle_status \in CycleStatus /\ failures \in 0 .. MaxFailures /\ cycle # 0
  BY Types, Finds DEF ControllerInv, finish_validation_replan, replan_from_feedback, Calls
<1>1. /\ UNCHANGED <<log, inboxVars, cycle, cycle_status, root, applied, interrupt, crashes>>
      /\ UNCHANGED <<resume, failures>> /\ pc = "agent"
      /\ task' = [task EXCEPT !.phase = "PLANNING"]
      /\ task.phase \notin Waiting \/ TaskReviews("REVIEWING") # {}
      /\ \/ pc' = "agent" /\ call' = call
         \/ \E e \in TaskReviews("REVIEWING") :
              pc' = "replanned" /\ call' = [tool |-> "replan", id |-> e]
  <2>1. CASE finish_validation_replan
    BY <2>1 DEF finish_validation_replan, Calls, Goto, cycleVars, Waiting
  <2>2. CASE replan_from_feedback
    BY <2>2 DEF replan_from_feedback, Calls, Call, cycleVars
  <2> QED BY <2>1, <2>2
<1>2. /\ task' \in TaskRow /\ task'.phase = "PLANNING"
      /\ UNCHANGED <<task.plan, task.result, task.question, task.from>>
      /\ task'.plan >= task.plan /\ task'.result >= task.result
  BY <1>0, <1>1, PhaseMoves DEF Phase
<1>3. /\ TypeOK' /\ Conversation' /\ Disposed' /\ Bound' /\ Decided'
      /\ PlanComment' = PlanComment /\ ResultComment' = ResultComment
      /\ UNCHANGED <<log, input, claims, revision, review, cycle, root, applied, crashes>>
      /\ PendingRevision' = PendingRevision /\ \A s : TaskReviews(s)' = TaskReviews(s)
  BY <1>0, <1>1, <1>2, TaskMoves
<1>4. Volatile'
  <2>1. TaskReviews("REVIEWING") \subseteq 0 .. MaxLog
    BY ControllerBounds DEF TaskReviews, Event
  <2> QED BY <1>1, <2>1, Finds DEF Volatile, Moment, Tool
<1>5. Underway'
  <2>1. pc' = "replanned" => call'.id \in Event /\ review'[call'.id].status = "REVIEWING"
    BY <1>1, <1>3 DEF TaskReviews
  <2>2. pc' \in {"agent", "replanned"}
    BY <1>1
  <2> QED BY <1>0, <1>1, <1>3, <2>1, <2>2, Finds DEF ControllerInv, Underway, Carries, Fresh, Turn
<1>6. Shown'
  <2>1. pc' # "posted"
    BY <1>1
  <2> QED BY <1>2, <1>3, <2>1 DEF ControllerInv, Shown
<1>7. Covered'
  <2>1. pc' # "posted" /\ pc # "posted"
    BY <1>1
  <2>2. LastPlan' = LastPlan /\ PlanCoversInputs'
    BY <1>2, <2>1 DEF LastPlan, PlanCoversInputs, DurablePhase
  <2> QED BY <1>3, <2>1, <2>2 DEF ControllerInv, Covered
<1>8. Single'
  <2>1. pc' \notin {"branch", "steer", "wait"}
    BY <1>1
  <2> QED BY <1>1, <1>3, <2>1, NothingUnapplied
<1> QED BY <1>3, <1>4, <1>5, <1>6, <1>7, <1>8 DEF ControllerInv

(* The agent asks.                                                         *)
LEMMA Asks ==
  ASSUME ControllerInv, pause_for_clarification
  PROVE  ControllerInv'
<1>0. /\ TypeOK /\ task \in TaskRow /\ cycle_status \in CycleStatus /\ failures \in 0 .. MaxFailures
      /\ cycle # 0
  BY Types, Finds DEF ControllerInv, pause_for_clarification, Calls
<1>1. /\ UNCHANGED <<log, inboxVars, cycle, cycle_status, root, applied, interrupt, crashes>>
      /\ UNCHANGED <<resume, failures>> /\ pc = "agent" /\ pc' = "interrupt"
      /\ call' = [tool |-> "request_clarification", id |-> 0] /\ Len(log) < MaxLog
      /\ "request_clarification" \in allowed_tools
  BY DEF pause_for_clarification, Calls, Call, cycleVars
<1>2. task.phase \in {"PLANNING", "EXECUTING"}
  <2>1. CASE TaskReviews("REVIEWING") # {}
    BY <1>1, <2>1 DEF allowed_tools
  <2>2. CASE TaskReviews("REVIEWING") = {} /\ TaskReviews("DEFERRED_WAITING") # {}
    BY <1>1, <2>2 DEF allowed_tools
  <2>3. CASE TaskReviews("REVIEWING") = {} /\ TaskReviews("DEFERRED_WAITING") = {}
    BY <1>1, <2>3 DEF allowed_tools
  <2> QED BY <2>1, <2>2, <2>3
<1>3. PICK question \in 0 .. 2 * MaxTexts :
        task' = [task EXCEPT !.phase = "WAITING_FOR_INPUT", !.from = task.phase,
                             !.question = question, !.asked_at = Len(log)]
  <2>1. PICK text \in 1 .. MaxTexts :
          task' = [task EXCEPT !.phase = "WAITING_FOR_INPUT", !.from = task.phase,
                               !.question = QuestionId(task.phase, text), !.asked_at = Len(log)]
    BY DEF pause_for_clarification
  <2>2. QuestionId(task.phase, text) \in 0 .. 2 * MaxTexts
    BY ControllerBounds DEF QuestionId
  <2> QED BY <2>1, <2>2
<1>4. /\ task' \in TaskRow /\ task'.phase = "WAITING_FOR_INPUT" /\ task'.from = task.phase
      /\ UNCHANGED <<task.plan, task.result>>
  <2>1. "WAITING_FOR_INPUT" \in Phase /\ task.phase \in {"NONE", "PLANNING", "EXECUTING"}
    BY <1>2 DEF Phase, Waiting
  <2>2. Len(log) \in 0 .. MaxLog
    BY <1>0, Positions, ControllerBounds
  <2> QED BY <1>0, <1>3, <2>1, <2>2, AsksOrGoesOn
<1>5. task'.plan >= task.plan /\ task'.result >= task.result
  BY <1>0, <1>4, ControllerBounds DEF TaskRow
<1>6. /\ TypeOK' /\ Conversation' /\ Disposed' /\ Bound' /\ Decided'
      /\ PlanComment' = PlanComment /\ ResultComment' = ResultComment
      /\ UNCHANGED <<log, input, claims, revision, review, cycle, root, applied, crashes>>
      /\ PendingRevision' = PendingRevision /\ \A s : TaskReviews(s)' = TaskReviews(s)
  BY <1>0, <1>1, <1>4, <1>5, TaskMoves
<1>7. Volatile'
  BY <1>1, Finds DEF Volatile, Moment, Tool
<1>8. Underway'
  BY <1>0, <1>1, <1>6, Finds DEF ControllerInv, Underway, Carries, Fresh, Turn
<1>9. Shown'
  BY <1>1, <1>2, <1>4, <1>6 DEF ControllerInv, Shown
<1>10. Covered'
  <2>1. LastPlan' = LastPlan /\ \A e \in Event : Batched(e)' = Batched(e)
    BY <1>1, <1>4, <1>6 DEF LastPlan, Batched
  <2>2. PlanCoversInputs => PlanCoversInputs'
    BY <1>1, <1>2, <1>4, <1>6 DEF PlanCoversInputs, DurablePhase
  <2> QED BY <1>1, <1>6, <2>1, <2>2 DEF ControllerInv, Covered
<1>11. Single'
  <2>1. task.phase \notin Waiting
    BY <1>2 DEF Waiting
  <2> QED BY <1>1, <1>6, <2>1, NothingUnapplied
<1> QED BY <1>6, <1>7, <1>8, <1>9, <1>10, <1>11 DEF ControllerInv

(* Only the inputs of revisions move, and the tick with them.              *)
LEMMA InputsMove ==
  ASSUME ControllerInv, pc \notin {"posted", "replan"},
         pc' \notin {"posted", "branch", "steer", "wait"},
         UNCHANGED <<log, seen, input, claims, review, outbox, cycleVars, task, applied, crashes>>,
         failures' \in 0 .. MaxFailures, revision' \in [Event -> RevisionRow],
         \A e \in Event : revision'[e] = revision[e] \/
           /\ revision[e].status # "NONE" /\ revision'[e].reason = revision[e].reason
           /\ revision'[e].cycle <= cycle /\ revision'[e].batched_at <= Len(log),
         \A e \in Event : Batched(e)' =>
           \/ Batched(e) /\ revision'[e].batched_at = revision[e].batched_at
           \/ task.phase = "PENDING" \/ pc' = "replan"
  PROVE  /\ TypeOK' /\ Conversation' /\ Disposed' /\ Bound' /\ Decided' /\ Shown' /\ Covered' /\ Single'
         /\ OpenOcc' = OpenOcc /\ \A s : TaskReviews(s)' = TaskReviews(s)
         /\ UNCHANGED <<input, review, cycle, cycle_status, task, applied>>
<1> USE DEF cycleVars
<1>1. TypeOK' /\ Conversation' /\ Bound' /\ Decided'
  <2>1. TypeOK'
    BY Types, TypesNext DEF ControllerInv
  <2> QED BY <2>1 DEF ControllerInv, Conversation, Bound, Approves, Decided
<1>2. Disposed'
  BY DEF ControllerInv, Disposed
<1>3. OpenOcc' = OpenOcc /\ \A s : TaskReviews(s)' = TaskReviews(s)
  BY DEF OpenOcc, PlanOcc, ResultOcc, QuestionOcc, TaskReviews
<1>4. Shown'
  BY DEF ControllerInv, Shown, PlanComment, ResultComment, Question
<1>5. Covered'
  <2>1. LastPlan' = LastPlan /\ DurablePhase' = DurablePhase
    BY DEF LastPlan, DurablePhase
  <2>2. PlanCoversInputs => PlanCoversInputs'
    BY <2>1 DEF PlanCoversInputs, Batched, DurablePhase
  <2> QED BY <2>1, <2>2 DEF ControllerInv, Covered
<1>6. Single'
  BY <1>3 DEF ControllerInv, Single, Claimed
<1> QED BY <1>1, <1>2, <1>3, <1>4, <1>5, <1>6

(* A revision that is complete consumes its inputs.                        *)
LEMMA SettlesCycle ==
  ASSUME ControllerInv, _settle_completed_cycle
  PROVE  ControllerInv'
<1>1. /\ UNCHANGED <<log, seen, input, claims, review, outbox, cycleVars, task, applied, crashes>>
      /\ pc = "settle" /\ interrupt' = interrupt
      /\ \/ PendingRevision # {} /\ Goto("succeed")
         \/ EndTick
      /\ revision' = [e \in Event |->
           IF revision[e].status = "BATCHED" /\ revision[e].cycle = cycle /\ cycle > 1
           THEN [revision[e] EXCEPT !.status = "CONSUMED"] ELSE revision[e]]
  BY DEF _settle_completed_cycle
<1>2. TypeOK /\ revision \in [Event -> RevisionRow] /\ failures \in 0 .. MaxFailures
  BY Finds, Types
<1>3. failures' \in 0 .. MaxFailures /\ pc' \in {"succeed", "idle"}
  BY <1>1, <1>2, ControllerBounds DEF EndTick, Goto
<1>4. revision' \in [Event -> RevisionRow]
  BY <1>1, <1>2 DEF RevisionRow
<1>5. \A e \in Event :
        /\ UNCHANGED <<revision[e].reason, revision[e].cycle, revision[e].batched_at>>
        /\ revision'[e] = revision[e] \/ revision[e].status = "BATCHED"
        /\ revision'[e].status = "PENDING" <=> revision[e].status = "PENDING"
        /\ revision'[e].status \in {"BATCHED", "CONSUMED"} <=> revision[e].status \in {"BATCHED", "CONSUMED"}
  BY <1>1, <1>2 DEF RevisionRow
<1>6. \A e \in Event : revision[e].cycle <= cycle /\ revision[e].batched_at <= Len(log)
  BY DEF ControllerInv, Disposed
<1>7. \A e \in Event : Batched(e)' => Batched(e) /\ revision'[e].batched_at = revision[e].batched_at
  BY <1>1, <1>5 DEF Batched, cycleVars
<1>8. /\ TypeOK' /\ Conversation' /\ Disposed' /\ Bound' /\ Decided' /\ Shown' /\ Covered' /\ Single'
      /\ UNCHANGED <<input, cycle, cycle_status, task, applied>>
  BY <1>1, <1>3, <1>4, <1>5, <1>6, <1>7, InputsMove
<1>9. PendingRevision' = PendingRevision
  BY <1>5 DEF PendingRevision
<1>10. CASE PendingRevision # {} /\ Goto("succeed")
  <2>1. Volatile' /\ Underway'
    BY <1>1, <1>8, <1>9, <1>10, Finds
       DEF ControllerInv, Volatile, Underway, Goto, Moment, Fresh, Turn
  <2> QED BY <1>8, <2>1 DEF ControllerInv
<1>11. CASE EndTick
  <2>1. Volatile'
    BY <1>1, <1>11, Finds DEF Volatile, EndTick, Forget, NoResume, NoCall, Moment, Tool
  <2>2. Underway'
    BY <1>1, <1>8, <1>11, IdleOwesNothing
       DEF EndTick, Forget, NoResume, ControllerInv, Underway
  <2> QED BY <1>8, <2>1, <2>2 DEF ControllerInv
<1> QED BY <1>1, <1>10, <1>11

(* The pending inputs of E become inputs of the cycle.                     *)
LEMMA Joins ==
  ASSUME ControllerInv, NEW E, E \subseteq PendingRevision, Batch(E)
  PROVE  /\ revision' \in [Event -> RevisionRow]
         /\ \A e \in Event : revision'[e] = revision[e] \/
              /\ revision[e].status # "NONE" /\ revision'[e].reason = revision[e].reason
              /\ revision'[e].cycle <= cycle /\ revision'[e].batched_at <= Len(log)
<1>1. /\ TypeOK /\ revision \in [Event -> RevisionRow] /\ cycle \in 0 .. MaxCycles
      /\ Len(log) \in 0 .. MaxLog /\ cycle \in Nat /\ Len(log) \in Nat
  BY Finds, Types, Positions, ControllerBounds
<1>2. revision' = [e \in Event |->
        IF e \in E
        THEN [revision[e] EXCEPT !.status = "BATCHED", !.cycle = cycle, !.batched_at = Len(log)]
        ELSE revision[e]]
  BY DEF Batch
<1>3. \A e \in E : revision[e].status = "PENDING"
  BY DEF PendingRevision
<1>4. ASSUME NEW e \in Event
      PROVE  /\ revision'[e] \in RevisionRow
             /\ revision'[e] = revision[e] \/
                  /\ revision[e].status # "NONE" /\ revision'[e].reason = revision[e].reason
                  /\ revision'[e].cycle = cycle /\ revision'[e].batched_at = Len(log)
  <2>1. CASE e \in E
    <3>1. revision[e] \in RevisionRow /\ revision[e].status = "PENDING"
      BY <1>1, <1>3, <2>1
    <3>2. revision'[e] = [revision[e] EXCEPT !.status = "BATCHED", !.cycle = cycle,
                                             !.batched_at = Len(log)]
      BY <1>2, <2>1
    <3> QED BY <1>1, <3>1, <3>2 DEF RevisionRow
  <2>2. CASE e \notin E
    BY <1>1, <1>2, <2>2
  <2> QED BY <2>1, <2>2
<1>5. cycle <= cycle /\ Len(log) <= Len(log)
  BY <1>1
<1>6. revision' \in [Event -> RevisionRow]
  <2> DEFINE Row(e) == IF e \in E
                       THEN [revision[e] EXCEPT !.status = "BATCHED", !.cycle = cycle,
                                                !.batched_at = Len(log)]
                       ELSE revision[e]
  <2>1. revision' = [e \in Event |-> Row(e)]
    BY <1>2
  <2> HIDE DEF Row
  <2>2. \A e \in Event : Row(e) \in RevisionRow
    BY <1>4, <2>1
  <2> QED BY <2>1, <2>2
<1> QED BY <1>4, <1>5, <1>6

(* batch_revision_inputs: the new revision takes its inputs.               *)
LEMMA BatchesInputs ==
  ASSUME ControllerInv, batch_revision_inputs
  PROVE  ControllerInv'
<1>1. /\ UNCHANGED <<log, seen, input, claims, review, outbox, cycleVars, task, applied, crashes>>
      /\ UNCHANGED <<interrupt, resume, call, failures>> /\ Batch(PendingRevision)
      /\ \/ pc = "batch" /\ pc' = "claims"
         \/ pc = "batch_successor" /\ pc' = "successor"
  BY DEF batch_revision_inputs, Goto
<1>2. task.phase = "PENDING" /\ failures' \in 0 .. MaxFailures /\ cycle # 0
  BY <1>1, Finds, Types DEF ControllerInv, Underway
<1>3. /\ TypeOK' /\ Conversation' /\ Disposed' /\ Bound' /\ Decided' /\ Shown' /\ Covered' /\ Single'
      /\ UNCHANGED <<input, cycle, cycle_status, task, applied>>
  BY <1>1, <1>2, Joins, InputsMove
<1>4. Volatile' /\ Underway'
  BY <1>1, <1>2, <1>3, Finds DEF ControllerInv, Volatile, Underway, Moment, Fresh, Turn
<1> QED BY <1>3, <1>4 DEF ControllerInv

(* batch_steering: the revision that waits takes the steering in.          *)
LEMMA BatchesSteering ==
  ASSUME ControllerInv, batch_steering
  PROVE  ControllerInv'
<1>1. /\ UNCHANGED <<log, seen, input, claims, review, outbox, cycleVars, task, applied, crashes>>
      /\ UNCHANGED <<interrupt, resume, call, failures>> /\ Batch(Steering)
      /\ pc \in {"steer", "select"} /\ pc' = "replan" /\ cycle > 1
  BY DEF batch_steering, Goto, SteeringDue
<1>2. failures' \in 0 .. MaxFailures /\ Steering \subseteq PendingRevision /\ cycle # 0
  BY <1>1, Finds, Types DEF Steering
<1>3. /\ TypeOK' /\ Conversation' /\ Disposed' /\ Bound' /\ Decided' /\ Shown' /\ Covered' /\ Single'
      /\ UNCHANGED <<input, cycle, cycle_status, task, applied>>
  BY <1>1, <1>2, Joins, InputsMove
<1>4. Volatile' /\ Underway'
  BY <1>1, <1>2, <1>3, Finds DEF ControllerInv, Volatile, Underway, Moment, Fresh, Turn
<1> QED BY <1>3, <1>4 DEF ControllerInv

(* A cycle begins: nothing of it was shown or decided yet.                 *)
LEMMA CycleBegins ==
  ASSUME ControllerInv, cycle' = cycle + 1, cycle' <= MaxCycles, cycle_status' = "ACTIVE",
         root' \in seen, task' = NoTask, failures' = failures, pc' # "posted",
         UNCHANGED <<log, inboxVars, applied, crashes>>
  PROVE  /\ TypeOK' /\ Conversation' /\ Disposed' /\ Bound' /\ Decided' /\ Shown' /\ Covered'
         /\ UNCHANGED <<input, claims, revision, review, applied>> /\ task'.phase = "PENDING"
<1>0. /\ UNCHANGED <<seen, input, claims, revision, review, outbox>>
      /\ TypeOK /\ cycle \in Nat /\ cycle < cycle' /\ cycle' \in 0 .. MaxCycles
      /\ DOMAIN log \subseteq Event
  BY Finds, Types, Positions, ControllerBounds DEF inboxVars
<1>1. /\ task'.phase = "PENDING" /\ task'.plan = 0 /\ task'.result = 0
      /\ task' \in TaskRow
  BY ControllerBounds DEF NoTask, TaskRow, Phase
<1>2. seen \subseteq Event /\ "ACTIVE" \in CycleStatus
  BY <1>0, Types DEF CycleStatus
<1>3. TypeOK'
  BY <1>0, <1>1, <1>2, Types, TypesNext
<1>4. \A i \in DOMAIN log : log[i].cycle <= cycle /\ log[i].cycle \in Nat
  BY <1>0, Positions, ControllerBounds DEF ControllerInv, Conversation, Comment
<1>5. Conversation'
  BY <1>0, <1>4 DEF ControllerInv, Conversation
<1>6. \A e \in Event : revision[e].cycle <= cycle /\ revision[e].cycle \in Nat
  BY <1>0, Types, ControllerBounds DEF ControllerInv, Disposed, RevisionRow
<1>7. Disposed'
  BY <1>0, <1>6 DEF ControllerInv, Disposed
<1>8. Bound'
  BY <1>0 DEF ControllerInv, Bound, Approves
<1>9. Decided'
  <2>1. \A a \in applied : a.occ.cycle <= cycle /\ a.occ.cycle \in Nat
    BY <1>0, Types, ControllerBounds DEF ControllerInv, Decided, Answer, Occurrence
  <2>2. \A a \in applied : a.occ.cycle <= cycle' /\ a.occ.cycle # cycle'
    BY <1>0, <2>1
  <2> QED BY <1>0, <2>2 DEF ControllerInv, Decided
<1>10. Shown'
  BY <1>1 DEF Shown
<1>11. Covered'
  <2>1. \A i \in DOMAIN log : log[i].cycle # cycle'
    BY <1>0, <1>4
  <2>2. PlanCoversInputs'
    BY <1>1 DEF PlanCoversInputs, DurablePhase
  <2> QED BY <2>1, <2>2 DEF Covered
<1> QED BY <1>0, <1>1, <1>3, <1>5, <1>7, <1>8, <1>9, <1>10, <1>11

(* The initial workflow begins.                                            *)
LEMMA BeginsCycle ==
  ASSUME ControllerInv, _begin_cycle
  PROVE  ControllerInv'
<1>1. /\ pc = "begin" /\ pc' = "root" /\ cycle = 0 /\ cycle' = 1 /\ cycle_status' = "ACTIVE"
      /\ root' = 1 /\ task' = NoTask /\ UNCHANGED <<resume, call, failures, interrupt>>
      /\ UNCHANGED <<log, inboxVars, applied, crashes>>
  BY DEF _begin_cycle, Goto
<1>2. cycle' = cycle + 1 /\ cycle' <= MaxCycles /\ root' \in seen
  BY <1>1, ControllerBounds DEF ControllerInv, Conversation
<1>3. /\ TypeOK' /\ Conversation' /\ Disposed' /\ Bound' /\ Decided' /\ Shown' /\ Covered'
      /\ UNCHANGED <<input, claims, applied>>
  BY <1>1, <1>2, CycleBegins
<1>4. \A e \in Event : input[e].status = "NONE"
  BY <1>1 DEF ControllerInv, Underway
<1>5. 1 \in Event
  BY Finds, Positions
<1>6. Volatile' /\ Underway'
  BY <1>1, <1>3, <1>4, <1>5, Finds DEF ControllerInv, Volatile, Underway, Moment, Fresh, Turn
<1>7. Single'
  BY <1>3, <1>4 DEF Single, Claimed
<1> QED BY <1>3, <1>6, <1>7 DEF ControllerInv

(* A revision begins, with the earliest comment that asks for it.          *)
LEMMA BeginsRevision ==
  ASSUME ControllerInv, _begin_revision
  PROVE  ControllerInv'
<1>1. /\ cycle < MaxCycles /\ cycle' = cycle + 1 /\ cycle_status' = "ACTIVE"
      /\ root' = Earliest(PendingRevision) /\ task' = NoTask /\ interrupt' = NoInterrupt
      /\ UNCHANGED <<resume, call, failures>> /\ UNCHANGED <<log, inboxVars, applied, crashes>>
      /\ \/ pc = "revise" /\ pc' = "batch"
         \/ pc = "succeed" /\ pc' = "batch_successor"
  BY DEF _begin_revision, Goto
<1>2. cycle' <= MaxCycles /\ cycle' > 1
  BY <1>1, Finds, Types, ControllerBounds
<1>3. root' \in seen
  <2>1. PendingRevision # {} /\ PendingRevision \subseteq Nat
    BY <1>1, Finds, Positions DEF ControllerInv, Underway, PendingRevision
  <2>2. Earliest(PendingRevision) \in PendingRevision
    BY <2>1, EarliestIsLeast
  <2> QED BY <1>1, <2>2 DEF ControllerInv, Disposed, PendingRevision
<1>4. /\ TypeOK' /\ Conversation' /\ Disposed' /\ Bound' /\ Decided' /\ Shown' /\ Covered'
      /\ UNCHANGED <<input, claims, applied>> /\ task'.phase = "PENDING"
  BY <1>1, <1>2, <1>3, CycleBegins
<1>5. Volatile' /\ Underway'
  BY <1>1, <1>2, <1>4, Finds DEF ControllerInv, Volatile, Underway, Moment, Fresh, Turn
<1>6. Single'
  BY <1>2 DEF Single
<1> QED BY <1>4, <1>5, <1>6 DEF ControllerInv

(* An answer is applied: an approval moves the task on, once.              *)
LEMMA Applies ==
  ASSUME ControllerInv, apply_answer
  PROVE  ControllerInv'
<1> DEFINE r == resume.event
           new == [occ |-> OpenOcc, event |-> r]
<1>1. /\ UNCHANGED <<log, inboxVars, cycle, cycle_status, root, crashes, call, resume, failures>>
      /\ pc = "drive" /\ pc' \in {"agent", "close"} /\ resume.kind = "ANSWER"
      /\ applied' = applied \cup {new} /\ interrupt' = NoInterrupt
  BY DEF apply_answer, Invoke, cycleVars
<1>2. /\ UNCHANGED <<seen, input, claims, revision, review, outbox>>
      /\ r \in Event /\ input[r].status = "CLAIMED" /\ input[r].occ = OpenOcc /\ task.phase \in Waiting
  BY <1>1 DEF ControllerInv, Underway, inboxVars
<1>3. /\ TypeOK /\ task \in TaskRow /\ applied \subseteq Answer /\ cycle # 0 /\ cycle <= cycle
      /\ task.plan \in Nat /\ task.result \in Nat /\ cycle \in Nat
  <2>1. TypeOK /\ task \in TaskRow /\ applied \subseteq Answer /\ cycle # 0 /\ cycle \in Nat
    BY <1>1, Finds, Types, ControllerBounds
  <2> QED BY <2>1, ControllerBounds DEF TaskRow
<1>4. /\ OpenOcc \in Occurrence /\ OpenOcc.kind # "NONE" /\ OpenOcc.cycle = cycle
      /\ OpenOcc.kind = "PLAN_APPROVAL" =>
           task.phase = "WAITING_FOR_PLAN_APPROVAL" /\ OpenOcc.id = task.plan
      /\ OpenOcc.kind = "RESULT_APPROVAL" =>
           task.phase = "WAITING_FOR_RESULT_APPROVAL" /\ OpenOcc.id = task.result
  BY <1>2, <1>3, Opens
<1>5. PICK phase \in {"PLANNING", "EXECUTING", "DONE"} :
        /\ task' = [task EXCEPT !.phase = phase, !.from = "NONE", !.question = 0, !.asked_at = 0]
        /\ task.phase = "WAITING_FOR_INPUT" => phase = task.from
  <2>1. task.phase = "WAITING_FOR_INPUT" => task.from \in {"PLANNING", "EXECUTING"}
    BY DEF ControllerInv, Shown
  <2> QED BY <1>2, <2>1 DEF apply_answer, Waiting
<1>6. /\ task' \in TaskRow /\ task'.phase = phase /\ UNCHANGED <<task.plan, task.result>>
      /\ phase \notin Waiting
  <2>1. phase \in Phase /\ phase \notin Waiting
    BY DEF Phase, Waiting
  <2>2. 0 \in 0 .. 2 * MaxTexts /\ 0 \in 0 .. MaxLog
    BY ControllerBounds
  <2> QED BY <1>3, <1>5, <2>1, <2>2, AsksOrGoesOn
<1>7. new \in Answer
  BY <1>2, <1>4 DEF Answer
<1>8. TypeOK'
  BY <1>1, <1>2, <1>3, <1>6, <1>7, Types, TypesNext
<1>9. Conversation' /\ Disposed' /\ Bound'
  BY <1>1, <1>2 DEF ControllerInv, Conversation, Disposed, Bound, Approves
<1>10. new.occ = OpenOcc /\ new.event = r
  OBVIOUS
<1> HIDE DEF new, r
<1>11. Decided'
  <2>1. ASSUME NEW a \in applied'
        PROVE  /\ input[a.event].status \in {"CLAIMED", "APPLIED"} /\ input[a.event].occ = a.occ
               /\ a.occ.kind # "NONE" /\ a.occ.cycle <= cycle
               /\ a.occ.cycle = cycle /\ a.occ.kind = "PLAN_APPROVAL" => a.occ.id <= task.plan
               /\ a.occ.cycle = cycle /\ a.occ.kind = "RESULT_APPROVAL" => a.occ.id <= task.result
    <3>1. CASE a \in applied
      BY <3>1 DEF ControllerInv, Decided
    <3>2. CASE a = new
      BY <1>2, <1>3, <1>4, <1>10, <3>2
    <3> QED BY <1>1, <3>1, <3>2
  <2>2. ASSUME NEW a \in applied, a.occ = OpenOcc, OpenOcc.kind \in Approval
        PROVE  FALSE
    <3>1. CASE OpenOcc.kind = "PLAN_APPROVAL"
      <4>1. a.occ.id < task.plan
        BY <1>4, <2>2, <3>1 DEF ControllerInv, Decided
      <4> QED BY <1>3, <1>4, <2>2, <3>1, <4>1
    <3>2. CASE OpenOcc.kind = "RESULT_APPROVAL"
      <4>1. a.occ.id < task.result
        BY <1>4, <2>2, <3>2 DEF ControllerInv, Decided
      <4> QED BY <1>3, <1>4, <2>2, <3>2, <4>1
    <3> QED BY <2>2, <3>1, <3>2 DEF Approval
  <2>3. \A a, b \in applied' : a.occ.kind \in Approval /\ b.occ = a.occ => b = a
    <3> SUFFICES ASSUME NEW a \in applied', NEW b \in applied',
                        a.occ.kind \in Approval, b.occ = a.occ
                 PROVE  b = a
      OBVIOUS
    <3>1. CASE a \in applied /\ b \in applied
      BY <3>1 DEF ControllerInv, Decided
    <3> QED BY <1>1, <1>10, <2>2, <3>1
  <2>4. \A e \in Event : input[e].status = "APPLIED" /\ input[e].occ.kind # "CLARIFICATION"
                           => [occ |-> input[e].occ, event |-> e] \in applied'
    BY <1>1 DEF ControllerInv, Decided
  <2>5. task'.phase \notin {"WAITING_FOR_PLAN_APPROVAL", "WAITING_FOR_RESULT_APPROVAL"}
    BY <1>6 DEF Waiting
  <2> QED BY <1>1, <1>2, <1>6, <2>1, <2>3, <2>4, <2>5 DEF Decided
<1>12. Shown'
  <2>1. pc' # "posted" /\ PlanComment' = PlanComment /\ ResultComment' = ResultComment
    BY <1>1 DEF PlanComment, ResultComment
  <2> QED BY <1>1, <1>6, <2>1 DEF ControllerInv, Shown, Waiting
<1>13. Volatile'
  BY <1>1, Finds DEF Volatile, Moment
<1>14. Underway'
  <2>1. r = resume.event /\ Carries' = new /\ new \in applied'
    BY <1>1, <1>2 DEF Carries, new, r
  <2> QED BY <1>1, <1>2, <1>3, <2>1 DEF Underway, Fresh, Turn
<1>15. Covered'
  <2>1. LastPlan' = LastPlan /\ \A e \in Event : Batched(e)' = Batched(e)
    BY <1>1, <1>2, <1>6 DEF LastPlan, Batched
  <2>2. PlanCoversInputs => PlanCoversInputs'
    BY <1>1, <1>2, <1>5, <1>6 DEF PlanCoversInputs, DurablePhase, Waiting
  <2> QED BY <1>1, <2>1, <2>2 DEF ControllerInv, Covered
<1>16. Single'
  <2>1. cycle = 1 => \A e \in Event : Claimed(e) => e = r
    BY <1>2 DEF ControllerInv, Single, Claimed
  <2>2. new = [occ |-> OpenOcc, event |-> r]
    BY DEF new
  <2>3. \A e \in Event : cycle = 1 /\ Claimed(e) =>
          [occ |-> input[e].occ, event |-> e] \in applied'
    BY <1>1, <1>2, <2>1, <2>2
  <2>4. \A e \in Event : Claimed(e)' <=> Claimed(e)
    BY <1>2 DEF Claimed
  <2>5. pc' \notin {"branch", "steer", "wait"}
    BY <1>1
  <2> QED BY <1>1, <1>2, <2>3, <2>4, <2>5 DEF ControllerInv, Single
<1> QED BY <1>8, <1>9, <1>11, <1>12, <1>13, <1>14, <1>15, <1>16 DEF ControllerInv

(* It holds before the first tick, wherever the thread starts.             *)
LEMMA Starts ==
  ASSUME Init
  PROVE  ControllerInv
<1>1. /\ log = <<[body |-> "say", at |-> Issue, cycle |-> 0, id |-> 0]>>
      /\ seen = {1} /\ root = 1 /\ claims = <<>> /\ outbox = {} /\ applied = {}
      /\ revision = [e \in Event |-> NoRevision] /\ review = [e \in Event |-> NoReview]
      /\ interrupt = NoInterrupt /\ pc = "idle" /\ resume = NoResume /\ call = NoCall
      /\ failures = 0 /\ crashes = 0
      /\ input = [e \in Event |->
           IF e = 1 /\ Completed THEN [status |-> "CYCLE_ROOT", occ |-> NoOcc] ELSE NoInput]
      /\ task = (IF Completed THEN [NoTask EXCEPT !.phase = "DONE"] ELSE NoTask)
      /\ cycle = (IF Completed THEN 1 ELSE 0)
      /\ cycle_status = (IF Completed THEN "AWAITING_PUBLICATION" ELSE "NONE")
  BY DEF Init
<1>2. 1 \in Event /\ cycle \in 0 .. MaxCycles /\ cycle \in Nat /\ 0 <= cycle /\ MaxLog \in Nat
      /\ MaxLog >= 1 /\ Event \subseteq Nat
  BY <1>1, ControllerBounds DEF Event
<1>3. log \in Seq(Comment) /\ Len(log) = 1 /\ DOMAIN log = {1}
      /\ log[1].body = "say" /\ log[1].cycle = 0
  <2>1. [body |-> "say", at |-> Issue, cycle |-> 0, id |-> 0] \in Comment
    BY SurfaceAssumption, ControllerBounds DEF Comment, Human
  <2> QED BY <1>1, <2>1
<1>4. NoOcc \in Occurrence /\ NoOcc.kind = "NONE"
  BY ControllerBounds DEF NoOcc, Occurrence
<1>5. \A e \in Event : /\ input[e] \in InputRow /\ input[e].status \in {"NONE", "CYCLE_ROOT"}
                       /\ input[e].status # "NONE" => e = 1 /\ Completed
                       /\ input[e].occ = NoOcc
  BY <1>1, <1>4 DEF InputRow, NoInput
<1>6. \A e \in Event : /\ revision[e] \in RevisionRow /\ revision[e].status = "NONE"
                       /\ revision[e].reason = "NONE" /\ revision[e].cycle = 0
                       /\ revision[e].batched_at = 0
                       /\ review[e] \in ReviewRow /\ review[e].status = "NONE"
  BY <1>1, <1>4, ControllerBounds DEF RevisionRow, NoRevision, ReviewRow, NoReview
<1>7. task \in TaskRow /\ task.plan = 0 /\ task.result = 0 /\ task.phase \in {"PENDING", "DONE"}
  BY <1>1, ControllerBounds DEF NoTask, TaskRow, Phase
<1>8. TypeOK
  <2>1. input \in [Event -> InputRow] /\ revision \in [Event -> RevisionRow]
        /\ review \in [Event -> ReviewRow]
    BY <1>1, <1>5, <1>6
  <2>2. failures \in 0 .. MaxFailures /\ crashes \in 0 .. MaxCrashes /\ cycle_status \in CycleStatus
    BY <1>1, ControllerBounds DEF CycleStatus
  <2>3. Len(log) <= MaxLog /\ seen \subseteq Event /\ root \in Event /\ claims \in Seq(Event)
    BY <1>1, <1>2, <1>3
  <2> QED BY <1>1, <1>2, <1>3, <1>7, <2>1, <2>2, <2>3, Types
<1>9. Volatile
  BY <1>1, <1>2, <1>4 DEF Volatile, Moment, Tool, NoResume, NoCall, NoInterrupt
<1>10. Conversation
  BY <1>1, <1>2, <1>3 DEF Conversation, Human
<1>11. Disposed
  BY <1>1, <1>2, <1>3, <1>4, <1>5, <1>6 DEF Disposed
<1>12. Bound /\ Decided
  BY <1>1, <1>4, <1>5 DEF Bound, Decided, Approval
<1>13. Shown
  BY <1>1, <1>7 DEF Shown
<1>14. Underway
  <2>1. cycle = 0 => \A e \in Event : input[e].status = "NONE"
    BY <1>1, <1>5
  <2> QED BY <1>1, <2>1 DEF Underway, NoResume, Turn, Fresh
<1>15. Covered
  <2>1. \A e \in Event : revision[e].status = "NONE"
    BY <1>6
  <2>2. \A i \in DOMAIN log : log[i].body # "plan"
    BY <1>3
  <2> QED BY <1>1, <2>1, <2>2 DEF Covered, PlanCoversInputs
<1>16. Single
  BY <1>1, <1>5 DEF Single, Claimed
<1> QED BY <1>8, <1>9, <1>10, <1>11, <1>12, <1>13, <1>14, <1>15, <1>16 DEF ControllerInv

-----------------------------------------------------------------------------
(* Every step of the thread keeps the invariant.                           *)
LEMMA EveryStep ==
  ASSUME ControllerInv, [Next]_vars
  PROVE  ControllerInv'
<1>1. CASE Tick
  <2>1. CASE route_unmatched_inputs
    BY <2>1, Routes
  <2>2. CASE deliver_pending_workflow_comments
    BY <2>2, Delivers
  <2>3. CASE _begin_cycle
    BY <2>3, BeginsCycle
  <2>4. CASE record_cycle_root
    BY <2>4, RecordsRoot
  <2>5. CASE continue_cycle \/ cycle_failed \/ cycle_awaits_publication
    BY <2>5, ReadsCycle
  <2>6. CASE _settle_resume_claim
    BY <2>6, Reconciles
  <2>7. CASE select_active_task
    BY <2>7, Selects
  <2>8. CASE _settle_completed_cycle
    BY <2>8, SettlesCycle
  <2>9. CASE _begin_revision
    BY <2>9, BeginsRevision
  <2>10. CASE batch_revision_inputs
    BY <2>10, BatchesInputs
  <2>11. CASE batch_steering
    BY <2>11, BatchesSteering
  <2>12. CASE replan_for_revision_inputs
    BY <2>12, Replans
  <2>13. CASE no_steering \/ end_of_tick
    BY <2>13, NoSteering
  <2> QED BY <1>1, <2>1, <2>2, <2>3, <2>4, <2>5, <2>6, <2>7, <2>8, <2>9, <2>10, <2>11, <2>12,
             <2>13 DEF Tick
<1>2. CASE Wait
  <2>1. CASE wait_stale_review
    BY <2>1, RaiseTicks
  <2>2. CASE wait_review \/ recover_deferred_review
    BY <2>2, WaitsForReview
  <2>3. CASE _claimed_resume
    BY <2>3, Replays
  <2>4. ASSUME NEW e \in Event, claim_input_for_resume(e) PROVE ControllerInv'
    BY <2>4, Claims
  <2>5. ASSUME NEW e \in Event, record_input_disposition(e) PROVE ControllerInv'
    BY <2>5, Dismisses
  <2>6. ASSUME NEW e \in Event, begin_feedback_review(e) PROVE ControllerInv'
    BY <2>6, OpensReview
  <2>7. CASE keep_waiting
    BY <2>7, PostsQuestion
  <2> QED BY <1>2, <2>1, <2>2, <2>3, <2>4, <2>5, <2>6, <2>7 DEF Wait
<1>3. CASE Agent
  <2>1. CASE prompt_agent \/ deliver_feedback \/ deliver_next_feedback
    BY <2>1, Prompts
  <2>2. CASE apply_answer
    BY <2>2, Applies
  <2>3. CASE close_deferred_feedback \/ supersede_deferred_feedback
    BY <2>3, ClosesDeferral
  <2>4. CASE resume_closed_deferral
    BY <2>4, MeetsClosedDeferral
  <2>5. CASE publish_plan
    BY <2>5, PostsPlan
  <2>6. CASE submit_posted_plan \/ publish_validated_result
    BY <2>6, RowFollows
  <2>7. CASE publish_result
    BY <2>7, PostsResult
  <2>8. CASE finish_validation_replan \/ replan_from_feedback
    BY <2>8, BackToPlanning
  <2>9. CASE pause_for_clarification
    BY <2>9, Asks
  <2>10. CASE \/ wait_again("submit_plan", "WAITING_FOR_PLAN_APPROVAL")
              \/ wait_again("finish_validation", "WAITING_FOR_RESULT_APPROVAL")
              \/ defer_again \/ agent_stops
    BY <2>10, WaitsAgain
  <2>11. CASE resolve_current_feedback_replan
    BY <2>11, ResolvesReview
  <2>12. CASE defer_feedback_to_revision
    BY <2>12, DefersReview
  <2>13. CASE checkpoint_interrupt
    BY <2>13, Checkpoints
  <2>14. CASE post_question
    BY <2>14, PostsQuestion
  <2>15. CASE agent_fails
    BY <2>15, RaiseTicks
  <2>16. CASE finish_input_resume
    BY <2>16, Finishes
  <2> QED BY <1>3, <2>1, <2>2, <2>3, <2>4, <2>5, <2>6, <2>7, <2>8, <2>9, <2>10, <2>11, <2>12,
             <2>13, <2>14, <2>15, <2>16 DEF Agent
<1>4. CASE publish
  BY <1>4, Publishes
<1>5. CASE Crash
  BY <1>5, Dies
<1>6. ASSUME NEW body \in Human, NEW s \in Surface, Post(body, s) PROVE ControllerInv'
  BY <1>6, Posts
<1>7. CASE \E e \in Event : record_batch(e)
  BY <1>7, Routes
<1>8. CASE UNCHANGED vars
  <2>1. UNCHANGED recorded /\ outbox' \subseteq Event /\ failures' \in 0 .. MaxFailures
    BY <1>8, Finds, Types DEF vars, inboxVars, recorded, record
  <2>2. UNCHANGED <<log, seen, input, claims, revision, review, cycle, cycle_status, root, task>>
        /\ UNCHANGED <<applied, interrupt, pc, resume, call, crashes>>
    BY <1>8 DEF vars, inboxVars, cycleVars, tickVars
  <2>3. /\ TypeOK' /\ Conversation' /\ Disposed' /\ Bound' /\ Decided' /\ OpenOcc' = OpenOcc
        /\ PlanComment' = PlanComment /\ ResultComment' = ResultComment /\ Question' = Question
        /\ PendingRevision' = PendingRevision /\ DurablePhase' = DurablePhase
        /\ \A s : TaskReviews(s)' = TaskReviews(s)
    BY <2>1, RecordKept, Types, Finds DEF recorded
  <2>4. Volatile'
    BY <2>2, Finds DEF Volatile
  <2>5. Shown' /\ Underway'
    BY <2>2, <2>3 DEF ControllerInv, Shown, Underway, Carries
  <2>6. Covered'
    <3>1. LastPlan' = LastPlan /\ \A e \in Event : Batched(e)' = Batched(e)
      BY <2>2 DEF LastPlan, Batched
    <3>2. PlanCoversInputs' = PlanCoversInputs
      BY <2>2, <2>3 DEF PlanCoversInputs
    <3> QED BY <2>2, <3>1, <3>2 DEF ControllerInv, Covered
  <2>7. Single'
    BY <2>2, <2>3 DEF ControllerInv, Single, Claimed
  <2> QED BY <2>3, <2>4, <2>5, <2>6, <2>7 DEF ControllerInv
<1> QED BY <1>1, <1>2, <1>3, <1>4, <1>5, <1>6, <1>7, <1>8 DEF Next, Worker

(* The invariant holds throughout, whoever comments and whenever a worker  *)
(* dies.                                                                   *)
THEOREM ControllerInductive == Spec => []ControllerInv
<1>1. Init => ControllerInv
  BY Starts
<1>2. ControllerInv /\ [Next]_vars => ControllerInv'
  BY EveryStep
<1> QED BY <1>1, <1>2, PTL DEF Spec

(* Every row of the controller's tables keeps its type.                    *)
THEOREM ControllerTypes == Spec => []TypeOK
<1>1. ControllerInv => TypeOK
  BY DEF ControllerInv
<1> QED BY <1>1, ControllerInductive, PTL

(* finish_input_resume records an approval as applied only if approve_plan *)
(* or approve_result accepted it, for the occurrence it was claimed for.   *)
THEOREM ClaimsStayTruthful == Spec => []ClaimsTruthful
<1>1. ControllerInv => ClaimsTruthful
  BY DEF ControllerInv, Decided, ClaimsTruthful
<1> QED BY <1>1, ControllerInductive, PTL

(* A comment answers one occurrence, or opens one review, or steers one    *)
(* revision, however often a restarted worker meets it again.              *)
THEOREM CommentsAreUsedOnce == Spec => []UsedOnce
<1>1. ASSUME ControllerInv, NEW e \in Event
      PROVE  Cardinality({a \in applied : a.event = e})
               + Cardinality({e} \cap {d \in Event : review[d].status # "NONE"})
               + Cardinality({e} \cap {d \in Event : revision[d].reason = "UNSOLICITED_STEERING"}) <= 1
  <2> DEFINE A == {a \in applied : a.event = e}
             B == {e} \cap {d \in Event : review[d].status # "NONE"}
             C == {e} \cap {d \in Event : revision[d].reason = "UNSOLICITED_STEERING"}
             one == [occ |-> input[e].occ, event |-> e]
  <2>1. A \subseteq {one}
    <3>1. applied \subseteq Answer
      BY <1>1, Types DEF ControllerInv
    <3>2. \A a \in A : a.event = e /\ a.occ = input[e].occ /\ a \in Answer
      BY <1>1, <3>1 DEF ControllerInv, Decided
    <3>3. \A a \in A : a = [occ |-> a.occ, event |-> a.event]
      BY <3>2 DEF Answer
    <3> QED BY <3>2, <3>3
  <2>2. A # {} => input[e].status \in {"CLAIMED", "APPLIED"}
    BY <1>1 DEF ControllerInv, Decided
  <2>3. B # {} => input[e].status = "FEEDBACK_REVIEW"
    BY <1>1 DEF ControllerInv, Disposed
  <2>4. C # {} => input[e].status = "REVISION_QUEUED"
    BY <1>1 DEF ControllerInv, Disposed
  <2>5. B \subseteq {e} /\ C \subseteq {e}
    OBVIOUS
  <2> HIDE DEF A, B, C, one
  <2>6. /\ Cardinality(A) \in Nat /\ Cardinality(A) <= 1
        /\ Cardinality(B) \in Nat /\ Cardinality(B) <= 1
        /\ Cardinality(C) \in Nat /\ Cardinality(C) <= 1
    <3>1. \A S, x : S \subseteq {x} => Cardinality(S) \in Nat /\ Cardinality(S) <= 1
      <4> SUFFICES ASSUME NEW S, NEW x, S \subseteq {x}
                   PROVE  Cardinality(S) \in Nat /\ Cardinality(S) <= 1
        OBVIOUS
      <4>1. IsFiniteSet({x}) /\ Cardinality({x}) = 1
        BY FS_Singleton
      <4>2. IsFiniteSet(S) /\ Cardinality(S) <= Cardinality({x})
        BY <4>1, FS_Subset
      <4>3. Cardinality(S) \in Nat
        BY <4>2, FS_CardinalityType
      <4> QED BY <4>1, <4>2, <4>3
    <3> QED BY <2>1, <2>5, <3>1
  <2>7. /\ (A = {} => Cardinality(A) = 0) /\ (B = {} => Cardinality(B) = 0)
        /\ (C = {} => Cardinality(C) = 0)
    BY FS_EmptySet
  <2>8. Cardinality(A) + Cardinality(B) + Cardinality(C) <= 1
    <3>1. \/ B = {} /\ C = {}
          \/ A = {} /\ C = {}
          \/ A = {} /\ B = {}
      BY <2>2, <2>3, <2>4
    <3> QED BY <2>6, <2>7, <3>1
  <2> QED BY <2>8 DEF A, B, C
<1>2. ControllerInv => UsedOnce
  BY <1>1 DEF UsedOnce
<1> QED BY <1>2, ControllerInductive, PTL

(* What approves a plan or a result is one comment, an exact approval      *)
(* written after it and in the conversation it was shown in.               *)
THEOREM AuthorityStaysInConversation == Spec => []AuthorityFromItsConversation
<1>1. ControllerInv => AuthorityFromItsConversation
  <2> SUFFICES ASSUME ControllerInv, NEW a \in applied, a.occ.kind # "CLARIFICATION"
               PROVE  /\ \A b \in applied : b.occ = a.occ => b = a
                      /\ Approves(a.event, a.occ) /\ a.event > a.occ.id
    BY DEF AuthorityFromItsConversation, Approves
  <2>1. applied \subseteq Answer /\ TypeOK
    BY Types DEF ControllerInv
  <2>2. a.event \in Event /\ input[a.event].occ = a.occ /\ a.occ.kind \in Approval /\ a.occ.id \in Nat
    BY <2>1 DEF ControllerInv, Decided, Answer, Occurrence, Approval
  <2>3. Approves(a.event, a.occ)
    BY <2>2 DEF ControllerInv, Bound
  <2>4. a.event \in Nat
    BY <2>1, <2>2, Positions
  <2> QED BY <2>2, <2>3, <2>4 DEF ControllerInv, Decided, Approves
<1> QED BY <1>1, ControllerInductive, PTL

(* As long as no worker dies, what a revision shows, does or delivers was  *)
(* planned after batch_revision_inputs put the last input into it.         *)
THEOREM PlansCoverInputs == Spec => []PlanCoversInputs
<1>1. ControllerInv => PlanCoversInputs
  BY DEF ControllerInv, Covered, PlanCoversInputs
<1> QED BY <1>1, ControllerInductive, PTL

(* In an active initial workflow, a claim _settle_resume_claim leaves is   *)
(* one the task still waits for.                                           *)
THEOREM ClaimsStayReconciled == Spec => []ClaimsReconciled
<1>1. ControllerInv => ClaimsReconciled
  <2>1. ControllerInv => (PendingClaim # 0 => PendingClaim \in Event /\ Claimed(PendingClaim))
    BY ClaimFound DEF ControllerInv
  <2> QED BY <2>1 DEF ControllerInv, Single, ClaimsReconciled
<1> QED BY <1>1, ControllerInductive, PTL
=============================================================================
