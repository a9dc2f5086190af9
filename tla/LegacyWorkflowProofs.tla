-------------------------- MODULE LegacyWorkflowProofs --------------------------
(* What LegacyWorkflow promises, for every number of events, cycles, plan  *)
(* versions, repairs, recoveries, commands and deaths of the worker.       *)
EXTENDS LegacyWorkflow, FiniteSetTheorems, WellFoundedInduction, TLAPS

Void == {"NONE", "INVALID"}
Underway == {"EXECUTING", "REVIEW_EXECUTION", "REPAIR_READY", "AWAITING_PUBLICATION"}

(* Authority: a permit that is not void is of the current version, and the *)
(* phase says whether there is one.  What is approved was approved by      *)
(* somebody who may, after it was posted, or in AUTO mode.                 *)
Authority ==
  /\ \A v \in 1 .. MaxVersion : v # plan.version => permit[v] \in Void
  /\ wf.phase \in {"PLANNING", "WAITING_FOR_PLAN_APPROVAL"} => permit[plan.version] \in Void
  /\ wf.phase = "EXECUTION_READY" => permit[plan.version] = "OPEN"
  /\ wf.phase = "WAITING_FOR_INPUT" => permit[plan.version] \in {"OPEN", "CONSUMED"}
  /\ wf.phase \in Underway => permit[plan.version] = "CONSUMED"
  /\ wf.phase \in Underway \cup {"EXECUTION_READY", "WAITING_FOR_INPUT"}
       => plan.status = "APPROVED"
  /\ plan.status \in {"APPROVED", "EXECUTED"} =>
       IF plan.by = 0 THEN AllowAuto
       ELSE log[plan.by].body = "approve" /\ plan.by > plan.posted
  /\ wf.mode = "AUTO" => AllowAuto

(* The attempt and the execution: an attempt succeeds after its execution, *)
(* only a succeeded attempt has a verdict, and only a succeeded execution  *)
(* is reviewed or repaired.                                                *)
Work ==
  /\ wf.root = 0 => wf.phase = "IDLE"
  /\ wf.phase \in Underway \ {"EXECUTING"} => Execution = "SUCCEEDED"
  /\ Execution = "SUCCEEDED" =>
       /\ wf.phase \in Underway \cup {"REVIEW_BLOCKED", "IDLE"}
       /\ attempt.version = plan.version
  /\ attempt.status = "SUCCEEDED" \/ attempt.kind = "REVIEW_REPAIR" => Execution = "SUCCEEDED"
  /\ attempt.verdict # "NONE" => attempt.status = "SUCCEEDED" /\ reviewed
  /\ wf.phase = "REVIEW_EXECUTION" => attempt.status = "SUCCEEDED"
  /\ wf.phase = "REPAIR_READY" =>
       \/ attempt.status = "SUCCEEDED" /\ repair.round = attempt.round + 1
       \/ /\ attempt.kind = "REVIEW_REPAIR" /\ attempt.status = "FAILED"
          /\ repair.round = attempt.round
  /\ wf.phase = "EXECUTING" /\ attempt.kind = "REVIEW_REPAIR" =>
       attempt.status = "RUNNING" /\ repair.round = attempt.round
  /\ wf.phase = "AWAITING_PUBLICATION" =>
       attempt.status = "SUCCEEDED" /\ attempt.verdict = "ACCEPT"

(* Repairs: each round is run once, and once more for every death that was *)
(* counted; a round that is handed back is one run behind.                 *)
Resumable == wf.phase = "REPAIR_READY" /\ repair.round = attempt.round
Before(round) == (round - 1) * (MaxRecoveries + 1)
Rounds ==
  IF attempt.kind # "REVIEW_REPAIR" THEN attempt.round = 0 /\ repairs = 0
  ELSE /\ attempt.round >= 1
       /\ repairs <= Before(attempt.round) + attempt.recoveries + (IF Resumable THEN 0 ELSE 1)

(* The tick: what each of its steps relies on, although people, the        *)
(* operator and the publisher do not wait for it.                          *)
Volatile ==
  /\ pc \in {"planning", "planned", "publish", "posted"} => wf.phase = "PLANNING"
  /\ pc = "authorize" => wf.phase = "WAITING_FOR_PLAN_APPROVAL" /\ wf.mode = "AUTO"
  /\ pc = "clarify" => wf.phase = "WAITING_FOR_INPUT"
  /\ pc \in {"bound", "running"} => wf.phase = "EXECUTING" /\ Execution = "RUNNING"
  /\ pc \in {"running", "ran"} => attempt.status = "RUNNING"
  /\ pc \in {"running", "ran", "finished"} =>
       attempt.kind = "INITIAL" /\ attempt.version = plan.version
  /\ pc \in {"ran", "finished"} =>
       \/ outcome = "SUCCEEDED" /\ wf.phase = "EXECUTING" /\ Execution = "SUCCEEDED"
       \/ outcome = "CLARIFICATION" /\ wf.phase = "EXECUTING" /\ Execution = "RUNNING"
       \/ outcome = "FAILED" /\ Execution \in {"FAILED", "RETRY_PENDING", "SKIPPED"}
            /\ wf.phase \in {"EXECUTING", "EXECUTION_READY"}
  /\ pc = "finished" /\ outcome = "SUCCEEDED" => attempt.status = "SUCCEEDED"
  /\ pc \in {"reviewing", "verdict"} => wf.phase = "REVIEW_EXECUTION"
  /\ pc = "repairing" => wf.phase = "EXECUTING" /\ attempt.kind = "REVIEW_REPAIR"
  /\ wf.phase = "IDLE" => pc \in {"idle", "begin", "main", "learn"}
  /\ pc \notin {"clarify", "planning", "planned", "publish", "posted", "authorize"} => using = 0
  /\ using # 0 => using # wf.root
  /\ wf.feedback # 0 => wf.feedback # wf.root

(* Inputs: what nobody has disposed of has no execution and, unless it was *)
(* listed late, lies after the root; while a plan runs and until the next  *)
(* one, it also lies after what is queued, except for approvals, which the *)
(* next tick drains.                                                       *)
Open(e) == consumed[e] = "NONE" /\ deferred[e] = "NONE"
Inputs ==
  /\ NoInputLost
  /\ \A e \in Event : Open(e) => ee[e] = "NONE"
  /\ wf.root # 0 => wf.root \in Recorded /\ consumed[wf.root] # "NONE"
  /\ \A e \in Event \ Recorded : deferred[e] = "NONE"
  /\ wf.phase \in Underway \cup {"IDLE"} =>
       \A e \in Recorded \ late, q \in Queued :
         Open(e) /\ (log[e].body = "invoke" \/ (wf.phase = "IDLE" /\ pc \in {"begin", "main"}))
           => e > q

LegacyInv == TypeOK /\ Authority /\ Work /\ Rounds /\ Volatile /\ Inputs

-----------------------------------------------------------------------------
(* The earliest of some events is one of them.                             *)
LEMMA FirstIsOne ==
  ASSUME NEW E \in SUBSET Event, E # {}
  PROVE  First(E) \in E /\ \A d \in E : First(E) <= d
<1> DEFINE R == {p \in Nat \X Nat : p[1] < p[2]}
<1>1. IsWellFoundedOn(R, Nat)
  BY NatLessThanWellFounded DEF OpToRel
<1>2. E \subseteq Nat
  BY LegacyBounds DEF Event
<1>3. \A d, c \in Nat : d < c => <<d, c>> \in R
  OBVIOUS
<1> HIDE DEF R
<1>4. PICK k \in E : \A d \in E : ~(<<d, k>> \in R)
  BY <1>1, <1>2, WFMin, Zenon
<1>5. \A d \in E : k <= d
  <2> SUFFICES ASSUME NEW d \in E PROVE k <= d
    OBVIOUS
  <2>1. k \in Nat /\ d \in Nat
    BY <1>2
  <2>2. ~(d < k)
    BY <2>1, <1>3, <1>4, Zenon
  <2> QED BY <2>1, <2>2
<1> QED BY <1>5, Zenon DEF First

(* Only the phase moves.                                                   *)
Moved(phase) ==
  /\ wf'.phase = phase /\ wf'.cycle = wf.cycle /\ wf'.root = wf.root
  /\ wf'.logical = wf.logical /\ wf'.mode = wf.mode /\ wf'.feedback = wf.feedback

(* The rows of issue_workflow_state, plans, approvals, execution_attempts  *)
(* and repair permits.                                                     *)
WfRow == [phase : Phase, cycle : 0 .. MaxCycles, root : 0 .. MaxEvents, logical : BOOLEAN,
          mode : {"INTERACTIVE", "AUTO"}, feedback : 0 .. MaxEvents]
PlanRow == [version : 1 .. MaxVersion, status : {"DRAFT", "POSTED", "APPROVED", "EXECUTED"},
            written : BOOLEAN, posted : 0 .. MaxEvents, by : 0 .. MaxEvents]
PermitRows == [1 .. MaxVersion -> {"NONE", "OPEN", "CONSUMED", "INVALID"}]
AttemptRow == [kind : {"NONE", "INITIAL", "REVIEW_REPAIR"}, version : 0 .. MaxVersion,
               status : Status, round : 0 .. MaxRepairs, retries : 0 .. MaxRecoveries + 1,
               recoveries : 0 .. MaxRecoveries, reviews : 0 .. MaxRecoveries,
               verdict : Verdict]
RepairRow == [round : 0 .. MaxRepairs, status : {"NONE", "OPEN", "CONSUMED", "INVALID"}]

(* What the type invariant says of the log, and of everything else.        *)
Log == [Event -> [body : Body, at : Surface] \cup {NoEvent}]
Small ==
  /\ now \in 0 .. MaxEvents /\ late \subseteq Event
  /\ label \in BOOLEAN /\ consumed \in [Event -> Purpose]
  /\ deferred \in [Event -> {"NONE", "QUEUED", "CONSUMED"}]
  /\ ee \in [Event -> Status] /\ le \in Status
  /\ question \in {"NONE", "OPEN", "ANSWERED", "CANCELLED"} /\ checkpoint \in BOOLEAN
  /\ comment \in 0 .. MaxEvents /\ reviewed \in BOOLEAN /\ repairs \in Nat
  /\ publication \in {"NONE", "COMPLETED"} /\ published \subseteq Event
  /\ jobs \subseteq {"memory", "resolution"}
  /\ pc \in Step /\ using \in 0 .. MaxEvents
  /\ outcome \in {"NONE", "AUTHORIZE", "SUCCEEDED", "FAILED", "CLARIFICATION"}
  /\ questions \in 0 .. MaxQuestions /\ commands \in 0 .. MaxOperator
  /\ crashes \in 0 .. MaxCrashes

(* The type invariant, row by row.                                         *)
LEMMA Rows ==
  ASSUME TypeOK
  PROVE  /\ Small /\ wf \in WfRow /\ plan \in PlanRow /\ permit \in PermitRows
         /\ attempt \in AttemptRow /\ repair \in RepairRow
<1>1. Small
  BY DEF TypeOK, Small
<1>2. wf \in WfRow /\ plan \in PlanRow /\ permit \in PermitRows
  BY DEF TypeOK, WfRow, PlanRow, PermitRows
<1>3. attempt \in AttemptRow /\ repair \in RepairRow
  BY DEF TypeOK, AttemptRow, RepairRow
<1> QED BY <1>1, <1>2, <1>3

(* And back: the rows and the rest make the type invariant.                *)
LEMMA TypedRows ==
  ASSUME log' \in Log, Small', wf' \in WfRow, plan' \in PlanRow, permit' \in PermitRows,
         attempt' \in AttemptRow, repair' \in RepairRow
  PROVE  TypeOK'
<1>1. /\ log' \in Log' /\ wf' \in WfRow' /\ plan' \in PlanRow' /\ permit' \in PermitRows'
      /\ attempt' \in AttemptRow' /\ repair' \in RepairRow'
  BY DEF Log, WfRow, PlanRow, PermitRows, AttemptRow, RepairRow
<1> QED BY <1>1, Zenon DEF TypeOK, Small, Log, WfRow, PlanRow, PermitRows, AttemptRow, RepairRow

(* After a step that adds nothing to the log.                              *)
LEMMA Typed ==
  ASSUME TypeOK, log' = log, Small', wf' \in WfRow, plan' \in PlanRow,
         permit' \in PermitRows, attempt' \in AttemptRow, repair' \in RepairRow
  PROVE  TypeOK'
BY TypedRows DEF TypeOK, Log

(* SetPhase moves the phase and nothing else.                              *)
LEMMA PhaseMoves ==
  ASSUME TypeOK, NEW phase \in Phase, SetPhase(phase)
  PROVE  Moved(phase) /\ wf' \in WfRow
<1>1. wf \in WfRow
  BY DEF TypeOK, WfRow
<1> QED BY <1>1 DEF WfRow, SetPhase, Moved

(* Events are times, and so is the root.                                   *)
LEMMA Positions ==
  ASSUME TypeOK
  PROVE  /\ Recorded \subseteq Event /\ now \in 0 .. MaxEvents
         /\ 0 \in 0 .. MaxEvents /\ Event \subseteq 0 .. MaxEvents /\ 0 \notin Event
         /\ wf.root \in 0 .. MaxEvents /\ (wf.root # 0 => wf.root \in Event)
BY LegacyBounds DEF TypeOK, Event, Recorded

(* The execution of the cycle is the root's row, or the logical one.       *)
LEMMA ExecutionKept ==
  ASSUME wf'.root = wf.root, wf'.logical = wf.logical, le' = le,
         wf.root # 0 => ee'[wf.root] = ee[wf.root]
  PROVE  Execution' = Execution
BY DEF Execution

(* An update of the execution's row is an update of the cycle's execution. *)
LEMMA ExecutionSet ==
  ASSUME TypeOK, NEW status \in Status, SetExecution(status), wf.root # 0,
         wf'.root = wf.root, wf'.logical = wf.logical
  PROVE  /\ Execution' = status
         /\ ee' \in [Event -> Status] /\ le' \in Status
         /\ \A e \in Event : e # wf.root => ee'[e] = ee[e]
<1>1. wf.root \in Event
  BY Positions
<1>2. ee \in [Event -> Status] /\ le \in Status
  BY DEF TypeOK
<1> QED BY <1>1, <1>2 DEF SetExecution, Execution

(* Inputs that nobody touches stay in their order.                         *)
LEMMA InputsKept ==
  ASSUME TypeOK, Inputs, UNCHANGED <<now, log, late, consumed, deferred>>, wf'.root = wf.root,
         \A e \in Event : e # wf.root => ee'[e] = ee[e],
         wf'.phase \in Underway \cup {"IDLE"} => wf.phase \in Underway \cup {"IDLE"},
         wf'.phase = "IDLE" /\ pc' \in {"begin", "main"} =>
           wf.phase = "IDLE" /\ pc \in {"begin", "main"}
  PROVE  Inputs'
<1>1. NoInputLost'
  BY DEF Inputs, NoInputLost, Recorded
<1>2. \A e \in Event : Open(e)' => ee'[e] = "NONE"
  <2> SUFFICES ASSUME NEW e \in Event, Open(e)' PROVE ee'[e] = "NONE"
    OBVIOUS
  <2>1. e # wf.root
    BY LegacyBounds DEF Inputs, Open, Event
  <2> QED BY <2>1 DEF Inputs, Open
<1> QED BY <1>1, <1>2 DEF Inputs, Open, Queued, Recorded

(* A step of the tick that writes no row.                                  *)
LEMMA OnlyTheTick ==
  ASSUME LegacyInv, UNCHANGED <<now, log, late, inputVars, cycleVars, runVars>>, TypeOK', Volatile',
         wf.phase = "IDLE" /\ pc' \in {"begin", "main"} => pc \in {"begin", "main"}
  PROVE  LegacyInv'
<1>1. Execution' = Execution
  BY DEF Execution, inputVars, cycleVars
<1>2. Authority'
  BY DEF LegacyInv, Authority, cycleVars
<1>3. Work'
  BY <1>1 DEF LegacyInv, Work, cycleVars, runVars
<1>4. Rounds'
  BY DEF LegacyInv, Rounds, Resumable, cycleVars, runVars
<1>5. Inputs'
  BY InputsKept DEF LegacyInv, inputVars, cycleVars
<1> QED BY <1>2, <1>3, <1>4, <1>5 DEF LegacyInv

(* Steps that decide where the tick goes, and its ends.                    *)
LEMMA Decides ==
  ASSUME LegacyInv,
         \/ clarify_begins \/ clarify_ends \/ planning_resumed \/ review_begins
         \/ review_raises \/ nothing_to_do \/ learn \/ crash \/ publisher_completes
  PROVE  LegacyInv'
<1>1. UNCHANGED <<now, log, late, inputVars, cycleVars, runVars>>
  BY DEF clarify_begins, clarify_ends, planning_resumed, review_begins, review_raises,
         nothing_to_do, learn, crash, publisher_completes, outside
<1>2. Execution' = Execution
  BY <1>1 DEF Execution, inputVars, cycleVars
<1>3. TypeOK'
  <2>0. TypeOK
    BY DEF LegacyInv
  <2>1. pc' \in Step /\ using' \in 0 .. MaxEvents
        /\ outcome' \in {"NONE", "AUTHORIZE", "SUCCEEDED", "FAILED", "CLARIFICATION"}
    <3>1. /\ pc \in Step /\ using \in 0 .. MaxEvents /\ wf.feedback \in 0 .. MaxEvents
          /\ outcome \in {"NONE", "AUTHORIZE", "SUCCEEDED", "FAILED", "CLARIFICATION"}
          /\ 0 \in 0 .. MaxEvents
      BY <2>0, Positions DEF TypeOK
    <3>2. CASE clarify_begins \/ clarify_ends \/ planning_resumed
      BY <3>1, <3>2 DEF clarify_begins, clarify_ends, planning_resumed, Goto, End, Step
    <3>3. CASE \/ review_begins \/ review_raises \/ nothing_to_do \/ learn \/ crash
               \/ publisher_completes
      BY <3>1, <3>3 DEF review_begins, review_raises, nothing_to_do, learn, crash,
                        publisher_completes, Goto, End, tickVars, Step
    <3> QED BY <3>2, <3>3
  <2>2. /\ publication' \in {"NONE", "COMPLETED"} /\ published' \subseteq Event
        /\ jobs' \subseteq {"memory", "resolution"}
    <3>1. /\ publication \in {"NONE", "COMPLETED"} /\ published \subseteq Event
          /\ jobs \subseteq {"memory", "resolution"}
      BY <2>0 DEF TypeOK
    <3> QED BY <3>1 DEF clarify_begins, clarify_ends, planning_resumed, review_begins,
               review_raises, nothing_to_do, learn, crash, publisher_completes, pubVars
  <2>3. UNCHANGED <<label, commands>> /\ crashes' \in 0 .. MaxCrashes
    <3>1. crashes \in 0 .. MaxCrashes
      BY <2>0 DEF TypeOK
    <3>2. CASE crash
      BY <3>1, <3>2, LegacyBounds DEF crash
    <3>3. CASE ~crash
      BY <3>1, <3>3 DEF clarify_begins, clarify_ends, planning_resumed, review_begins,
                        review_raises, nothing_to_do, learn, publisher_completes, outside
    <3> QED BY <3>2, <3>3
  <2>4. UNCHANGED <<now, log, late, consumed, deferred, ee, le, wf, plan, permit, comment,
                    attempt, repair, question, checkpoint, reviewed, repairs, questions>>
    BY <1>1 DEF inputVars, cycleVars, runVars
  <2> QED BY <2>0, <2>1, <2>2, <2>3, <2>4, Rows, Typed DEF Small
<1>4. Volatile'
  <2>0. Volatile /\ UNCHANGED <<wf, attempt, plan>> /\ Execution' = Execution
    BY <1>1, <1>2 DEF LegacyInv, cycleVars, runVars
  <2>1. CASE clarify_begins
    BY <2>0, <2>1 DEF Volatile, clarify_begins, Goto
  <2>2. CASE clarify_ends
    BY <2>0, <2>2 DEF Volatile, clarify_ends
  <2>3. CASE planning_resumed
    BY <2>0, <2>3 DEF Volatile, planning_resumed, Goto, End
  <2>4. CASE review_begins
    BY <2>0, <2>4 DEF Volatile, review_begins, Goto
  <2>5. CASE review_raises \/ nothing_to_do \/ learn \/ crash
    <3>1. End
      BY <2>5 DEF review_raises, nothing_to_do, learn, crash
    <3> QED BY <2>0, <3>1 DEF Volatile, End
  <2>6. CASE publisher_completes
    BY <2>0, <2>6 DEF Volatile, publisher_completes, tickVars
  <2> QED BY <2>1, <2>2, <2>3, <2>4, <2>5, <2>6
<1>5. wf.phase = "IDLE" /\ pc' \in {"begin", "main"} => pc \in {"begin", "main"}
  BY DEF clarify_begins, clarify_ends, planning_resumed, review_begins, review_raises,
         nothing_to_do, learn, crash, publisher_completes, Goto, End, tickVars
<1> QED BY <1>1, <1>3, <1>4, <1>5, OnlyTheTick

(* People write, the poller lists what they wrote, and the label goes.     *)
People ==
  \/ somebody_comments \/ remove_label
  \/ \E e \in Event, b \in Body, s \in Surface : record_event(e, b, s)
LEMMA PeopleAct ==
  ASSUME LegacyInv, People
  PROVE  LegacyInv'
<1>0. TypeOK /\ Inputs
  BY DEF LegacyInv
<1>1. UNCHANGED <<inputVars, cycleVars, runVars, pubVars, tickVars, commands, crashes>>
  BY DEF People, somebody_comments, remove_label, record_event
<1>2. Execution' = Execution
  BY <1>1 DEF Execution, inputVars, cycleVars
<1>3. log' \in Log /\ now' \in 0 .. MaxEvents /\ late' \subseteq Event /\ label' \in BOOLEAN
  <2>1. CASE somebody_comments \/ remove_label
    <3>1. CASE remove_label
      BY <3>1, <1>0 DEF remove_label, TypeOK, Log
    <3>2. CASE somebody_comments
      BY <3>2, <1>0, LegacyBounds DEF somebody_comments, TypeOK, Log
    <3> QED BY <2>1, <3>1, <3>2
  <2>2. ASSUME NEW e \in Event, NEW b \in Body, NEW s \in Surface, record_event(e, b, s)
        PROVE  /\ log' \in Log /\ now' \in 0 .. MaxEvents /\ late' \subseteq Event
               /\ label' \in BOOLEAN
    BY <2>2, <1>0 DEF record_event, TypeOK, Log
  <2> QED BY <2>1, <2>2 DEF People
<1>4. /\ \A e \in Event : e \in Recorded => log'[e] = log[e] /\ e \in Recorded'
      /\ \A e \in Recorded' : e \in Event
      /\ \A e \in Recorded' \ late' : e \in Recorded \ late \/ \A d \in Recorded : ~(e <= d)
  <2>1. CASE somebody_comments \/ remove_label
    BY <2>1 DEF somebody_comments, remove_label, Recorded
  <2>2. ASSUME NEW c \in Event, NEW b \in Body, NEW s \in Surface, record_event(c, b, s)
        PROVE  /\ \A e \in Event : e \in Recorded => log'[e] = log[e] /\ e \in Recorded'
               /\ \A e \in Recorded' : e \in Event
               /\ \A e \in Recorded' \ late' :
                    e \in Recorded \ late \/ \A d \in Recorded : ~(e <= d)
    <3>1. /\ c \notin Recorded /\ late \subseteq late'
          /\ ((\E d \in Recorded : c < d) => c \in late')
      BY <2>2 DEF record_event
    <3>2. \A e \in Event : e # c => log'[e] = log[e]
      BY <2>2, <1>0 DEF record_event, TypeOK
    <3>3. \A d \in Recorded : d \in Nat /\ c \in Nat /\ d # c
      BY <3>1, <1>0, Positions, LegacyBounds DEF Event
    <3>4. (\A d \in Recorded : ~(c <= d)) \/ c \in late'
      BY <3>1, <3>3
    <3> QED BY <3>1, <3>2, <3>4 DEF Recorded
  <2> QED BY <2>1, <2>2 DEF People
<1>5. TypeOK'
  <2>1. UNCHANGED <<consumed, deferred, ee, le, wf, plan, permit, comment>>
    BY <1>1 DEF inputVars, cycleVars
  <2>2. UNCHANGED <<attempt, repair, question, checkpoint, reviewed, repairs, questions>>
    BY <1>1 DEF runVars
  <2>3. UNCHANGED <<publication, published, jobs, pc, using, outcome, commands, crashes>>
    BY <1>1 DEF pubVars, tickVars
  <2> QED BY <1>0, <1>3, <2>1, <2>2, <2>3, Rows, TypedRows DEF Small
<1>6. Authority'
  <2>1. UNCHANGED <<wf, plan, permit>>
    BY <1>1 DEF cycleVars
  <2>2. plan.by # 0 => plan.by \in Event
    BY <1>0, LegacyBounds DEF TypeOK, Event
  <2>3. plan.by # 0 /\ log[plan.by].body = "approve" => log'[plan.by] = log[plan.by]
    BY <2>2, <1>4 DEF Recorded
  <2> QED BY <2>1, <2>3 DEF LegacyInv, Authority
<1>7. Work'
  BY <1>1, <1>2 DEF LegacyInv, Work, cycleVars, runVars
<1>8. Rounds'
  BY <1>1 DEF LegacyInv, Rounds, Resumable, cycleVars, runVars
<1>9. Volatile'
  BY <1>1, <1>2 DEF LegacyInv, Volatile, cycleVars, runVars, tickVars
<1>10. Inputs'
  <2>1. UNCHANGED <<consumed, deferred, ee, wf, pc>>
    BY <1>1 DEF inputVars, cycleVars, tickVars
  <2>2. NoInputLost'
    <3>1. ASSUME NEW e \in Recorded' \ late', consumed[e] = "NONE", deferred[e] = "NONE"
          PROVE  e > wf.root
      <4>1. CASE e \in Recorded \ late
        BY <4>1, <3>1, <1>0 DEF Inputs, NoInputLost
      <4>2. CASE \A d \in Recorded : ~(e <= d)
        <5>1. e \in Event /\ (wf.root # 0 => wf.root \in Recorded)
          BY <1>0, <1>4 DEF Inputs
        <5> QED BY <5>1, <4>2, <1>0, Positions, LegacyBounds DEF Event
      <4> QED BY <4>1, <4>2, <1>4
    <3> QED BY <3>1, <2>1 DEF NoInputLost
  <2>3. \A q \in Queued' : q \in Queued
    BY <2>1, <1>0, <1>4 DEF Inputs, Queued
  <2>4. ASSUME wf.phase \in Underway \cup {"IDLE"},
               NEW e \in Recorded' \ late', NEW q \in Queued', Open(e)',
               log'[e].body = "invoke" \/ (wf.phase = "IDLE" /\ pc \in {"begin", "main"})
        PROVE  e > q
    <3>1. e \in Event /\ q \in Queued /\ q \in Recorded /\ q \in Event
      BY <2>3, <1>0, <1>4, Positions DEF Queued
    <3>2. CASE e \in Recorded \ late
      BY <3>1, <3>2, <2>1, <2>4, <1>0, <1>4 DEF Inputs, Open
    <3>3. CASE \A d \in Recorded : ~(e <= d)
      BY <3>1, <3>3, LegacyBounds DEF Event
    <3> QED BY <3>2, <3>3, <1>4
  <2>5. \A e \in Event \ Recorded' : deferred'[e] = "NONE"
    BY <2>1, <1>0, <1>4 DEF Inputs
  <2>6. wf'.root # 0 => wf'.root \in Recorded' /\ consumed'[wf'.root] # "NONE"
    BY <2>1, <1>0, <1>4, Positions DEF Inputs
  <2> QED BY <1>0, <2>1, <2>2, <2>4, <2>5, <2>6 DEF Inputs, Open
<1> QED BY <1>5, <1>6, <1>7, <1>8, <1>9, <1>10 DEF LegacyInv

(* Inputs that are consumed or deferred.                                   *)
LEMMA InputsUsed ==
  ASSUME TypeOK, Inputs, log' = log, late' = late, wf'.root = wf.root,
         \A e \in Event : Open(e)' => Open(e) /\ ee'[e] = ee[e],
         wf.root # 0 => consumed'[wf.root] # "NONE",
         \A e \in Event \ Recorded : deferred'[e] = "NONE",
         wf'.phase \in Underway \cup {"IDLE"} =>
           \A e \in Recorded \ late, q \in Queued' :
             /\ Open(e)'
             /\ log[e].body = "invoke" \/ (wf'.phase = "IDLE" /\ pc' \in {"begin", "main"})
             => e > q
  PROVE  Inputs'
<1>1. NoInputLost'
  BY Positions DEF Inputs, NoInputLost, Open, Recorded
<1> QED BY <1>1 DEF Inputs, Recorded

(* What is unconsumed is open, and what is open and was listed in time is  *)
(* unconsumed.                                                             *)
LEMMA UnconsumedIsOpen ==
  ASSUME LegacyInv
  PROVE  /\ \A e \in Unconsumed : e \in Recorded /\ Open(e)
         /\ \A e \in Recorded \ late : Open(e) => e \in Unconsumed
         /\ Unconsumed \subseteq Event /\ wf.root \notin Unconsumed
         /\ Queued \subseteq Event /\ Recorded \subseteq Event
BY Positions DEF LegacyInv, Inputs, NoInputLost, Unconsumed, Open, Queued

(* The drain leaves no approval to the tick that starts the next cycle.    *)
LEMMA Drains ==
  ASSUME LegacyInv, _drain_approval_controls
  PROVE  LegacyInv'
<1> DEFINE E == {e \in Approvals(Unconsumed) : wf.root = 0 \/ ~Eligible(e)}
<1>1. /\ UNCHANGED <<now, log, late>>
      /\ UNCHANGED <<label, commands, crashes, deferred, le, wf, plan, permit, comment>>
      /\ UNCHANGED <<attempt, repair, question, checkpoint, reviewed, repairs, questions>>
      /\ UNCHANGED <<publication, published, jobs, using, outcome>>
      /\ pc = "idle" /\ pc' = "begin"
  BY DEF _drain_approval_controls, Goto, outside, cycleVars, runVars, pubVars
<1>2. E \subseteq Unconsumed
  BY DEF Approvals
<1>3. /\ consumed' \in [Event -> Purpose]
      /\ \A e \in Event : IF e \in E THEN consumed'[e] # "NONE" ELSE consumed'[e] = consumed[e]
  BY DEF LegacyInv, TypeOK, _drain_approval_controls, Purpose
<1>4. ee' = [e \in Event |-> IF e \in E THEN "SKIPPED" ELSE ee[e]]
  BY DEF _drain_approval_controls
<1> HIDE DEF E
<1>5. Execution' = Execution
  BY <1>1, <1>2, <1>4, UnconsumedIsOpen, Positions, ExecutionKept DEF LegacyInv
<1>6. TypeOK'
  <2>1. ee' \in [Event -> Status]
    BY <1>4 DEF LegacyInv, TypeOK, Status
  <2> QED BY <1>1, <1>3, <2>1, Rows, Typed DEF LegacyInv, Small, Step
<1>7. Authority' /\ Work' /\ Rounds' /\ Volatile'
  <2>1. Authority'
    BY <1>1 DEF LegacyInv, Authority
  <2>2. Work'
    BY <1>1, <1>5 DEF LegacyInv, Work
  <2>3. Rounds'
    BY <1>1 DEF LegacyInv, Rounds, Resumable
  <2>4. Volatile'
    BY <1>1, <1>5 DEF LegacyInv, Volatile
  <2> QED BY <2>1, <2>2, <2>3, <2>4
<1>8. Inputs'
  <2>1. \A e \in Event : Open(e)' => Open(e) /\ ee'[e] = ee[e] /\ e \notin E
    BY <1>1, <1>3, <1>4 DEF Open
  <2>2. Queued' = Queued
    BY <1>1 DEF Queued, Recorded
  <2>3. ASSUME NEW e \in Recorded \ late, Open(e)', wf.phase = "IDLE"
        PROVE  log[e].body = "invoke"
    <3>1. e \in Unconsumed /\ e \notin E
      BY <2>1, <2>3, UnconsumedIsOpen
    <3> QED BY <3>1, <2>3 DEF E, Approvals, Eligible
  <2>4. wf.root # 0 => consumed'[wf.root] # "NONE"
    BY <1>2, <1>3, UnconsumedIsOpen, Positions DEF LegacyInv, Inputs
  <2>5. Inputs /\ TypeOK
    BY DEF LegacyInv
  <2>6. ASSUME wf'.phase \in Underway \cup {"IDLE"}, NEW e \in Recorded \ late, NEW q \in Queued',
               Open(e)',
               log[e].body = "invoke" \/ (wf'.phase = "IDLE" /\ pc' \in {"begin", "main"})
        PROVE  e > q
    <3>1. log[e].body = "invoke" /\ Open(e)
      BY <2>1, <2>3, <2>6, <1>1, UnconsumedIsOpen
    <3> QED BY <3>1, <2>2, <2>5, <2>6, <1>1 DEF Inputs
  <2>7. \A e \in Event \ Recorded : deferred'[e] = "NONE"
    BY <2>5, <1>1 DEF Inputs
  <2> QED BY <1>1, <2>1, <2>4, <2>5, <2>6, <2>7, InputsUsed
<1> QED BY <1>6, <1>7, <1>8 DEF LegacyInv

(* _defer_active_followups queues every open invocation of a plan under way.*)
LEMMA Defers ==
  ASSUME LegacyInv, _defer_active_followups
  PROVE  LegacyInv'
<1>1. /\ UNCHANGED <<now, log, late>>
      /\ UNCHANGED <<label, commands, crashes, consumed, ee, le, wf, plan, permit, comment>>
      /\ UNCHANGED <<attempt, repair, question, checkpoint, reviewed, repairs, questions>>
      /\ UNCHANGED <<publication, published, jobs, using, outcome>>
      /\ pc \in {"begin", "defer"} /\ pc' = "main"
  BY DEF _defer_active_followups, Goto, outside, cycleVars, runVars, pubVars
<1>2. /\ deferred' \in [Event -> {"NONE", "QUEUED", "CONSUMED"}]
      /\ \A e \in Event : IF wf.phase \in Underway /\ e \in Invocations(Unconsumed)
                          THEN deferred'[e] = "QUEUED" ELSE deferred'[e] = deferred[e]
  BY DEF LegacyInv, TypeOK, _defer_active_followups, Underway
<1>3. Execution' = Execution
  BY <1>1 DEF Execution
<1>4. TypeOK'
  BY <1>1, <1>2, Rows, Typed DEF LegacyInv, Small, Step
<1>5. Authority'
  BY <1>1 DEF LegacyInv, Authority
<1>6. Work'
  BY <1>1, <1>3 DEF LegacyInv, Work
<1>7. Rounds'
  BY <1>1 DEF LegacyInv, Rounds, Resumable
<1>8. Volatile'
  BY <1>1, <1>3 DEF LegacyInv, Volatile
<1>9. Inputs'
  <2>0. Inputs /\ TypeOK
    BY DEF LegacyInv
  <2>1. \A e \in Event : Open(e)' => Open(e) /\ ee'[e] = ee[e]
    BY <1>1, <1>2 DEF Open
  <2>2. wf.root # 0 => consumed'[wf.root] # "NONE"
    BY <1>1, <2>0 DEF Inputs
  <2>3. \A e \in Event \ Recorded : deferred'[e] = "NONE"
    BY <1>2, <2>0, UnconsumedIsOpen DEF Inputs, Invocations
  <2>4. ASSUME wf'.phase \in Underway \cup {"IDLE"}, NEW e \in Recorded \ late, NEW q \in Queued',
               Open(e)',
               log[e].body = "invoke" \/ (wf'.phase = "IDLE" /\ pc' \in {"begin", "main"})
        PROVE  e > q
    <3>1. e \in Event /\ q \in Event /\ q \in Recorded /\ deferred'[q] = "QUEUED"
      BY <1>1, UnconsumedIsOpen DEF Queued, Recorded
    <3>2. Open(e)
      BY <3>1, <2>1, <2>4
    <3>3. CASE wf.phase \in Underway
      <4>1. e \in Invocations(Unconsumed)
        BY <3>2, <3>3, <2>4, <1>1, UnconsumedIsOpen DEF Invocations, Underway
      <4> QED BY <4>1, <3>1, <3>3, <1>2, <2>4 DEF Open
    <3>4. CASE wf.phase = "IDLE"
      <4>1. pc = "begin" /\ q \in Queued
        BY <3>1, <3>4, <1>1, <1>2 DEF LegacyInv, Volatile, Underway, Queued
      <4> QED BY <4>1, <3>2, <3>4, <2>0 DEF Inputs
    <3> QED BY <3>3, <3>4, <2>4, <1>1
  <2> QED BY <1>1, <2>0, <2>1, <2>2, <2>3, <2>4, InputsUsed
<1> QED BY <1>4, <1>5, <1>6, <1>7, <1>8, <1>9 DEF LegacyInv

(* Away from a plan under way, inputs have no order to keep.               *)
LEMMA InputsTaken ==
  ASSUME LegacyInv, log' = log, late' = late, wf'.root = wf.root,
         wf'.phase \notin Underway \cup {"IDLE"},
         \A e \in Event : Open(e)' => Open(e) /\ (e # wf.root => ee'[e] = ee[e]),
         \A e \in Event : consumed[e] # "NONE" => consumed'[e] # "NONE",
         \A e \in Event \ Recorded : deferred'[e] = deferred[e]
  PROVE  Inputs'
<1>1. Inputs /\ TypeOK /\ (wf.root # 0 => wf.root \in Event)
  BY Positions DEF LegacyInv
<1>2. wf.root # 0 => consumed'[wf.root] # "NONE"
  BY <1>1 DEF Inputs
<1>3. \A e \in Event : Open(e)' => Open(e) /\ ee'[e] = ee[e]
  BY <1>1, LegacyBounds DEF Inputs, Open, Event
<1>4. \A e \in Event \ Recorded : deferred'[e] = "NONE"
  BY <1>1 DEF Inputs
<1> QED BY <1>1, <1>2, <1>3, <1>4, InputsUsed

(* An answer reopens the permit, another scope voids it, and everything    *)
(* else is routed.                                                         *)
LEMMA Clarifies ==
  ASSUME LegacyInv, NEW r \in Relationship, _resolve_open_clarification(r)
  PROVE  LegacyInv'
<1> DEFINE e == First(ClarifyRows)
<1>1. e \in Unconsumed /\ e \in Recorded /\ e \in Event /\ e # wf.root /\ e \in 0 .. MaxEvents /\ e # 0
  <2>1. ClarifyRows # {} /\ ClarifyRows \subseteq Unconsumed
    BY DEF _resolve_open_clarification, ClarifyRows
  <2>2. e \in Unconsumed
    BY <2>1, FirstIsOne, UnconsumedIsOpen
  <2> QED BY <2>2, UnconsumedIsOpen, Positions DEF LegacyInv
<1>2. /\ pc = "clarify" /\ wf.phase = "WAITING_FOR_INPUT" /\ wf.root # 0 /\ Execution # "SUCCEEDED"
      /\ attempt.status # "SUCCEEDED" /\ attempt.kind # "REVIEW_REPAIR"
      /\ permit[plan.version] \in {"OPEN", "CONSUMED"} /\ plan.status = "APPROVED"
      /\ TypeOK
  BY DEF LegacyInv, _resolve_open_clarification, Volatile, Work, Authority, Underway
<1>3. /\ UNCHANGED <<now, log, late, label, commands, crashes, plan, comment>>
      /\ UNCHANGED <<attempt, repair, checkpoint, reviewed, repairs, questions>>
      /\ UNCHANGED <<publication, published, jobs>>
  BY DEF _resolve_open_clarification, outside, pubVars
<1>4. \/ \E b \in BOOLEAN : resolve_clarification_answer(e, b)
      \/ cancel_clarification_for_replan(e)
      \/ \E s \in {"DEFERRED", "AMBIGUOUS", "NONE"} : route_clarification_input(e, s)
  BY DEF _resolve_open_clarification
<1> HIDE DEF e
<1>5. ASSUME NEW b \in BOOLEAN, resolve_clarification_answer(e, b) PROVE LegacyInv'
  <2>1. /\ permit' = [v \in 1 .. MaxVersion |-> IF permit[v] = "CONSUMED" THEN "OPEN" ELSE permit[v]]
        /\ SetExecution("RETRY_PENDING") /\ SetPhase("EXECUTION_READY")
        /\ question' = "ANSWERED" /\ pc' = "defer" /\ using' = 0 /\ outcome' = outcome
    <3>1. plan.version \in 1 .. MaxVersion
      BY <1>2 DEF TypeOK
    <3> QED BY <3>1, <1>2, <1>5 DEF resolve_clarification_answer
  <2>2. Moved("EXECUTION_READY") /\ wf' \in WfRow
    BY <2>1, <1>2, PhaseMoves DEF Phase
  <2>3. /\ Execution' = "RETRY_PENDING" /\ ee' \in [Event -> Status] /\ le' \in Status
        /\ \A d \in Event : d # wf.root => ee'[d] = ee[d]
    BY <1>2, <2>1, <2>2, ExecutionSet DEF Moved, Status
  <2>4. /\ consumed' = [consumed EXCEPT ![e] = "CLARIFICATION_RESPONSE"]
        /\ deferred' = [deferred EXCEPT ![e] = IF b THEN "QUEUED" ELSE @]
    BY <1>5 DEF resolve_clarification_answer
  <2>5. TypeOK'
    <3>1. consumed' \in [Event -> Purpose] /\ deferred' \in [Event -> {"NONE", "QUEUED", "CONSUMED"}]
      BY <2>4, <1>2 DEF TypeOK, Purpose
    <3>2. permit' \in PermitRows
      BY <2>1, <1>2 DEF TypeOK, PermitRows
    <3> QED BY <1>2, <1>3, <2>1, <2>2, <2>3, <3>1, <3>2, Positions, Rows, Typed DEF Small, Step
  <2>6. Authority'
    <3>1. permit'[plan.version] = "OPEN" /\ \A v \in 1 .. MaxVersion : v # plan.version => permit'[v] \in Void
      BY <1>2, <2>1 DEF LegacyInv, TypeOK, Authority, Void
    <3> QED BY <3>1, <1>2, <1>3, <2>2 DEF LegacyInv, Authority, Moved, Underway
  <2>7. Work'
    BY <1>2, <1>3, <2>2, <2>3 DEF LegacyInv, Work, Moved, Underway
  <2>8. Rounds'
    BY <1>2, <1>3 DEF LegacyInv, Rounds
  <2>9. Volatile'
    BY <2>1, <2>2 DEF LegacyInv, Volatile, Moved
  <2>10. Inputs'
    <3>1. /\ \A d \in Event : Open(d)' => Open(d) /\ (d # wf.root => ee'[d] = ee[d])
          /\ \A d \in Event : consumed[d] # "NONE" => consumed'[d] # "NONE"
          /\ \A d \in Event \ Recorded : deferred'[d] = deferred[d]
      BY <1>1, <1>2, <2>3, <2>4 DEF TypeOK, Open
    <3> QED BY <3>1, <1>3, <2>2, InputsTaken DEF Moved, Underway
  <2> QED BY <2>5, <2>6, <2>7, <2>8, <2>9, <2>10 DEF LegacyInv
<1>6. ASSUME cancel_clarification_for_replan(e) PROVE LegacyInv'
  <2>1. /\ permit' = [v \in 1 .. MaxVersion |-> IF permit[v] = "NONE" THEN "NONE" ELSE "INVALID"]
        /\ question' = "CANCELLED" /\ pc' = "defer" /\ using' = 0 /\ outcome' = outcome
        /\ consumed' = [consumed EXCEPT ![e] = "PLANNING_INPUT"] /\ UNCHANGED <<deferred, ee, le>>
        /\ wf' = [wf EXCEPT !.phase = "PLANNING", !.feedback = e]
    BY <1>6 DEF cancel_clarification_for_replan
  <2>2. /\ wf' \in WfRow
        /\ wf'.phase = "PLANNING" /\ wf'.root = wf.root /\ wf'.logical = wf.logical
        /\ wf'.mode = wf.mode /\ wf'.feedback = e
    <3>1. wf \in WfRow /\ e \in 0 .. MaxEvents
      BY <1>1, <1>2, Positions DEF TypeOK, WfRow
    <3> QED BY <2>1, <3>1 DEF WfRow, Phase
  <2>3. Execution' = Execution
    BY <2>1, <2>2, ExecutionKept
  <2>4. permit' \in [1 .. MaxVersion -> Void]
    BY <2>1 DEF Void
  <2>5. TypeOK'
    <3>1. consumed' \in [Event -> Purpose]
      BY <2>1, <1>2 DEF TypeOK, Purpose
    <3>2. permit' \in PermitRows
      BY <2>4 DEF Void, PermitRows
    <3> QED BY <1>2, <1>3, <2>1, <2>2, <3>1, <3>2, Positions, Rows, Typed DEF Small, Step
  <2>6. Authority'
    <3>1. plan.version \in 1 .. MaxVersion
      BY <1>2 DEF TypeOK
    <3> QED BY <3>1, <1>3, <2>2, <2>4 DEF LegacyInv, Authority, Underway
  <2>7. Work'
    BY <1>2, <1>3, <2>2, <2>3 DEF LegacyInv, Work, Underway
  <2>8. Rounds'
    BY <1>2, <1>3 DEF LegacyInv, Rounds
  <2>9. Volatile'
    BY <1>1, <2>1, <2>2 DEF LegacyInv, Volatile
  <2>10. Inputs'
    <3>1. /\ \A d \in Event : Open(d)' => Open(d) /\ (d # wf.root => ee'[d] = ee[d])
          /\ \A d \in Event : consumed[d] # "NONE" => consumed'[d] # "NONE"
          /\ \A d \in Event \ Recorded : deferred'[d] = deferred[d]
      BY <1>1, <1>2, <2>1 DEF TypeOK, Open
    <3> QED BY <3>1, <1>3, <2>2, InputsTaken DEF Underway
  <2> QED BY <2>5, <2>6, <2>7, <2>8, <2>9, <2>10 DEF LegacyInv
<1>7. ASSUME NEW s \in {"DEFERRED", "AMBIGUOUS", "NONE"}, route_clarification_input(e, s)
      PROVE  LegacyInv'
  <2>1. /\ consumed' = [consumed EXCEPT ![e] = IF s = "NONE" THEN @ ELSE "CLARIFICATION_ROUTED"]
        /\ deferred' = [deferred EXCEPT ![e] = IF s = "DEFERRED" THEN "QUEUED" ELSE @]
        /\ pc' = pc /\ using' = e /\ outcome' = outcome
        /\ UNCHANGED <<question, permit, ee, le, wf>>
    BY <1>7 DEF route_clarification_input
  <2>3. Execution' = Execution
    BY <2>1, ExecutionKept
  <2>5. TypeOK'
    <3>1. consumed' \in [Event -> Purpose] /\ deferred' \in [Event -> {"NONE", "QUEUED", "CONSUMED"}]
      BY <2>1, <1>2 DEF TypeOK, Purpose
    <3>2. e \in 0 .. MaxEvents
      BY <1>1, <1>2, Positions
    <3> QED BY <1>2, <1>3, <2>1, <3>1, <3>2, Rows, Typed DEF Small
  <2>6. Authority'
    BY <1>3, <2>1 DEF LegacyInv, Authority
  <2>7. Work'
    BY <1>3, <2>1, <2>3 DEF LegacyInv, Work
  <2>8. Rounds'
    BY <1>2, <1>3 DEF LegacyInv, Rounds
  <2>9. Volatile'
    BY <1>1, <1>2, <2>1 DEF LegacyInv, Volatile
  <2>10. Inputs'
    <3>1. /\ \A d \in Event : Open(d)' => Open(d) /\ (d # wf.root => ee'[d] = ee[d])
          /\ \A d \in Event : consumed[d] # "NONE" => consumed'[d] # "NONE"
          /\ \A d \in Event \ Recorded : deferred'[d] = deferred[d]
      <4>1. consumed \in [Event -> Purpose] /\ deferred \in [Event -> {"NONE", "QUEUED", "CONSUMED"}]
        BY <1>2 DEF TypeOK
      <4>2. \A d \in Event : d # e => consumed'[d] = consumed[d] /\ deferred'[d] = deferred[d]
        BY <4>1, <2>1
      <4>3. Open(e) /\ consumed[e] = "NONE"
        BY <1>1, UnconsumedIsOpen DEF Open
      <4> QED BY <1>1, <2>1, <4>2, <4>3 DEF Open
    <3> QED BY <3>1, <1>2, <1>3, <2>1, InputsTaken DEF Underway
  <2> QED BY <2>5, <2>6, <2>7, <2>8, <2>9, <2>10 DEF LegacyInv
<1> QED BY <1>4, <1>5, <1>6, <1>7

(* The next cycle takes the earliest input, so what is left lies after it. *)
LEMMA Begins ==
  ASSUME LegacyInv, begin_next_cycle
  PROVE  LegacyInv'
<1> DEFINE e == First(NextInput)
<1>0. TypeOK /\ Inputs
  BY DEF LegacyInv
<1>1. /\ pc = "main" /\ wf.phase = "IDLE" /\ NextInput # {} /\ wf.cycle < MaxCycles
      /\ begin_workflow_cycle(e) /\ pc' = "planning" /\ UNCHANGED <<using, outcome>>
      /\ UNCHANGED <<now, log, late>>
      /\ UNCHANGED <<label, commands, crashes, ee, question, checkpoint, questions, published, jobs>>
  BY DEF begin_next_cycle, Goto, outside
<1>2. e \in NextInput /\ (\A d \in NextInput : e <= d) /\ e \in Recorded /\ e \in Event
      /\ (Queued = {} => \A d \in Recorded \ late : Open(d) => d \in NextInput)
  <2>1. Queued = {} => \A d \in Recorded \ late : Open(d) => d \in NextInput
    BY <1>0, UnconsumedIsOpen DEF NextInput, Inputs
  <2>2. NextInput \subseteq Recorded
    BY UnconsumedIsOpen DEF NextInput, Queued
  <2>3. NextInput \in SUBSET Event
    BY <2>2, UnconsumedIsOpen
  <2> QED BY <1>1, <2>1, <2>2, <2>3, FirstIsOne
<1>3. deferred[e] # "QUEUED" => Queued = {} /\ ee[e] = "NONE"
  BY <1>2 DEF NextInput, Queued
<1>4. begin_workflow_cycle(e)
  BY <1>1
<1> HIDE DEF e
<1>5. /\ wf' \in WfRow /\ wf'.phase = "PLANNING" /\ wf'.root = e /\ wf'.feedback = 0
      /\ wf'.logical = (deferred[e] = "QUEUED") /\ (wf'.mode = "AUTO" => AllowAuto)
  <2>0. wf.cycle \in 0 .. MaxCycles
    BY <1>0 DEF TypeOK
  <2>1. wf.cycle + 1 \in 0 .. MaxCycles
    BY <2>0, <1>1, LegacyBounds
  <2>2. e \in 0 .. MaxEvents /\ 0 \in 0 .. MaxEvents
    BY <1>0, <1>2, Positions
  <2> QED BY <1>4, <2>1, <2>2 DEF begin_workflow_cycle, WfRow, Phase
<1>6. /\ plan' = NoPlan /\ permit' = NoPermits /\ comment' = 0 /\ le' = "NONE"
      /\ attempt' = NoAttempt /\ repair' = NoRepair /\ publication' = "NONE"
      /\ repairs' = 0 /\ reviewed' = FALSE
  BY <1>4 DEF begin_workflow_cycle
<1>7. /\ consumed' \in [Event -> Purpose] /\ consumed'[e] # "NONE"
      /\ \A d \in Event : d # e => consumed'[d] = consumed[d]
      /\ deferred' \in [Event -> {"NONE", "QUEUED", "CONSUMED"}]
      /\ \A d \in Event : d # e => deferred'[d] = deferred[d]
  BY <1>0, <1>2, <1>4 DEF begin_workflow_cycle, TypeOK, Purpose
<1>8. Execution' = "NONE"
  BY <1>1, <1>3, <1>5, <1>6, <1>2, LegacyBounds DEF Execution, Event
<1>9. TypeOK'
  <2>1. plan' \in PlanRow /\ permit' \in PermitRows /\ comment' \in 0 .. MaxEvents
    BY <1>0, <1>6, Positions, LegacyBounds DEF NoPlan, NoPermits, PlanRow, PermitRows
  <2>2. attempt' \in AttemptRow /\ repair' \in RepairRow
    BY <1>6, LegacyBounds DEF NoAttempt, NoRepair, Status, Verdict, AttemptRow, RepairRow
  <2>3. le' \in Status /\ publication' \in {"NONE", "COMPLETED"} /\ repairs' \in Nat
        /\ reviewed' \in BOOLEAN /\ pc' \in Step
    BY <1>1, <1>6 DEF Status, Step
  <2>4. UNCHANGED <<now, log, late, label, commands, crashes, ee, question, checkpoint, questions>>
        /\ UNCHANGED <<published, jobs, using, outcome>>
    BY <1>1
  <2>5. /\ consumed' \in [Event -> Purpose] /\ wf' \in WfRow
        /\ deferred' \in [Event -> {"NONE", "QUEUED", "CONSUMED"}]
    BY <1>5, <1>7
  <2> QED BY <1>0, <2>1, <2>2, <2>3, <2>4, <2>5, Rows, Typed DEF Small
<1>10. Authority'
  BY <1>5, <1>6, LegacyBounds DEF Authority, NoPlan, NoPermits, Void, Underway
<1>11. Work'
  BY <1>2, <1>5, <1>6, <1>8, LegacyBounds DEF Work, NoAttempt, Underway, Event
<1>12. Rounds'
  BY <1>6 DEF Rounds, NoAttempt
<1>13. Volatile'
  BY <1>1, <1>5 DEF LegacyInv, Volatile
<1>14. Inputs'
  <2>1. ASSUME NEW d \in Recorded \ late, Open(d)' PROVE d > e
    <3>1. d \in Event /\ d # e /\ Open(d)
      BY <1>2, <1>7, <2>1, UnconsumedIsOpen DEF Open
    <3>2. d \in Nat /\ e \in Nat
      BY <3>1, <1>2, LegacyBounds DEF Event
    <3>3. CASE Queued = {}
      BY <3>1, <3>2, <3>3, <1>2
    <3>4. CASE Queued # {}
      <4>1. e \in Queued
        BY <3>4, <1>2 DEF NextInput
      <4> QED BY <4>1, <3>1, <1>0, <1>1 DEF Inputs
    <3> QED BY <3>3, <3>4
  <2>2. NoInputLost'
    BY <2>1, <1>1, <1>5 DEF NoInputLost, Open, Recorded
  <2>3. \A d \in Event : Open(d)' => ee'[d] = "NONE"
    BY <1>0, <1>1, <1>7 DEF Inputs, Open
  <2>4. \A d \in Event \ Recorded : deferred'[d] = "NONE"
    BY <1>0, <1>2, <1>7 DEF Inputs
  <2>5. wf'.root \in Recorded' /\ Recorded' = Recorded
    BY <1>1, <1>2, <1>5 DEF Recorded
  <2> QED BY <2>2, <2>3, <2>4, <2>5, <1>5, <1>7 DEF Inputs, Underway
<1> QED BY <1>9, <1>10, <1>11, <1>12, <1>13, <1>14 DEF LegacyInv

(* plan_event, publish_plan and mark_current_plan_posted: a plan is being  *)
(* made, so no permit is valid.                                            *)
LEMMA Plans ==
  ASSUME LegacyInv, plan_event \/ publish_plan \/ mark_current_plan_posted
  PROVE  LegacyInv'
<1>0. TypeOK /\ wf \in WfRow /\ plan \in PlanRow
  BY DEF LegacyInv, TypeOK, WfRow, PlanRow
<1>1. /\ UNCHANGED <<now, log, late, label, commands, crashes, consumed, deferred, ee, le, permit>>
      /\ UNCHANGED <<attempt, repair, question, checkpoint, reviewed, repairs, questions>>
      /\ UNCHANGED <<publication, published, jobs>>
  BY DEF plan_event, publish_plan, mark_current_plan_posted, outside, inputVars, runVars, pubVars
<1>2. wf.phase = "PLANNING"
  BY DEF LegacyInv, Volatile, plan_event, publish_plan, mark_current_plan_posted
<1>3. /\ wf' \in WfRow /\ Moved(wf'.phase) /\ wf'.phase \in {"PLANNING", "WAITING_FOR_PLAN_APPROVAL"}
      /\ (pc' \in {"planned", "posted"} => wf'.phase = "PLANNING")
  <2>1. CASE plan_event \/ publish_plan
    BY <2>1, <1>0, <1>2 DEF plan_event, publish_plan, Moved
  <2>2. CASE mark_current_plan_posted
    <3>1. Moved("WAITING_FOR_PLAN_APPROVAL") /\ wf' \in WfRow
      BY <2>2, <1>0, PhaseMoves DEF mark_current_plan_posted, Phase
    <3>2. pc' \in {"authorize", "idle"}
      BY <2>2 DEF mark_current_plan_posted, Goto, End
    <3> QED BY <3>1, <3>2 DEF Moved
  <2> QED BY <2>1, <2>2
<1>4. /\ plan' \in PlanRow /\ plan'.version = plan.version /\ plan'.status \in {plan.status, "POSTED"}
      /\ (plan'.status # "POSTED" => plan'.by = plan.by /\ plan'.posted = plan.posted)
      /\ comment' \in 0 .. MaxEvents
  <2>1. comment \in 0 .. MaxEvents /\ now \in 0 .. MaxEvents
    BY <1>0, Positions DEF TypeOK
  <2>2. CASE plan_event
    BY <2>1, <2>2, <1>0 DEF plan_event, PlanRow
  <2>3. CASE publish_plan
    BY <2>1, <2>3, <1>0 DEF publish_plan
  <2>4. CASE mark_current_plan_posted
    BY <2>1, <2>4, <1>0 DEF mark_current_plan_posted, PlanRow
  <2> QED BY <2>2, <2>3, <2>4
<1>5. /\ pc' \in {"planned", "posted", "authorize", "idle"}
      /\ pc' = "authorize" => wf'.phase = "WAITING_FOR_PLAN_APPROVAL" /\ wf.mode = "AUTO"
      /\ IF pc' = "idle" THEN using' = 0 /\ outcome' = "NONE" ELSE UNCHANGED <<using, outcome>>
  <2>1. CASE plan_event \/ publish_plan
    BY <2>1 DEF plan_event, publish_plan, Goto
  <2>2. CASE mark_current_plan_posted
    <3>1. wf'.phase = "WAITING_FOR_PLAN_APPROVAL"
      BY <2>2, <1>0, PhaseMoves DEF mark_current_plan_posted, Phase, Moved
    <3> QED BY <2>2, <3>1 DEF mark_current_plan_posted, Goto, End
  <2> QED BY <2>1, <2>2
<1>6. Execution' = Execution
  BY <1>1, <1>3, ExecutionKept DEF Moved
<1>7. TypeOK'
  <2>1. pc' \in Step /\ using' \in 0 .. MaxEvents
        /\ outcome' \in {"NONE", "AUTHORIZE", "SUCCEEDED", "FAILED", "CLARIFICATION"}
    BY <1>0, <1>5, Positions, Rows DEF Small, Step
  <2> QED BY <1>0, <1>1, <1>3, <1>4, <2>1, Rows, Typed DEF Small
<1>8. Authority'
  BY <1>1, <1>2, <1>3, <1>4 DEF LegacyInv, Authority, Moved, Underway
<1>9. Work'
  BY <1>1, <1>2, <1>3, <1>6 DEF LegacyInv, Work, Moved, Underway
<1>10. Rounds'
  <2>1. attempt.kind # "REVIEW_REPAIR"
    BY <1>2 DEF LegacyInv, Work, Underway
  <2> QED BY <2>1, <1>1 DEF LegacyInv, Rounds
<1>11. Volatile'
  BY <1>3, <1>5 DEF LegacyInv, Volatile, Moved
<1>12. Inputs'
  BY <1>0, <1>1, <1>3, InputsKept DEF LegacyInv, Moved, Underway
<1> QED BY <1>7, <1>8, <1>9, <1>10, <1>11, <1>12 DEF LegacyInv

(* _replan: the next version begins without a permit.                      *)
LEMMA Replans ==
  ASSUME LegacyInv, _replan
  PROVE  LegacyInv'
<1>0. TypeOK /\ wf \in WfRow /\ plan \in PlanRow
  BY DEF LegacyInv, TypeOK, WfRow, PlanRow
<1>1. /\ UNCHANGED <<now, log, late, label, commands, crashes, deferred, le, permit>>
      /\ UNCHANGED <<attempt, repair, question, checkpoint, reviewed, repairs, questions>>
      /\ UNCHANGED <<publication, published, jobs, using, outcome>>
      /\ pc = "planning" /\ pc' = "planned" /\ using # 0 /\ plan.version < MaxVersion
      /\ finish_plan_revision(using)
  BY DEF _replan, Goto, outside, runVars, pubVars
<1>2. wf.phase = "PLANNING" /\ using # wf.root /\ using \in Event /\ permit[plan.version] \in Void
  <2>1. using \in Event
    BY <1>0, <1>1, LegacyBounds, Positions DEF TypeOK, Event
  <2> QED BY <2>1, <1>1 DEF LegacyInv, Volatile, Authority
<1>3. /\ wf' \in WfRow /\ wf'.phase = wf.phase /\ wf'.root = wf.root /\ wf'.logical = wf.logical
      /\ wf'.mode = wf.mode /\ wf'.feedback = 0
  <2>1. 0 \in 0 .. MaxEvents
    BY <1>0, Positions
  <2> QED BY <2>1, <1>0, <1>1 DEF finish_plan_revision, WfRow
<1>4. plan' \in PlanRow /\ plan'.version = plan.version + 1 /\ plan'.status = "DRAFT" /\ comment' = 0
  <2>1. 0 \in 0 .. MaxEvents /\ plan.version + 1 \in 1 .. MaxVersion
    BY <1>0, <1>1, Positions, LegacyBounds DEF PlanRow
  <2> QED BY <2>1, <1>1 DEF finish_plan_revision, NoPlan, PlanRow
<1>5. /\ consumed' \in [Event -> Purpose] /\ consumed'[using] # "NONE"
      /\ \A d \in Event : d # using => consumed'[d] = consumed[d]
      /\ ee' \in [Event -> Status] /\ \A d \in Event : d # using => ee'[d] = ee[d]
  <2>1. consumed \in [Event -> Purpose] /\ ee \in [Event -> Status]
    BY <1>0, Rows DEF Small
  <2> QED BY <1>1, <1>2, <2>1 DEF finish_plan_revision, Purpose, Status
<1>6. Execution' = Execution
  BY <1>0, <1>1, <1>2, <1>3, <1>5, Positions, ExecutionKept
<1>7. TypeOK'
  <2>1. /\ wf' \in WfRow /\ plan' \in PlanRow /\ comment' \in 0 .. MaxEvents /\ pc' \in Step
        /\ consumed' \in [Event -> Purpose] /\ ee' \in [Event -> Status]
    BY <1>0, <1>1, <1>3, <1>4, <1>5, Positions DEF Step
  <2>2. UNCHANGED <<now, log, late, label, commands, crashes, deferred, le, permit, attempt, repair>>
        /\ UNCHANGED <<question, checkpoint, reviewed, repairs, questions, publication>>
        /\ UNCHANGED <<published, jobs, using, outcome>>
    BY <1>1
  <2> QED BY <1>0, <2>1, <2>2, Rows, Typed DEF Small
<1>8. Authority'
  <2>1. \A v \in 1 .. MaxVersion : permit[v] \in Void
    BY <1>2 DEF LegacyInv, Authority
  <2>2. plan'.version \in 1 .. MaxVersion
    BY <1>4 DEF PlanRow
  <2> QED BY <1>1, <1>2, <1>3, <1>4, <2>1, <2>2 DEF LegacyInv, Authority, Underway
<1>9. attempt.kind # "REVIEW_REPAIR" /\ Execution # "SUCCEEDED"
  BY <1>2 DEF LegacyInv, Work, Underway
<1>10. Work'
  BY <1>1, <1>2, <1>3, <1>6, <1>9 DEF LegacyInv, Work, Underway
<1>11. Rounds'
  BY <1>1, <1>9 DEF LegacyInv, Rounds
<1>12. Volatile'
  BY <1>1, <1>2, <1>3 DEF LegacyInv, Volatile
<1>13. Inputs'
  <2>1. /\ \A d \in Event : Open(d)' => Open(d) /\ (d # wf.root => ee'[d] = ee[d])
        /\ \A d \in Event : consumed[d] # "NONE" => consumed'[d] # "NONE"
        /\ \A d \in Event \ Recorded : deferred'[d] = deferred[d]
    BY <1>1, <1>5 DEF Open
  <2> QED BY <2>1, <1>1, <1>2, <1>3, InputsTaken DEF Underway
<1> QED BY <1>7, <1>8, <1>10, <1>11, <1>12, <1>13 DEF LegacyInv

(* The inputs the planner was shown are consumed.                          *)
LEMMA Acknowledges ==
  ASSUME LegacyInv, NEW D \in SUBSET Event, acknowledge_delivered(D)
  PROVE  LegacyInv'
<1>0. TypeOK
  BY DEF LegacyInv
<1>1. /\ UNCHANGED <<now, log, late, label, commands, crashes, le, wf, plan, permit, comment>>
      /\ UNCHANGED <<attempt, repair, question, checkpoint, reviewed, repairs, questions>>
      /\ UNCHANGED <<publication, published, jobs, using, outcome>>
      /\ pc = "planned" /\ pc' = "publish"
  BY DEF acknowledge_delivered, Goto, outside, cycleVars, runVars, pubVars
<1>2. wf.phase = "PLANNING" /\ D \ Queued \subseteq Unconsumed
  BY <1>1 DEF LegacyInv, Volatile, PlanningInputs, Invocations, acknowledge_delivered
<1>3. /\ deferred' \in [Event -> {"NONE", "QUEUED", "CONSUMED"}]
      /\ \A e \in Event : deferred'[e] = deferred[e] \/ (e \in Queued /\ deferred'[e] = "CONSUMED")
  BY <1>0 DEF acknowledge_delivered, TypeOK
<1>4. /\ consumed' \in [Event -> Purpose]
      /\ \A e \in Event : consumed'[e] = IF e \in D \ Queued THEN "PLANNING_INPUT" ELSE consumed[e]
      /\ ee' \in [Event -> Status]
      /\ \A e \in Event : ee'[e] = IF e \in D \ Queued THEN "SKIPPED" ELSE ee[e]
  BY <1>0 DEF acknowledge_delivered, Consume, TypeOK, Purpose, Status
<1>5. Execution' = Execution
  BY <1>0, <1>1, <1>2, <1>4, UnconsumedIsOpen, Positions, ExecutionKept
<1>6. TypeOK'
  BY <1>0, <1>1, <1>3, <1>4, Rows, Typed DEF Small, Step
<1>7. Authority'
  BY <1>1 DEF LegacyInv, Authority
<1>8. Work'
  BY <1>1, <1>5 DEF LegacyInv, Work
<1>9. Rounds'
  BY <1>1 DEF LegacyInv, Rounds, Resumable
<1>10. Volatile'
  BY <1>1, <1>2 DEF LegacyInv, Volatile
<1>11. Inputs'
  <2>1. /\ \A d \in Event : Open(d)' => Open(d) /\ (d # wf.root => ee'[d] = ee[d])
        /\ \A d \in Event : consumed[d] # "NONE" => consumed'[d] # "NONE"
        /\ \A d \in Event \ Recorded : deferred'[d] = deferred[d]
    BY <1>3, <1>4 DEF Open, Queued
  <2> QED BY <2>1, <1>1, <1>2, InputsTaken DEF Underway
<1> QED BY <1>6, <1>7, <1>8, <1>9, <1>10, <1>11 DEF LegacyInv

(* begin_plan_revision: the permits nobody used are void while the plan is *)
(* revised.                                                                *)
LEMMA Revises ==
  ASSUME LegacyInv, NEW e \in Recorded, e # wf.root, NEW next \in {"NONE", "AUTHORIZE"},
         wf.phase \in {"WAITING_FOR_PLAN_APPROVAL", "EXECUTION_READY"}, pc = "main",
         begin_plan_revision(e, next),
         UNCHANGED <<now, log, late, label, commands, crashes, consumed, deferred, ee, le>>,
         UNCHANGED <<attempt, repair, question, checkpoint, reviewed, repairs, questions>>,
         UNCHANGED <<publication, published, jobs>>
  PROVE  LegacyInv'
<1>0. TypeOK /\ wf \in WfRow /\ plan \in PlanRow /\ e \in 0 .. MaxEvents /\ e # 0
  <2>1. TypeOK
    BY DEF LegacyInv
  <2>2. e \in 0 .. MaxEvents /\ e # 0
    BY <2>1, Positions
  <2> QED BY <2>1, <2>2 DEF TypeOK, WfRow, PlanRow
<1>1. /\ wf' \in WfRow /\ wf'.phase = "PLANNING" /\ wf'.root = wf.root /\ wf'.logical = wf.logical
      /\ wf'.mode = wf.mode /\ wf'.feedback = e
  BY <1>0 DEF begin_plan_revision, WfRow, Phase
<1>2. /\ UNCHANGED <<plan, comment>> /\ pc' = "planning" /\ using' = e /\ outcome' = next
      /\ permit' = [v \in 1 .. MaxVersion |-> IF permit[v] = "OPEN" THEN "INVALID" ELSE permit[v]]
  BY DEF begin_plan_revision
<1>3. Execution' = Execution
  BY <1>1, ExecutionKept
<1>4. permit' \in PermitRows /\ \A v \in 1 .. MaxVersion : permit'[v] \in Void
  <2>1. permit \in PermitRows
    BY <1>0 DEF TypeOK, PermitRows
  <2>2. \A v \in 1 .. MaxVersion : permit[v] \in {"NONE", "INVALID", "OPEN"}
    <3>1. permit[plan.version] \in {"NONE", "INVALID", "OPEN"}
      BY DEF LegacyInv, Authority, Void
    <3> QED BY <3>1 DEF LegacyInv, Authority, Void
  <2> QED BY <2>1, <2>2, <1>2 DEF PermitRows, Void
<1>5. TypeOK'
  <2>1. outcome' \in {"NONE", "AUTHORIZE", "SUCCEEDED", "FAILED", "CLARIFICATION"} /\ pc' \in Step
    BY <1>2 DEF Step
  <2> QED BY <1>0, <1>1, <1>2, <1>4, <2>1, Rows, Typed DEF Small
<1>6. Authority'
  <2>1. plan.version \in 1 .. MaxVersion
    BY <1>0 DEF PlanRow
  <2> QED BY <1>1, <1>2, <1>4, <2>1 DEF LegacyInv, Authority, Underway
<1>7. attempt.kind # "REVIEW_REPAIR" /\ Execution # "SUCCEEDED"
  BY DEF LegacyInv, Work, Underway
<1>8. Work'
  BY <1>1, <1>2, <1>3, <1>7 DEF LegacyInv, Work, Underway
<1>9. Rounds'
  BY <1>7 DEF LegacyInv, Rounds
<1>10. Volatile'
  BY <1>1, <1>2 DEF LegacyInv, Volatile
<1>11. Inputs'
  BY <1>1, InputsTaken DEF Underway, Open
<1> QED BY <1>5, <1>6, <1>8, <1>9, <1>10, <1>11 DEF LegacyInv

(* authorize_current_plan: by the label in AUTO mode, or by somebody.      *)
LEMMA Authorizes ==
  ASSUME LegacyInv, NEW e \in 0 .. MaxEvents, authorize_current_plan(e), End,
         wf.phase = "WAITING_FOR_PLAN_APPROVAL",
         IF e = 0 THEN AllowAuto ELSE log[e].body = "approve" /\ e > plan.posted,
         UNCHANGED <<now, log, late, label, commands, crashes, deferred, le>>,
         UNCHANGED <<attempt, repair, question, checkpoint, reviewed, repairs, questions>>,
         UNCHANGED <<publication, published, jobs>>,
         consumed' \in [Event -> Purpose], ee' \in [Event -> Status],
         wf.root # 0 => ee'[wf.root] = ee[wf.root],
         \A d \in Event : Open(d)' => Open(d) /\ ee'[d] = ee[d],
         \A d \in Event : consumed[d] # "NONE" => consumed'[d] # "NONE"
  PROVE  LegacyInv'
<1>0. TypeOK /\ plan \in PlanRow /\ permit \in PermitRows
  BY DEF LegacyInv, TypeOK, PlanRow, PermitRows
<1>1. Moved("EXECUTION_READY") /\ wf' \in WfRow
  BY <1>0, PhaseMoves DEF authorize_current_plan, Phase
<1>2. /\ plan' \in PlanRow /\ plan'.version = plan.version /\ plan'.status = "APPROVED"
      /\ plan'.by = e /\ plan'.posted = plan.posted /\ comment' = comment
  BY <1>0 DEF authorize_current_plan, PlanRow
<1>3. /\ permit' \in PermitRows /\ permit'[plan.version] = "OPEN"
      /\ \A v \in 1 .. MaxVersion : v # plan.version => permit'[v] = permit[v]
  <2>1. plan.version \in 1 .. MaxVersion
    BY <1>0 DEF PlanRow
  <2> QED BY <2>1, <1>0 DEF authorize_current_plan, PermitRows
<1>4. Execution' = Execution
  BY <1>1, ExecutionKept DEF Moved
<1>5. pc' = "idle" /\ using' = 0 /\ outcome' = "NONE"
  BY DEF End
<1>6. TypeOK'
  BY <1>0, <1>1, <1>2, <1>3, <1>5, Positions, Rows, Typed DEF Small, Step
<1>7. Authority'
  BY <1>1, <1>2, <1>3 DEF LegacyInv, Authority, Moved, Underway
<1>8. attempt.kind # "REVIEW_REPAIR" /\ Execution # "SUCCEEDED"
  BY DEF LegacyInv, Work, Underway
<1>9. Work'
  BY <1>1, <1>2, <1>4, <1>8 DEF LegacyInv, Work, Underway, Moved
<1>10. Rounds'
  BY <1>8 DEF LegacyInv, Rounds
<1>11. Volatile'
  BY <1>1, <1>5 DEF LegacyInv, Volatile, Moved
<1>12. Inputs'
  BY <1>1, InputsTaken DEF Underway, Moved
<1> QED BY <1>6, <1>7, <1>9, <1>10, <1>11, <1>12 DEF LegacyInv

(* authorize_auto without the label: the mode is INTERACTIVE from now on.  *)
LEMMA FallsBack ==
  ASSUME LegacyInv, authorize_auto, ~label, wf.phase = "WAITING_FOR_PLAN_APPROVAL",
         UNCHANGED <<now, log, late, label, commands, crashes, consumed, deferred, ee, le>>,
         UNCHANGED <<attempt, repair, question, checkpoint, reviewed, repairs, questions>>,
         UNCHANGED <<publication, published, jobs>>,
         \/ End
         \/ pc = "main" /\ Goto("main")
  PROVE  LegacyInv'
<1>0. TypeOK /\ wf \in WfRow
  BY DEF LegacyInv, TypeOK, WfRow
<1>1. /\ wf' \in WfRow /\ wf'.phase = wf.phase /\ wf'.root = wf.root /\ wf'.logical = wf.logical
      /\ wf'.mode = "INTERACTIVE" /\ wf'.feedback = wf.feedback
      /\ UNCHANGED <<plan, permit, comment>>
  BY <1>0 DEF authorize_auto, WfRow, Phase
<1>2. /\ pc' \in {"idle", "main"} /\ using' = 0
      /\ outcome' \in {"NONE", "AUTHORIZE", "SUCCEEDED", "FAILED", "CLARIFICATION"}
  BY DEF LegacyInv, Volatile, TypeOK, End, Goto
<1>3. Execution' = Execution
  BY <1>1, ExecutionKept
<1>4. TypeOK'
  BY <1>0, <1>1, <1>2, Positions, Rows, Typed DEF Small, Step
<1>5. Authority'
  BY <1>1 DEF LegacyInv, Authority
<1>6. Work'
  BY <1>1, <1>3 DEF LegacyInv, Work
<1>7. Rounds'
  BY <1>1 DEF LegacyInv, Rounds, Resumable
<1>8. Volatile'
  BY <1>1, <1>2 DEF LegacyInv, Volatile
<1>9. Inputs'
  BY <1>1, InputsTaken DEF Underway, Open
<1> QED BY <1>4, <1>5, <1>6, <1>7, <1>8, <1>9 DEF LegacyInv

(* AUTO mode: the label, feedback, or its loss decides.                    *)
LEMMA AutoApproves ==
  ASSUME LegacyInv, auto_plan_revised \/ auto_approval
  PROVE  LegacyInv'
<1>1. /\ UNCHANGED <<now, log, late, label, commands, crashes, consumed, deferred, ee, le>>
      /\ UNCHANGED <<attempt, repair, question, checkpoint, reviewed, repairs, questions>>
      /\ UNCHANGED <<publication, published, jobs>>
  BY DEF auto_plan_revised, auto_approval, outside, inputVars, runVars, pubVars
<1>2. wf.phase = "WAITING_FOR_PLAN_APPROVAL" /\ AllowAuto
  BY DEF LegacyInv, Volatile, Authority, auto_plan_revised, auto_approval
<1>3. CASE authorize_auto /\ label /\ End
  <2>1. authorize_current_plan(0)
    BY <1>3 DEF authorize_auto
  <2>2. 0 \in 0 .. MaxEvents /\ consumed' \in [Event -> Purpose] /\ ee' \in [Event -> Status]
    BY <1>1, Positions DEF LegacyInv, TypeOK
  <2>3. /\ \A d \in Event : Open(d)' => Open(d) /\ ee'[d] = ee[d]
        /\ \A d \in Event : consumed[d] # "NONE" => consumed'[d] # "NONE"
        /\ ee'[wf.root] = ee[wf.root]
    BY <1>1 DEF Open
  <2> QED BY <1>1, <1>2, <1>3, <2>1, <2>2, <2>3, Authorizes
<1>4. CASE authorize_auto /\ ~label /\ (End \/ (pc = "main" /\ Goto("main")))
  BY <1>1, <1>2, <1>4, FallsBack
<1>5. CASE auto_approval /\ ~(~label \/ Invocations(Unconsumed) = {})
  <2>1. begin_plan_revision(First(Invocations(Unconsumed)), "NONE") /\ pc = "main"
    BY <1>5 DEF auto_approval
  <2>2. First(Invocations(Unconsumed)) \in Unconsumed
    BY <1>5, FirstIsOne, UnconsumedIsOpen DEF Invocations
  <2>3. First(Invocations(Unconsumed)) \in Recorded /\ First(Invocations(Unconsumed)) # wf.root
    BY <2>2, UnconsumedIsOpen
  <2> QED BY <1>1, <1>2, <2>1, <2>3, Revises
<1>6. auto_plan_revised => authorize_auto /\ End
  BY DEF auto_plan_revised
<1>7. auto_approval /\ (~label \/ Invocations(Unconsumed) = {}) =>
        authorize_auto /\ pc = "main" /\ IF label THEN End ELSE Goto("main")
  BY DEF auto_approval
<1> QED BY <1>3, <1>4, <1>5, <1>6, <1>7

(* INTERACTIVE mode: the first pending input of the conversation decides.  *)
LEMMA HumanApproves ==
  ASSUME LegacyInv, human_approval
  PROVE  LegacyInv'
<1> DEFINE rows == {d \in Unconsumed : SameTarget(d)}
           e == First(rows)
<1>0. TypeOK
  BY DEF LegacyInv
<1>1. /\ UNCHANGED <<now, log, late, label, commands, crashes>>
      /\ UNCHANGED <<attempt, repair, question, checkpoint, reviewed, repairs, questions>>
      /\ UNCHANGED <<publication, published, jobs>>
      /\ pc = "main" /\ wf.phase = "WAITING_FOR_PLAN_APPROVAL" /\ rows # {}
  BY DEF human_approval, outside, runVars, pubVars
<1>2. /\ e \in Recorded /\ e \in Event /\ e # wf.root /\ e \in 0 .. MaxEvents /\ e # 0
      /\ consumed[e] = "NONE"
  <2>1. e \in Unconsumed
    BY <1>1, FirstIsOne, UnconsumedIsOpen
  <2>2. e \in Recorded /\ e \in Event /\ e # wf.root /\ consumed[e] = "NONE"
    BY <2>1, UnconsumedIsOpen DEF Open
  <2> QED BY <2>2, <1>0, Positions, LegacyBounds DEF Event
<1>3. \/ begin_plan_revision(e, "NONE") /\ UNCHANGED inputVars
      \/ approve(e) /\ End
  BY DEF human_approval
<1> HIDE DEF rows, e
<1>4. CASE begin_plan_revision(e, "NONE") /\ UNCHANGED inputVars
  BY <1>1, <1>2, <1>4, Revises DEF inputVars
<1>5. ASSUME NEW purpose \in Purpose, Consume({e}, purpose), purpose # "NONE"
      PROVE  /\ consumed' \in [Event -> Purpose] /\ ee' \in [Event -> Status]
             /\ \A d \in Event : consumed[d] # "NONE" => consumed'[d] # "NONE"
             /\ \A d \in Event : d # e => consumed'[d] = consumed[d] /\ ee'[d] = ee[d]
             /\ consumed'[e] # "NONE" /\ (wf.root # 0 => ee'[wf.root] = ee[wf.root])
  <2>1. wf.root # 0 => wf.root \in Event
    BY <1>0, Positions
  <2> QED BY <2>1, <1>0, <1>2, <1>5 DEF Consume, TypeOK, Status
<1>6. CASE approve(e) /\ End /\ ~Eligible(e)
  <2>1. /\ Consume({e}, "EARLY_PLAN_APPROVAL") /\ UNCHANGED <<deferred, le, wf, plan, permit, comment>>
        /\ pc' = "idle" /\ using' = 0 /\ outcome' = "NONE"
    BY <1>6 DEF approve, cycleVars, End
  <2>2. /\ consumed' \in [Event -> Purpose] /\ ee' \in [Event -> Status]
        /\ \A d \in Event : consumed[d] # "NONE" => consumed'[d] # "NONE"
        /\ \A d \in Event : d # e => consumed'[d] = consumed[d] /\ ee'[d] = ee[d]
        /\ consumed'[e] # "NONE" /\ (wf.root # 0 => ee'[wf.root] = ee[wf.root])
    BY <2>1, <1>5 DEF Purpose
  <2>3. Execution' = Execution
    BY <2>1, <2>2, ExecutionKept
  <2>4. TypeOK'
    BY <1>0, <1>1, <2>1, <2>2, Positions, Rows, Typed DEF Small, Step
  <2>5. Authority'
    BY <1>1, <2>1 DEF LegacyInv, Authority
  <2>6. Work'
    BY <1>1, <2>1, <2>3 DEF LegacyInv, Work
  <2>7. Rounds'
    BY <1>1, <2>1 DEF LegacyInv, Rounds, Resumable
  <2>8. Volatile'
    BY <1>1, <2>1 DEF LegacyInv, Volatile
  <2>9. Inputs'
    BY <1>1, <2>1, <2>2, InputsTaken DEF Underway, Open
  <2> QED BY <2>4, <2>5, <2>6, <2>7, <2>8, <2>9 DEF LegacyInv
<1>7. CASE approve(e) /\ End /\ Eligible(e) /\ _require_authorized_approver(e)
  <2>1. /\ Consume({e}, "PLAN_APPROVAL") /\ authorize_current_plan(e) /\ UNCHANGED <<deferred, le>>
        /\ log[e].body = "approve" /\ e > plan.posted
    BY <1>7 DEF approve, approve_current_plan, Eligible, _require_authorized_approver
  <2>2. /\ consumed' \in [Event -> Purpose] /\ ee' \in [Event -> Status]
        /\ \A d \in Event : consumed[d] # "NONE" => consumed'[d] # "NONE"
        /\ \A d \in Event : d # e => consumed'[d] = consumed[d] /\ ee'[d] = ee[d]
        /\ consumed'[e] # "NONE" /\ (wf.root # 0 => ee'[wf.root] = ee[wf.root])
    BY <2>1, <1>5 DEF Purpose
  <2>3. \A d \in Event : Open(d)' => Open(d) /\ ee'[d] = ee[d]
    BY <2>1, <2>2 DEF Open
  <2> QED BY <1>1, <1>2, <1>7, <2>1, <2>2, <2>3, Authorizes
<1>8. CASE approve(e) /\ End /\ Eligible(e) /\ ~_require_authorized_approver(e)
  <2>1. /\ UNCHANGED <<inputVars, cycleVars>> /\ pc' = "idle" /\ using' = 0 /\ outcome' = "NONE"
    BY <1>8 DEF approve, End
  <2>2. TypeOK'
    BY <1>0, <1>1, <2>1, Positions, Rows, Typed DEF Small, Step, inputVars, cycleVars
  <2>3. Volatile'
    BY <1>1, <2>1 DEF LegacyInv, Volatile, cycleVars
  <2> QED BY <1>1, <2>1, <2>2, <2>3, OnlyTheTick DEF runVars
<1> QED BY <1>3, <1>4, <1>6, <1>7, <1>8

(* A row that is inserted.                                                 *)
NewAttempt(kind, version, round) ==
  [kind |-> kind, version |-> version, status |-> "RUNNING", round |-> round, retries |-> 0,
   recoveries |-> 0, reviews |-> 0, verdict |-> "NONE"]

(* It is a row of execution_attempts.                                      *)
LEMMA AttemptIsNew ==
  ASSUME NEW kind \in {"INITIAL", "REVIEW_REPAIR"}, NEW version \in 0 .. MaxVersion,
         NEW round \in 0 .. MaxRepairs
  PROVE  LET a == NewAttempt(kind, version, round) IN
         /\ a \in AttemptRow /\ a.kind = kind /\ a.version = version /\ a.round = round
         /\ a.status = "RUNNING" /\ a.verdict = "NONE" /\ a.recoveries = 0
<1>1. 0 \in 0 .. MaxRecoveries /\ 0 \in 0 .. MaxRecoveries + 1 /\ 0 \in 0 .. MaxRepairs
  BY LegacyBounds
<1>2. "RUNNING" \in Status /\ "NONE" \in Verdict
  BY DEF Status, Verdict
<1> QED BY <1>1, <1>2 DEF NewAttempt, AttemptRow

(* bind_authorized_execution: nothing is pending but approvals, and these  *)
(* become stale; the root runs under a permit that is consumed now.        *)
LEMMA Binds ==
  ASSUME LegacyInv, wf.phase = "EXECUTION_READY", pc = "main",
         Invocations(Unconsumed) = {}, validate_permit => Invocations(Pending) = {}, Bindable,
         bind_authorized_execution, Goto("bound"),
         UNCHANGED <<now, log, late, label, commands, crashes, repair, question, checkpoint, reviewed>>,
         UNCHANGED <<repairs, questions, publication, published, jobs>>
  PROVE  LegacyInv'
<1> DEFINE E == Approvals(Pending)
<1>0. TypeOK /\ Inputs /\ plan \in PlanRow /\ permit \in PermitRows /\ attempt \in AttemptRow
  BY DEF LegacyInv, TypeOK, PlanRow, PermitRows, AttemptRow
<1>1. /\ wf.root # 0 /\ wf.root \in Event /\ Recorded \subseteq Event
      /\ attempt.kind # "REVIEW_REPAIR" /\ Execution # "SUCCEEDED" /\ attempt.status # "SUCCEEDED"
      /\ attempt.round = 0 /\ repairs = 0 /\ plan.status = "APPROVED" /\ attempt.verdict = "NONE"
  <2>1. wf.root # 0
    BY DEF LegacyInv, Work
  <2>2. attempt.kind # "REVIEW_REPAIR" /\ Execution # "SUCCEEDED" /\ attempt.status # "SUCCEEDED"
        /\ attempt.verdict = "NONE"
    BY DEF LegacyInv, Work, Underway
  <2> QED BY <2>1, <2>2, <1>0, Positions DEF LegacyInv, Rounds, Authority
<1>2. /\ \A e \in Recorded : e # wf.root /\ consumed[e] = "NONE" => e \in E
      /\ E \subseteq Recorded /\ wf.root \notin E
  BY DEF Bindable, Approvals, Invocations, Pending
<1>3. /\ consumed' \in [Event -> Purpose]
      /\ \A e \in Event : consumed'[e] = IF e \in E THEN "STALE_PLAN_APPROVAL" ELSE consumed[e]
      /\ UNCHANGED <<plan, comment, deferred, using, outcome>> /\ pc' = "bound"
  BY <1>0 DEF bind_authorized_execution, TypeOK, Purpose, Goto
<1>4. /\ ee' \in [Event -> Status] /\ le' \in Status
      /\ \A e \in Event : e \notin E /\ e # wf.root => ee'[e] = ee[e]
  BY <1>0 DEF bind_authorized_execution, TypeOK, Status
<1>5. Moved("EXECUTING") /\ wf' \in WfRow
  BY <1>0, PhaseMoves DEF bind_authorized_execution, SetPhase, Phase
<1>6. Execution' = "RUNNING"
  BY <1>1, <1>2, <1>5 DEF bind_authorized_execution, Execution, Moved
<1>7. /\ permit' \in PermitRows /\ permit'[plan.version] = "CONSUMED"
      /\ \A v \in 1 .. MaxVersion : v # plan.version => permit'[v] = permit[v]
  <2>1. plan.version \in 1 .. MaxVersion
    BY <1>0 DEF PlanRow
  <2> QED BY <2>1, <1>0 DEF bind_authorized_execution, PermitRows
<1>8. /\ attempt' \in AttemptRow /\ attempt'.kind # "REVIEW_REPAIR" /\ attempt'.round = 0
      /\ attempt'.status # "SUCCEEDED" /\ attempt'.verdict = "NONE"
  <2>1. CASE attempt.kind # "NONE"
    BY <2>1, <1>0, <1>1 DEF bind_authorized_execution
  <2>2. CASE attempt.kind = "NONE"
    <3>1. plan.version \in 0 .. MaxVersion
      BY <1>0, LegacyBounds DEF PlanRow
    <3>2. attempt' = NewAttempt("INITIAL", plan.version, 0)
      BY <2>2 DEF bind_authorized_execution, NoAttempt, NewAttempt
    <3>3. 0 \in 0 .. MaxRepairs
      BY LegacyBounds
    <3>4. /\ attempt' \in AttemptRow /\ attempt'.kind = "INITIAL" /\ attempt'.round = 0
          /\ attempt'.status = "RUNNING" /\ attempt'.verdict = "NONE"
      BY <3>1, <3>2, <3>3, AttemptIsNew
    <3> QED BY <3>4
  <2> QED BY <2>1, <2>2
<1> HIDE DEF E
<1>9. TypeOK'
  BY <1>0, <1>3, <1>4, <1>5, <1>7, <1>8, Rows, Typed DEF Small, Step
<1>10. Authority'
  BY <1>1, <1>3, <1>5, <1>7 DEF LegacyInv, Authority, Underway, Moved
<1>11. Work'
  BY <1>1, <1>5, <1>6, <1>8 DEF LegacyInv, Work, Underway, Moved
<1>12. Rounds'
  BY <1>1, <1>8 DEF LegacyInv, Rounds
<1>13. Volatile'
  BY <1>3, <1>5, <1>6 DEF LegacyInv, Volatile, Moved
<1>14. Inputs'
  <2>1. \A e \in Recorded : ~Open(e)'
    BY <1>0, <1>1, <1>2, <1>3 DEF Inputs, Open
  <2>2. \A e \in Event : Open(e)' => Open(e) /\ e \notin E /\ e # wf.root
    BY <1>0, <1>1, <1>2, <1>3, <2>1 DEF Inputs, Open
  <2>3. consumed'[wf.root] # "NONE" /\ \A e \in Event \ Recorded : deferred'[e] = "NONE"
    BY <1>0, <1>1, <1>2, <1>3 DEF Inputs
  <2> QED BY <1>0, <1>4, <1>5, <2>1, <2>2, <2>3, InputsUsed DEF Moved
<1> QED BY <1>9, <1>10, <1>11, <1>12, <1>13, <1>14 DEF LegacyInv

(* EXECUTION_READY: feedback revises the plan, or the permit is bound.     *)
LEMMA Executes ==
  ASSUME LegacyInv, execution_ready
  PROVE  LegacyInv'
<1>1. /\ UNCHANGED <<now, log, late>>
      /\ UNCHANGED <<label, commands, crashes, repair, question, checkpoint, reviewed>>
      /\ UNCHANGED <<repairs, questions, publication, published, jobs>>
      /\ pc = "main" /\ wf.phase = "EXECUTION_READY"
  BY DEF execution_ready, outside, pubVars
<1>2. \/ /\ Invocations(Unconsumed) # {} /\ UNCHANGED <<inputVars, attempt>>
         /\ begin_plan_revision(First(Invocations(Unconsumed)), "AUTHORIZE")
      \/ /\ Invocations(Pending) # {} /\ UNCHANGED <<inputVars, attempt>>
         /\ begin_plan_revision(First(Invocations(Pending)), "NONE")
      \/ /\ Invocations(Unconsumed) = {} /\ (validate_permit => Invocations(Pending) = {})
         /\ Bindable /\ bind_authorized_execution /\ Goto("bound")
      \/ End /\ UNCHANGED <<cycleVars, inputVars, attempt>>
  BY DEF execution_ready
<1>3. CASE /\ Invocations(Unconsumed) # {} /\ UNCHANGED <<inputVars, attempt>>
           /\ begin_plan_revision(First(Invocations(Unconsumed)), "AUTHORIZE")
  <2>1. First(Invocations(Unconsumed)) \in Unconsumed
    BY <1>3, FirstIsOne, UnconsumedIsOpen DEF Invocations
  <2>2. First(Invocations(Unconsumed)) \in Recorded /\ First(Invocations(Unconsumed)) # wf.root
    BY <2>1, UnconsumedIsOpen
  <2> QED BY <1>1, <1>3, <2>2, Revises DEF inputVars
<1>4. CASE /\ Invocations(Pending) # {} /\ UNCHANGED <<inputVars, attempt>>
           /\ begin_plan_revision(First(Invocations(Pending)), "NONE")
  <2>1. Invocations(Pending) \subseteq Recorded \ {wf.root}
    BY DEF Invocations, Pending
  <2>2. First(Invocations(Pending)) \in Invocations(Pending)
    BY <2>1, <1>4, FirstIsOne, UnconsumedIsOpen
  <2>3. First(Invocations(Pending)) \in Recorded /\ First(Invocations(Pending)) # wf.root
    BY <2>1, <2>2
  <2> QED BY <1>1, <1>4, <2>3, Revises DEF inputVars
<1>5. CASE /\ Invocations(Unconsumed) = {} /\ (validate_permit => Invocations(Pending) = {})
           /\ Bindable /\ bind_authorized_execution /\ Goto("bound")
  BY <1>1, <1>5, Binds
<1>6. CASE End /\ UNCHANGED <<cycleVars, inputVars, attempt>>
  <2>1. pc' = "idle" /\ using' = 0 /\ outcome' = "NONE" /\ TypeOK
    BY <1>6 DEF End, LegacyInv
  <2>2. TypeOK'
    BY <1>1, <1>6, <2>1, Positions, Rows, Typed DEF Small, Step, inputVars, cycleVars
  <2>3. Volatile'
    BY <1>1, <1>6, <2>1 DEF LegacyInv, Volatile, cycleVars
  <2> QED BY <1>1, <1>6, <2>1, <2>2, <2>3, OnlyTheTick DEF runVars
<1> QED BY <1>2, <1>3, <1>4, <1>5, <1>6

(* ensure_execution_attempt: the attempt of the claim is the plan's.       *)
LEMMA Ensures ==
  ASSUME LegacyInv, ensure_execution_attempt
  PROVE  LegacyInv'
<1>0. TypeOK /\ attempt \in AttemptRow /\ plan \in PlanRow
  BY DEF LegacyInv, TypeOK, AttemptRow, PlanRow
<1>1. /\ UNCHANGED <<now, log, late>>
      /\ UNCHANGED <<label, commands, crashes, consumed, deferred, ee, le, wf, plan, permit>>
      /\ UNCHANGED <<comment, repair, question, checkpoint, repairs, questions>>
      /\ UNCHANGED <<publication, published, jobs, using, outcome>>
      /\ pc = "bound" /\ pc' = "running" /\ reviewed' = FALSE
  BY DEF ensure_execution_attempt, Goto, outside, inputVars, cycleVars, pubVars
<1>2. /\ wf.phase = "EXECUTING" /\ Execution = "RUNNING" /\ attempt.status # "SUCCEEDED"
      /\ attempt.kind # "REVIEW_REPAIR" /\ attempt.verdict = "NONE" /\ attempt.round = 0
      /\ repairs = 0
  <2>1. wf.phase = "EXECUTING" /\ Execution = "RUNNING"
    BY <1>1 DEF LegacyInv, Volatile
  <2>2. attempt.status # "SUCCEEDED" /\ attempt.kind # "REVIEW_REPAIR" /\ attempt.verdict = "NONE"
    BY <2>1 DEF LegacyInv, Work
  <2> QED BY <2>1, <2>2 DEF LegacyInv, Rounds
<1>3. /\ attempt' \in AttemptRow /\ attempt'.kind = "INITIAL" /\ attempt'.version = plan.version
      /\ attempt'.status = "RUNNING" /\ attempt'.round = 0 /\ attempt'.verdict = "NONE"
  <2>1. CASE attempt.kind = "INITIAL" /\ attempt.version = plan.version
    <3>1. attempt' = [attempt EXCEPT !.status = "RUNNING",
                                     !.retries = IF @ > MaxRecoveries THEN @ ELSE @ + 1]
      BY <2>1, <1>2 DEF ensure_execution_attempt
    <3>2. /\ attempt.retries \in 0 .. MaxRecoveries + 1 /\ "RUNNING" \in Status
          /\ ~(attempt.retries > MaxRecoveries) => attempt.retries + 1 \in 0 .. MaxRecoveries + 1
      <4>1. attempt.retries \in 0 .. MaxRecoveries + 1
        BY <1>0 DEF AttemptRow
      <4> QED BY <4>1, LegacyBounds DEF Status
    <3> QED BY <3>1, <3>2, <2>1, <1>0, <1>2 DEF AttemptRow
  <2>2. CASE ~(attempt.kind = "INITIAL" /\ attempt.version = plan.version)
    <3>1. attempt' = NewAttempt("INITIAL", plan.version, 0)
      BY <2>2 DEF ensure_execution_attempt, NoAttempt, NewAttempt
    <3>2. 0 \in 0 .. MaxRepairs /\ plan.version \in 0 .. MaxVersion
      BY <1>0, LegacyBounds DEF PlanRow
    <3> QED BY <3>1, <3>2, AttemptIsNew
  <2> QED BY <2>1, <2>2
<1>4. Execution' = Execution
  BY <1>1, ExecutionKept
<1>5. TypeOK'
  <2>1. reviewed' \in BOOLEAN /\ pc' \in Step
    BY <1>1 DEF Step
  <2> QED BY <1>0, <1>1, <1>3, <2>1, Rows, Typed DEF Small
<1>6. Authority'
  BY <1>1 DEF LegacyInv, Authority
<1>7. Work'
  BY <1>1, <1>2, <1>3, <1>4 DEF LegacyInv, Work, Underway
<1>8. Rounds'
  BY <1>1, <1>2, <1>3 DEF Rounds
<1>9. Volatile'
  BY <1>1, <1>2, <1>3, <1>4 DEF LegacyInv, Volatile
<1>10. Inputs'
  BY <1>0, <1>1, <1>2, InputsKept DEF LegacyInv
<1> QED BY <1>5, <1>6, <1>7, <1>8, <1>9, <1>10 DEF LegacyInv

(* _execute_claim ends, with the execution's row or with a question.       *)
LEMMA RunEnds ==
  ASSUME LegacyInv, run_asks \/ \E s \in {"SUCCEEDED", "FAILED"} : run_ends(s)
  PROVE  LegacyInv'
<1>0. TypeOK
  BY DEF LegacyInv
<1>1. /\ UNCHANGED <<now, log, late>>
      /\ UNCHANGED <<label, commands, crashes, consumed, deferred, wf, plan, permit, comment>>
      /\ UNCHANGED <<attempt, repair, reviewed, repairs, publication, published, jobs, using>>
      /\ pc = "running" /\ pc' = "ran"
  BY DEF run_asks, run_ends, outside, inputVars, cycleVars, pubVars
<1>2. /\ wf.phase = "EXECUTING" /\ Execution = "RUNNING" /\ attempt.status = "RUNNING"
      /\ attempt.kind = "INITIAL" /\ attempt.version = plan.version /\ wf.root # 0
  BY <1>1 DEF LegacyInv, Volatile, Work
<1>3. /\ \/ outcome' = "CLARIFICATION" /\ Execution' = "RUNNING"
         \/ outcome' \in {"SUCCEEDED", "FAILED"} /\ Execution' = outcome'
      /\ ee' \in [Event -> Status] /\ le' \in Status
      /\ \A e \in Event : e # wf.root => ee'[e] = ee[e]
  <2>1. CASE run_asks
    <3>1. UNCHANGED <<ee, le>> /\ outcome' = "CLARIFICATION"
      BY <2>1 DEF run_asks, inputVars
    <3>2. Execution' = Execution
      BY <3>1, <1>1, ExecutionKept
    <3> QED BY <3>1, <3>2, <1>0, <1>2 DEF TypeOK
  <2>2. ASSUME NEW s \in {"SUCCEEDED", "FAILED"}, run_ends(s)
        PROVE  /\ outcome' \in {"SUCCEEDED", "FAILED"} /\ Execution' = outcome'
               /\ ee' \in [Event -> Status] /\ le' \in Status
               /\ \A e \in Event : e # wf.root => ee'[e] = ee[e]
    <3>1. SetExecution(s) /\ outcome' = s /\ s \in Status
      BY <2>2 DEF run_ends, Status
    <3>2. /\ Execution' = s /\ ee' \in [Event -> Status] /\ le' \in Status
          /\ \A e \in Event : e # wf.root => ee'[e] = ee[e]
      BY <3>1, <1>0, <1>1, <1>2, ExecutionSet
    <3> QED BY <3>1, <3>2
  <2> QED BY <2>1, <2>2
<1>4. /\ checkpoint' \in BOOLEAN /\ questions' \in 0 .. MaxQuestions
      /\ question' \in {"NONE", "OPEN", "ANSWERED", "CANCELLED"}
  <2>1. /\ checkpoint \in BOOLEAN /\ questions \in 0 .. MaxQuestions
        /\ question \in {"NONE", "OPEN", "ANSWERED", "CANCELLED"}
    BY <1>0 DEF TypeOK
  <2>2. questions < MaxQuestions => questions + 1 \in 0 .. MaxQuestions
    BY <2>1, LegacyBounds
  <2> QED BY <2>1, <2>2 DEF run_asks, run_ends, _persist_clarification, resolve_resume
<1>5. TypeOK'
  BY <1>0, <1>1, <1>3, <1>4, Rows, Typed DEF Small, Step
<1>6. Authority'
  BY <1>1 DEF LegacyInv, Authority
<1>7. Work'
  BY <1>1, <1>2, <1>3 DEF LegacyInv, Work, Underway
<1>8. Rounds'
  BY <1>1, <1>2 DEF LegacyInv, Rounds
<1>9. Volatile'
  BY <1>1, <1>2, <1>3 DEF LegacyInv, Volatile
<1>10. Inputs'
  BY <1>0, <1>1, <1>2, <1>3, InputsKept DEF LegacyInv
<1> QED BY <1>5, <1>6, <1>7, <1>8, <1>9, <1>10 DEF LegacyInv

(* finish_execution_attempt: the attempt follows its execution.            *)
LEMMA AttemptEnds ==
  ASSUME LegacyInv, finish_execution_attempt
  PROVE  LegacyInv'
<1>0. TypeOK /\ attempt \in AttemptRow
  BY DEF LegacyInv, TypeOK, AttemptRow
<1>1. /\ UNCHANGED <<now, log, late>>
      /\ UNCHANGED <<label, commands, crashes, consumed, deferred, ee, le, wf, plan, permit>>
      /\ UNCHANGED <<comment, repair, question, checkpoint, reviewed, repairs, questions>>
      /\ UNCHANGED <<publication, published, jobs, using, outcome>>
      /\ pc = "ran" /\ pc' = "finished"
  BY DEF finish_execution_attempt, Goto, outside, inputVars, cycleVars, pubVars
<1>2. /\ attempt.kind = "INITIAL" /\ attempt.version = plan.version /\ attempt.status = "RUNNING"
      /\ \/ outcome = "SUCCEEDED" /\ wf.phase = "EXECUTING" /\ Execution = "SUCCEEDED"
         \/ outcome = "CLARIFICATION" /\ wf.phase = "EXECUTING" /\ Execution = "RUNNING"
         \/ outcome = "FAILED" /\ Execution \in {"FAILED", "RETRY_PENDING", "SKIPPED"}
              /\ wf.phase \in {"EXECUTING", "EXECUTION_READY"}
  BY <1>1 DEF LegacyInv, Volatile
<1>3. /\ attempt' \in AttemptRow /\ attempt'.kind = attempt.kind /\ attempt'.round = attempt.round
      /\ attempt'.version = attempt.version /\ attempt'.verdict = attempt.verdict
      /\ attempt'.status = IF outcome = "CLARIFICATION" THEN "INTERRUPTED" ELSE outcome
  BY <1>0, <1>2 DEF finish_execution_attempt, AttemptRow, Status
<1>4. Execution' = Execution
  BY <1>1, ExecutionKept
<1>5. TypeOK'
  BY <1>0, <1>1, <1>3, Rows, Typed DEF Small, Step
<1>6. Authority'
  BY <1>1 DEF LegacyInv, Authority
<1>7. Work'
  BY <1>1, <1>2, <1>3, <1>4 DEF LegacyInv, Work, Underway
<1>8. Rounds'
  BY <1>1, <1>2, <1>3 DEF LegacyInv, Rounds
<1>9. Volatile'
  BY <1>1, <1>2, <1>3, <1>4 DEF LegacyInv, Volatile
<1>10. Inputs'
  BY <1>0, <1>1, <1>2, InputsKept DEF LegacyInv
<1> QED BY <1>5, <1>6, <1>7, <1>8, <1>9, <1>10 DEF LegacyInv

(* The last write of execute_authorized moves the phase.                   *)
LEMMA Settled ==
  ASSUME LegacyInv, interrupt_execution_for_clarification \/ execution_settled
  PROVE  LegacyInv'
<1>0. TypeOK
  BY DEF LegacyInv
<1>1. /\ UNCHANGED <<now, log, late>>
      /\ UNCHANGED <<label, commands, crashes, consumed, deferred, plan, permit, comment>>
      /\ UNCHANGED <<attempt, repair, question, checkpoint, reviewed, repairs, questions>>
      /\ UNCHANGED <<publication, published, jobs>>
      /\ pc = "finished" /\ pc' = "idle" /\ using' = 0 /\ outcome' = "NONE"
  BY DEF interrupt_execution_for_clarification, execution_settled, End, outside, inputVars,
         runVars, pubVars
<1>2. /\ attempt.kind = "INITIAL" /\ attempt.version = plan.version
      /\ \/ /\ outcome = "SUCCEEDED" /\ wf.phase = "EXECUTING" /\ Execution = "SUCCEEDED"
            /\ attempt.status = "SUCCEEDED"
         \/ outcome = "CLARIFICATION" /\ wf.phase = "EXECUTING" /\ Execution = "RUNNING"
         \/ outcome = "FAILED" /\ Execution \in {"FAILED", "RETRY_PENDING", "SKIPPED"}
              /\ wf.phase \in {"EXECUTING", "EXECUTION_READY"}
      /\ wf.root # 0
  BY <1>1 DEF LegacyInv, Volatile, Work
<1> DEFINE phase == IF outcome = "CLARIFICATION" THEN "WAITING_FOR_INPUT"
                    ELSE IF outcome = "SUCCEEDED" THEN "REVIEW_EXECUTION" ELSE "EXECUTION_FAILED"
<1>3. Moved(phase) /\ wf' \in WfRow
  <2>1. SetPhase(phase) /\ phase \in Phase
    BY DEF interrupt_execution_for_clarification, execution_settled, Phase
  <2> HIDE DEF phase
  <2> QED BY <2>1, <1>0, PhaseMoves
<1>4. /\ Execution' = IF outcome = "CLARIFICATION" THEN "INTERRUPTED" ELSE Execution
      /\ ee' \in [Event -> Status] /\ le' \in Status
      /\ \A e \in Event : e # wf.root => ee'[e] = ee[e]
  <2>1. CASE interrupt_execution_for_clarification
    BY <2>1, <1>0, <1>2, <1>3, ExecutionSet DEF interrupt_execution_for_clarification, Moved, Status
  <2>2. CASE execution_settled
    <3>1. UNCHANGED <<ee, le>> /\ outcome # "CLARIFICATION"
      BY <2>2 DEF execution_settled, inputVars
    <3>2. Execution' = Execution
      BY <3>1, <1>3, ExecutionKept DEF Moved
    <3> QED BY <3>1, <3>2, <1>0 DEF TypeOK
  <2> QED BY <2>1, <2>2
<1>5. TypeOK'
  BY <1>0, <1>1, <1>3, <1>4, Positions, Rows, Typed DEF Small, Step
<1>6. Authority'
  <2>1. wf.phase = "EXECUTING" => permit[plan.version] = "CONSUMED" /\ plan.status = "APPROVED"
    BY DEF LegacyInv, Authority, Underway
  <2> QED BY <2>1, <1>1, <1>2, <1>3 DEF LegacyInv, Authority, Moved, Underway
<1>7. Work'
  BY <1>1, <1>2, <1>3, <1>4 DEF LegacyInv, Work, Moved, Underway
<1>8. Rounds'
  BY <1>1, <1>2 DEF LegacyInv, Rounds
<1>9. Volatile'
  BY <1>1, <1>3 DEF LegacyInv, Volatile, Moved
<1>10. Inputs'
  BY <1>0, <1>1, <1>2, <1>3, <1>4, InputsKept DEF LegacyInv, Moved, Underway
<1> QED BY <1>5, <1>6, <1>7, <1>8, <1>9, <1>10 DEF LegacyInv

(* review_begins decided; the verdict is saved on the attempt the reviewer *)
(* saw, or the failure is counted.                                         *)
LEMMA Reviews ==
  ASSUME LegacyInv,
         \/ record_review_infrastructure_failure
         \/ \E v \in Verdict \ {"NONE"} : save_execution_review(v)
  PROVE  LegacyInv'
<1>0. TypeOK /\ attempt \in AttemptRow
  BY DEF LegacyInv, TypeOK, AttemptRow
<1>1. /\ UNCHANGED <<now, log, late>>
      /\ UNCHANGED <<label, commands, crashes, consumed, deferred, ee, le, plan, permit>>
      /\ UNCHANGED <<comment, repair, question, checkpoint, repairs, questions>>
      /\ UNCHANGED <<publication, published, jobs>> /\ pc = "reviewing"
  BY DEF record_review_infrastructure_failure, save_execution_review, outside, inputVars,
         cycleVars, pubVars
<1>2. wf.phase = "REVIEW_EXECUTION" /\ attempt.status = "SUCCEEDED" /\ wf.root # 0 /\ using = 0
  BY <1>1 DEF LegacyInv, Volatile, Work
<1>3. /\ wf' \in WfRow
      /\ \/ Moved("REVIEW_EXECUTION") /\ pc' \in {"verdict", "idle"}
         \/ Moved("REVIEW_BLOCKED") /\ pc' = "idle"
      /\ using' = 0 /\ outcome' \in {"NONE", "AUTHORIZE", "SUCCEEDED", "FAILED", "CLARIFICATION"}
  <2>1. wf \in WfRow /\ outcome \in {"NONE", "AUTHORIZE", "SUCCEEDED", "FAILED", "CLARIFICATION"}
    BY <1>0 DEF TypeOK, WfRow
  <2>2. CASE \E v \in Verdict \ {"NONE"} : save_execution_review(v)
    BY <2>1, <2>2, <1>2 DEF save_execution_review, cycleVars, Moved, Goto
  <2>3. CASE record_review_infrastructure_failure /\ attempt.reviews >= MaxRecoveries
    <3>1. SetPhase("REVIEW_BLOCKED") /\ pc' = "idle" /\ using' = 0 /\ outcome' = "NONE"
      BY <2>3 DEF record_review_infrastructure_failure, End
    <3> QED BY <3>1, <1>0, PhaseMoves DEF Phase
  <2>4. CASE record_review_infrastructure_failure /\ ~(attempt.reviews >= MaxRecoveries)
    BY <2>1, <2>4, <1>2 DEF record_review_infrastructure_failure, End, Moved
  <2> QED BY <2>2, <2>3, <2>4
<1>4. /\ attempt' \in AttemptRow /\ attempt'.kind = attempt.kind /\ attempt'.version = attempt.version
      /\ attempt'.status = attempt.status /\ attempt'.round = attempt.round
      /\ attempt'.recoveries = attempt.recoveries
      /\ reviewed' \in BOOLEAN /\ (attempt'.verdict # "NONE" => reviewed')
  <2>0. reviewed \in BOOLEAN
    BY <1>0 DEF TypeOK
  <2>1. CASE \E v \in Verdict \ {"NONE"} : save_execution_review(v)
    BY <2>1, <1>0 DEF save_execution_review, AttemptRow
  <2>2. CASE record_review_infrastructure_failure /\ attempt.reviews >= MaxRecoveries
    BY <2>0, <2>2, <1>0 DEF record_review_infrastructure_failure, LegacyInv, Work
  <2>3. CASE record_review_infrastructure_failure /\ ~(attempt.reviews >= MaxRecoveries)
    <3>1. attempt' = [attempt EXCEPT !.reviews = @ + 1] /\ reviewed' = reviewed
      BY <2>3 DEF record_review_infrastructure_failure
    <3>2. attempt.reviews \in 0 .. MaxRecoveries
      BY <1>0 DEF AttemptRow
    <3>3. attempt.reviews + 1 \in 0 .. MaxRecoveries
      BY <2>3, <3>2, LegacyBounds
    <3>4. attempt.verdict # "NONE" => reviewed
      BY DEF LegacyInv, Work
    <3> QED BY <2>0, <3>1, <3>3, <3>4, <1>0 DEF AttemptRow
  <2> QED BY <2>1, <2>2, <2>3
<1>5. Execution' = Execution
  BY <1>1, <1>3, ExecutionKept DEF Moved
<1>6. TypeOK'
  <2>1. pc' \in Step /\ using' \in 0 .. MaxEvents
    BY <1>0, <1>3, Positions DEF Step
  <2> QED BY <1>0, <1>1, <1>3, <1>4, <2>1, Rows, Typed DEF Small
<1>7. Authority'
  BY <1>1, <1>2, <1>3 DEF LegacyInv, Authority, Moved, Underway
<1>8. Work'
  BY <1>1, <1>2, <1>3, <1>4, <1>5 DEF LegacyInv, Work, Moved, Underway
<1>9. Rounds'
  <2>1. ~Resumable' /\ ~Resumable
    BY <1>2, <1>3 DEF Resumable, Moved
  <2> QED BY <2>1, <1>1, <1>4 DEF LegacyInv, Rounds
<1>10. Volatile'
  BY <1>3 DEF LegacyInv, Volatile, Moved
<1>11. Inputs'
  BY <1>0, <1>1, <1>2, <1>3, InputsKept DEF LegacyInv, Moved, Underway
<1> QED BY <1>6, <1>7, <1>8, <1>9, <1>10, <1>11 DEF LegacyInv

(* The verdict takes effect: publication, another round, or the end.       *)
LEMMA Verdicts ==
  ASSUME LegacyInv,
         accept_execution_review \/ create_repair_permit \/ block_execution_review
  PROVE  LegacyInv'
<1>0. TypeOK /\ repair \in RepairRow /\ attempt.round \in 0 .. MaxRepairs
  BY DEF LegacyInv, TypeOK, RepairRow
<1>1. \E v \in {"ACCEPT", "NEEDS_FIXES", "BLOCKED"} : Settles(v)
  BY DEF accept_execution_review, create_repair_permit, block_execution_review
<1>2. /\ UNCHANGED <<now, log, late>>
      /\ UNCHANGED <<label, commands, crashes, consumed, deferred, ee, le, plan, permit>>
      /\ UNCHANGED <<comment, attempt, question, checkpoint, reviewed, repairs, questions>>
      /\ UNCHANGED <<publication, published, jobs>>
      /\ pc' = "idle" /\ using' = 0 /\ outcome' = "NONE" /\ pc \in {"verdict", "main"}
      /\ attempt.status = "SUCCEEDED" /\ (pc = "main" => wf.phase = "REVIEW_EXECUTION")
  BY <1>1 DEF Settles, End, outside, inputVars, pubVars
<1>3. wf.phase = "REVIEW_EXECUTION" /\ wf.root # 0
  BY <1>2 DEF LegacyInv, Volatile, Work
<1>4. /\ wf' \in WfRow
      /\ \/ Moved("AWAITING_PUBLICATION") /\ attempt.verdict = "ACCEPT" /\ repair' = repair
         \/ Moved("REVIEW_BLOCKED") /\ repair' \in RepairRow /\ repair'.round = repair.round
         \/ /\ Moved("REPAIR_READY") /\ repair' \in RepairRow
            /\ repair'.round = attempt.round + 1
  <2>1. CASE accept_execution_review
    BY <2>1, <1>0, PhaseMoves DEF accept_execution_review, Settles, Phase
  <2>2. ASSUME SetPhase("REVIEW_BLOCKED"), repair' = InvalidRepair
        PROVE  /\ wf' \in WfRow /\ Moved("REVIEW_BLOCKED")
               /\ repair' \in RepairRow /\ repair'.round = repair.round
    <3>1. wf' \in WfRow /\ Moved("REVIEW_BLOCKED")
      BY <2>2, <1>0, PhaseMoves DEF Phase
    <3> QED BY <3>1, <2>2, <1>0 DEF InvalidRepair, RepairRow
  <2>3. CASE block_execution_review
    BY <2>3, <2>2 DEF block_execution_review
  <2>4. CASE create_repair_permit /\ attempt.round + 1 <= MaxRepairs
    <3>1. SetPhase("REPAIR_READY") /\ repair' = [round |-> attempt.round + 1, status |-> "OPEN"]
      BY <2>4 DEF create_repair_permit
    <3>2. attempt.round + 1 \in 0 .. MaxRepairs
      BY <2>4, <1>0, LegacyBounds
    <3>3. Moved("REPAIR_READY") /\ wf' \in WfRow
      BY <3>1, <1>0, PhaseMoves DEF Phase
    <3> QED BY <3>1, <3>2, <3>3 DEF RepairRow
  <2>5. CASE create_repair_permit /\ ~(attempt.round + 1 <= MaxRepairs)
    BY <2>5, <2>2 DEF create_repair_permit
  <2> QED BY <2>1, <2>3, <2>4, <2>5
<1>5. Execution' = Execution
  BY <1>2, <1>4, ExecutionKept DEF Moved
<1>6. TypeOK'
  <2>1. repair' \in RepairRow
    BY <1>0, <1>4
  <2> QED BY <1>0, <1>2, <1>4, <2>1, Positions, Rows, Typed DEF Small, Step
<1>7. Authority'
  BY <1>2, <1>3, <1>4 DEF LegacyInv, Authority, Moved, Underway
<1>8. Work'
  BY <1>2, <1>3, <1>4, <1>5 DEF LegacyInv, Work, Moved, Underway
<1>9. Rounds'
  <2>1. ~Resumable'
    BY <1>0, <1>2, <1>4, LegacyBounds DEF Resumable, Moved
  <2>2. ~Resumable
    BY <1>3 DEF Resumable
  <2> QED BY <1>2, <2>1, <2>2 DEF LegacyInv, Rounds
<1>10. Volatile'
  BY <1>2, <1>4 DEF LegacyInv, Volatile, Moved
<1>11. Inputs'
  BY <1>0, <1>2, <1>3, <1>4, InputsKept DEF LegacyInv, Moved, Underway
<1> QED BY <1>6, <1>7, <1>8, <1>9, <1>10, <1>11 DEF LegacyInv

(* A repair that ends is reviewed again, or blocks the thread.             *)
LEMMA RepairEnded ==
  ASSUME LegacyInv, finish_repair_attempt_success \/ mark_repair_attempt_failed
  PROVE  LegacyInv'
<1>0. TypeOK /\ attempt \in AttemptRow /\ repair \in RepairRow
  BY DEF LegacyInv, TypeOK, AttemptRow, RepairRow
<1>1. \/ RepairEnds("SUCCEEDED", "CONSUMED", "REVIEW_EXECUTION")
      \/ RepairEnds("FAILED", "INVALID", "REVIEW_BLOCKED")
  BY DEF finish_repair_attempt_success, mark_repair_attempt_failed
<1>2. /\ UNCHANGED <<now, log, late>>
      /\ UNCHANGED <<label, commands, crashes, consumed, deferred, ee, le, plan, permit>>
      /\ UNCHANGED <<comment, question, checkpoint, reviewed, repairs, questions>>
      /\ UNCHANGED <<publication, published, jobs>>
      /\ pc = "repairing" /\ pc' = "idle" /\ using' = 0 /\ outcome' = "NONE"
  BY <1>1 DEF RepairEnds, End, outside, inputVars, pubVars
<1>3. /\ wf.phase = "EXECUTING" /\ attempt.kind = "REVIEW_REPAIR" /\ attempt.status = "RUNNING"
      /\ Execution = "SUCCEEDED" /\ attempt.verdict = "NONE" /\ wf.root # 0
  <2>1. wf.phase = "EXECUTING" /\ attempt.kind = "REVIEW_REPAIR"
    BY <1>2 DEF LegacyInv, Volatile
  <2> QED BY <2>1 DEF LegacyInv, Work
<1>4. /\ attempt' \in AttemptRow /\ attempt'.kind = attempt.kind /\ attempt'.version = attempt.version
      /\ attempt'.round = attempt.round /\ attempt'.recoveries = attempt.recoveries
      /\ attempt'.verdict = "NONE"
      /\ repair' \in RepairRow /\ repair'.round = repair.round
  BY <1>0, <1>1, <1>3 DEF RepairEnds, AttemptRow, RepairRow, Status
<1>5. /\ wf' \in WfRow
      /\ \/ Moved("REVIEW_EXECUTION") /\ attempt'.status = "SUCCEEDED"
         \/ Moved("REVIEW_BLOCKED")
  <2>1. CASE RepairEnds("SUCCEEDED", "CONSUMED", "REVIEW_EXECUTION")
    <3>1. attempt'.status = "SUCCEEDED"
      BY <2>1, <1>0 DEF RepairEnds, AttemptRow
    <3> QED BY <2>1, <3>1, <1>0, PhaseMoves DEF RepairEnds, Phase
  <2>2. CASE RepairEnds("FAILED", "INVALID", "REVIEW_BLOCKED")
    BY <2>2, <1>0, PhaseMoves DEF RepairEnds, Phase
  <2> QED BY <1>1, <2>1, <2>2
<1>6. Execution' = Execution
  BY <1>2, <1>5, ExecutionKept DEF Moved
<1>7. TypeOK'
  BY <1>0, <1>2, <1>4, <1>5, Positions, Rows, Typed DEF Small, Step
<1>8. Authority'
  BY <1>2, <1>3, <1>5 DEF LegacyInv, Authority, Moved, Underway
<1>9. Work'
  BY <1>2, <1>3, <1>4, <1>5, <1>6 DEF LegacyInv, Work, Moved, Underway
<1>10. Rounds'
  <2>1. ~Resumable' /\ ~Resumable
    BY <1>3, <1>5 DEF Resumable, Moved
  <2> QED BY <2>1, <1>2, <1>3, <1>4 DEF LegacyInv, Rounds
<1>11. Volatile'
  BY <1>2, <1>5 DEF LegacyInv, Volatile, Moved
<1>12. Inputs'
  BY <1>0, <1>2, <1>3, <1>5, InputsKept DEF LegacyInv, Moved, Underway
<1> QED BY <1>7, <1>8, <1>9, <1>10, <1>11, <1>12 DEF LegacyInv

(* One more round allows one run and its recoveries more.                  *)
LEMMA NextRound ==
  ASSUME NEW r \in Nat
  PROVE  /\ Before(r + 1) = Before(r) + MaxRecoveries + 1 /\ Before(r) \in Int
         /\ Before(1) = 0
<1>1. MaxRecoveries \in Nat
  BY LegacyBounds
<1> DEFINE K == MaxRecoveries + 1
<1>2. K \in Nat
  BY <1>1
<1>3. (r + 1 - 1) * K = (r - 1) * K + K /\ (r - 1) * K \in Int /\ (1 - 1) * K = 0
  <2> HIDE DEF K
  <2> QED BY <1>2
<1> QED BY <1>1, <1>3 DEF Before

(* bind_repair_execution: the next round, or the one that was handed back. *)
LEMMA RepairBinds ==
  ASSUME LegacyInv, wf.phase = "REPAIR_READY", pc = "main", Invocations(Pending) = {},
         Consume(Approvals(Pending), "STALE_PLAN_APPROVAL"), bind_repair_execution,
         UNCHANGED <<now, log, late, label, commands, crashes, deferred, le, plan, permit, comment>>,
         UNCHANGED <<question, checkpoint, questions, publication, published, jobs>>
  PROVE  LegacyInv'
<1> DEFINE E == Approvals(Pending)
<1>0. TypeOK /\ Inputs /\ plan \in PlanRow /\ attempt \in AttemptRow /\ repair \in RepairRow
      /\ repairs \in Nat
  BY DEF LegacyInv, TypeOK, PlanRow, AttemptRow, RepairRow
<1>1. /\ wf.root # 0 /\ wf.root \in Event /\ Recorded \subseteq Event
      /\ Execution = "SUCCEEDED" /\ attempt.version = plan.version
  <2>1. wf.root # 0 /\ Execution = "SUCCEEDED"
    BY DEF LegacyInv, Work, Underway
  <2> QED BY <2>1, <1>0, Positions DEF LegacyInv, Work
<1>2. /\ \A e \in Recorded : e # wf.root /\ consumed[e] = "NONE" => e \in E
      /\ E \subseteq Recorded /\ wf.root \notin E
  BY DEF Approvals, Invocations, Pending
<1>3. /\ consumed' \in [Event -> Purpose]
      /\ \A e \in Event : consumed'[e] = IF e \in E THEN "STALE_PLAN_APPROVAL" ELSE consumed[e]
      /\ ee' \in [Event -> Status]
      /\ \A e \in Event : e \notin E => ee'[e] = ee[e]
  BY <1>0 DEF Consume, TypeOK, Purpose, Status
<1> HIDE DEF E
<1>4. /\ Moved("EXECUTING") /\ wf' \in WfRow /\ repair' = repair /\ reviewed' = FALSE
      /\ repairs' = repairs + 1 /\ pc' = "repairing" /\ UNCHANGED <<using, outcome>>
  <2>1. SetPhase("EXECUTING")
    BY DEF bind_repair_execution
  <2>2. Moved("EXECUTING") /\ wf' \in WfRow
    BY <2>1, <1>0, PhaseMoves DEF Phase
  <2> QED BY <2>2 DEF bind_repair_execution, Goto
<1>5. Execution' = Execution
  BY <1>1, <1>2, <1>3, <1>4, ExecutionKept DEF Moved
<1>6. /\ attempt' \in AttemptRow /\ attempt'.kind = "REVIEW_REPAIR"
      /\ attempt'.version = plan.version /\ attempt'.status = "RUNNING"
      /\ attempt'.round = repair.round /\ attempt'.verdict = "NONE" /\ repair.round >= 1
      /\ repairs + 1 <= Before(repair.round) + attempt'.recoveries + 1
  <2>0. attempt.round \in Nat /\ attempt.recoveries \in 0 .. MaxRecoveries
    BY <1>0, LegacyBounds DEF AttemptRow
  <2>1. CASE attempt.kind = "REVIEW_REPAIR" /\ attempt.round = repair.round
    <3>1. attempt' = [attempt EXCEPT !.status = "RUNNING"]
      BY <2>1 DEF bind_repair_execution
    <3>2. /\ attempt' \in AttemptRow /\ attempt'.status = "RUNNING" /\ attempt'.kind = attempt.kind
          /\ attempt'.version = attempt.version /\ attempt'.round = attempt.round
          /\ attempt'.verdict = attempt.verdict /\ attempt'.recoveries = attempt.recoveries
      BY <3>1, <1>0 DEF AttemptRow, Status
    <3>3. attempt.verdict = "NONE"
      BY <2>0, <2>1 DEF LegacyInv, Work
    <3>4. Resumable
      BY <2>1 DEF Resumable
    <3>5. repairs <= Before(attempt.round) + attempt.recoveries /\ attempt.round >= 1
      BY <2>1, <3>4, <2>0, NextRound, LegacyBounds DEF LegacyInv, Rounds
    <3>6. repairs + 1 <= Before(attempt.round) + attempt.recoveries + 1
      BY <3>5, <2>0, <1>0, NextRound
    <3> QED BY <3>2, <3>3, <3>5, <3>6, <2>1, <1>1
  <2>2. CASE ~(attempt.kind = "REVIEW_REPAIR" /\ attempt.round = repair.round)
    <3>1. attempt' = NewAttempt("REVIEW_REPAIR", plan.version, repair.round)
      BY <2>2 DEF bind_repair_execution, NoAttempt, NewAttempt
    <3>2. repair.round \in 0 .. MaxRepairs /\ plan.version \in 0 .. MaxVersion
      BY <1>0, LegacyBounds DEF PlanRow, RepairRow
    <3>3. /\ attempt' \in AttemptRow /\ attempt'.kind = "REVIEW_REPAIR"
          /\ attempt'.version = plan.version /\ attempt'.status = "RUNNING"
          /\ attempt'.round = repair.round /\ attempt'.verdict = "NONE" /\ attempt'.recoveries = 0
      BY <3>1, <3>2, AttemptIsNew
    <3>4. repair.round = attempt.round + 1
      BY <2>2 DEF LegacyInv, Work
    <3>5. repairs <= Before(attempt.round + 1)
      <4>1. CASE attempt.kind # "REVIEW_REPAIR"
        <5>1. attempt.round = 0 /\ repairs = 0
          BY <4>1 DEF LegacyInv, Rounds
        <5>2. Before(0 + 1) = 0
          BY NextRound
        <5> QED BY <5>1, <5>2
      <4>2. CASE attempt.kind = "REVIEW_REPAIR"
        <5>1. repairs <= Before(attempt.round) + attempt.recoveries + 1
          <6>1. repairs <= Before(attempt.round) + attempt.recoveries + (IF Resumable THEN 0 ELSE 1)
            BY <4>2 DEF LegacyInv, Rounds
          <6>2. Before(attempt.round) \in Int
            BY <2>0, NextRound
          <6> QED BY <6>1, <6>2, <2>0, <1>0
        <5> QED BY <5>1, <2>0, <1>0, NextRound, LegacyBounds
      <4> QED BY <4>1, <4>2
    <3>6. Before(attempt.round + 1) \in Int
      BY <2>0, NextRound
    <3> QED BY <3>3, <3>4, <3>5, <3>6, <2>0, <1>0
  <2> QED BY <2>1, <2>2
<1>7. TypeOK'
  <2>1. repairs' \in Nat
    BY <1>0, <1>4
  <2>2. reviewed' \in BOOLEAN /\ pc' \in Step
    BY <1>4 DEF Step
  <2> QED BY <1>0, <1>3, <1>4, <1>6, <2>1, <2>2, Rows, Typed DEF Small
<1>8. Authority'
  BY <1>4 DEF LegacyInv, Authority, Underway, Moved
<1>9. Work'
  BY <1>1, <1>4, <1>5, <1>6 DEF LegacyInv, Work, Underway, Moved
<1>10. Rounds'
  <2>1. ~Resumable'
    BY <1>4 DEF Resumable, Moved
  <2>2. attempt'.kind = "REVIEW_REPAIR" /\ attempt'.round >= 1
        /\ repairs' <= Before(attempt'.round) + attempt'.recoveries + 1
    BY <1>4, <1>6
  <2> QED BY <2>1, <2>2 DEF Rounds, Before
<1>11. Volatile'
  BY <1>4, <1>6 DEF LegacyInv, Volatile, Moved
<1>12. Inputs'
  <2>1. \A e \in Recorded : ~Open(e)'
    BY <1>0, <1>1, <1>2, <1>3 DEF Inputs, Open
  <2>2. \A e \in Event : Open(e)' => Open(e) /\ ee'[e] = ee[e]
    BY <1>3 DEF Open
  <2>3. consumed'[wf.root] # "NONE" /\ \A e \in Event \ Recorded : deferred'[e] = "NONE"
    BY <1>0, <1>1, <1>2, <1>3 DEF Inputs
  <2> QED BY <1>0, <1>4, <2>1, <2>2, <2>3, InputsUsed DEF Moved
<1> QED BY <1>7, <1>8, <1>9, <1>10, <1>11, <1>12 DEF LegacyInv

(* REPAIR_READY: an invocation that came in voids the repair.              *)
LEMMA Repairs ==
  ASSUME LegacyInv, repair_ready
  PROVE  LegacyInv'
<1> DEFINE raced == Invocations(Pending)
           stale == {e \in Approvals(Pending) : raced = {} \/ e < First(raced)}
<1>0. TypeOK /\ repair \in RepairRow
  BY DEF LegacyInv, TypeOK, RepairRow
<1>1. /\ UNCHANGED <<now, log, late, label, commands, crashes, deferred, le, plan, permit, comment>>
      /\ UNCHANGED <<question, checkpoint, questions, publication, published, jobs>>
      /\ pc = "main" /\ wf.phase = "REPAIR_READY" /\ Consume(stale, "STALE_PLAN_APPROVAL")
  BY DEF repair_ready, outside, pubVars
<1>2. CASE raced = {}
  <2>1. stale = Approvals(Pending)
    BY <1>2
  <2>2. bind_repair_execution
    BY <1>2 DEF repair_ready
  <2> QED BY <1>1, <1>2, <2>1, <2>2, RepairBinds
<1>3. CASE raced # {}
  <2>1. /\ repair' = InvalidRepair /\ SetPhase("REVIEW_BLOCKED")
        /\ pc' = "idle" /\ using' = 0 /\ outcome' = "NONE" /\ UNCHANGED <<attempt, reviewed, repairs>>
    BY <1>3 DEF repair_ready, repair_raced, End
  <2>2. Moved("REVIEW_BLOCKED") /\ wf' \in WfRow
    BY <2>1, <1>0, PhaseMoves DEF Phase
  <2>3. stale \subseteq Recorded \ {wf.root}
    BY DEF Approvals, Pending
  <2>4. /\ consumed' \in [Event -> Purpose] /\ ee' \in [Event -> Status]
        /\ \A e \in Event : IF e \in stale THEN consumed'[e] # "NONE"
                            ELSE consumed'[e] = consumed[e] /\ ee'[e] = ee[e]
    BY <1>0, <1>1 DEF Consume, TypeOK, Purpose, Status
  <2> HIDE DEF stale, raced
  <2>5. repair' \in RepairRow /\ repair'.round = repair.round
    BY <2>1, <1>0 DEF InvalidRepair, RepairRow
  <2>6. Execution' = Execution
    BY <1>0, <1>1, <2>2, <2>3, <2>4, Positions, ExecutionKept DEF Moved
  <2>7. TypeOK'
    BY <1>0, <1>1, <2>1, <2>2, <2>4, <2>5, Positions, Rows, Typed DEF Small, Step
  <2>8. Authority'
    BY <1>1, <2>2 DEF LegacyInv, Authority, Moved, Underway
  <2>9. Work'
    BY <1>1, <2>1, <2>2, <2>6 DEF LegacyInv, Work, Moved, Underway
  <2>10. Rounds'
    <3>1. ~Resumable'
      BY <2>2 DEF Resumable, Moved
    <3>2. /\ attempt.round \in Nat /\ attempt.recoveries \in Nat /\ repairs \in Nat
          /\ Before(attempt.round) \in Int
      <4>1. attempt \in AttemptRow /\ repairs \in Nat
        BY <1>0 DEF TypeOK, AttemptRow
      <4>2. attempt.round \in Nat /\ attempt.recoveries \in Nat
        BY <4>1, LegacyBounds DEF AttemptRow
      <4> QED BY <4>1, <4>2, NextRound
    <3> QED BY <2>1, <3>1, <3>2 DEF LegacyInv, Rounds
  <2>11. Volatile'
    BY <2>1, <2>2 DEF LegacyInv, Volatile, Moved
  <2>12. Inputs'
    BY <1>1, <2>2, <2>4, InputsTaken DEF Moved, Underway, Open
  <2> QED BY <2>7, <2>8, <2>9, <2>10, <2>11, <2>12 DEF LegacyInv
<1> QED BY <1>2, <1>3

(* recover_orphaned_repair_attempt: the round is handed back and counted,  *)
(* or blocked.                                                             *)
LEMMA RepairRecovers ==
  ASSUME LegacyInv, _recover_executing_state, attempt.kind = "REVIEW_REPAIR"
  PROVE  LegacyInv'
<1> DEFINE spent == attempt.recoveries >= MaxRecoveries
<1>0. TypeOK /\ attempt \in AttemptRow /\ repair \in RepairRow /\ repairs \in Nat
  BY DEF LegacyInv, TypeOK, AttemptRow, RepairRow
<1>1. /\ UNCHANGED <<now, log, late>>
      /\ UNCHANGED <<label, commands, crashes, consumed, deferred, ee, le, plan, permit>>
      /\ UNCHANGED <<comment, question, checkpoint, reviewed, repairs, questions>>
      /\ UNCHANGED <<publication, published, jobs>>
      /\ pc = "begin" /\ wf.phase = "EXECUTING" /\ recover_orphaned_repair_attempt
  BY DEF _recover_executing_state, recover_orphaned_repair_attempt, outside, pubVars
<1>2. /\ attempt.status = "RUNNING" /\ repair.round = attempt.round /\ Execution = "SUCCEEDED"
      /\ attempt.verdict = "NONE" /\ wf.root # 0 /\ using = 0
  <2>1. attempt.status = "RUNNING" /\ repair.round = attempt.round /\ Execution = "SUCCEEDED"
        /\ wf.root # 0
    BY <1>1 DEF LegacyInv, Work
  <2> QED BY <2>1, <1>1 DEF LegacyInv, Work, Volatile
<1>3. /\ wf' \in WfRow /\ Moved(IF spent THEN "REVIEW_BLOCKED" ELSE "REPAIR_READY")
  <2> DEFINE phase == IF spent THEN "REVIEW_BLOCKED" ELSE "REPAIR_READY"
  <2>1. SetPhase(phase) /\ phase \in Phase
    BY <1>1 DEF recover_orphaned_repair_attempt, Phase
  <2> HIDE DEF phase
  <2>2. wf' \in WfRow /\ Moved(phase)
    BY <2>1, <1>0, PhaseMoves
  <2> QED BY <2>2 DEF phase
<1>4. /\ attempt' \in AttemptRow /\ attempt'.kind = attempt.kind /\ attempt'.round = attempt.round
      /\ attempt'.version = attempt.version /\ attempt'.verdict = "NONE"
      /\ attempt'.status = "FAILED"
      /\ attempt'.recoveries = IF spent THEN attempt.recoveries ELSE attempt.recoveries + 1
  <2>1. attempt.recoveries \in 0 .. MaxRecoveries
    BY <1>0 DEF AttemptRow
  <2>2. ~spent => attempt.recoveries + 1 \in 0 .. MaxRecoveries
    BY <2>1, LegacyBounds
  <2>3. attempt' = [attempt EXCEPT !.status = "FAILED", !.recoveries = IF spent THEN @ ELSE @ + 1]
    BY <1>1 DEF recover_orphaned_repair_attempt
  <2> HIDE DEF spent
  <2> QED BY <2>1, <2>2, <2>3, <1>0, <1>2 DEF AttemptRow, Status
<1>5. /\ repair' \in RepairRow /\ repair'.round = repair.round
      /\ pc' \in {"defer", "idle"} /\ using' = 0
      /\ outcome' \in {"NONE", "AUTHORIZE", "SUCCEEDED", "FAILED", "CLARIFICATION"}
  <2>1. repair' \in RepairRow /\ repair'.round = repair.round
    BY <1>0, <1>1 DEF recover_orphaned_repair_attempt, RepairRow
  <2>2. outcome \in {"NONE", "AUTHORIZE", "SUCCEEDED", "FAILED", "CLARIFICATION"}
    BY <1>0 DEF TypeOK
  <2> QED BY <2>1, <2>2, <1>1, <1>2 DEF recover_orphaned_repair_attempt, Goto, End
<1>6. Execution' = Execution
  BY <1>1, <1>3, ExecutionKept DEF Moved
<1>7. TypeOK'
  <2>1. pc' \in Step /\ using' \in 0 .. MaxEvents
    BY <1>0, <1>5, Positions DEF Step
  <2> QED BY <1>0, <1>1, <1>3, <1>4, <1>5, <2>1, Rows, Typed DEF Small
<1>8. Rounds'
  <2>1. /\ attempt.round \in Nat /\ attempt.recoveries \in Nat
    BY <1>0, LegacyBounds DEF AttemptRow
  <2>2. Before(attempt.round) \in Int
    BY <2>1, NextRound
  <2>3. ~Resumable /\ (Resumable' <=> ~spent)
    BY <1>1, <1>2, <1>3, <1>4, <1>5 DEF Resumable, Moved
  <2>4. repairs <= Before(attempt.round) + attempt.recoveries + 1 /\ attempt.round >= 1
    BY <2>3 DEF LegacyInv, Rounds
  <2>5. repairs' <= Before(attempt'.round) + attempt'.recoveries + (IF Resumable' THEN 0 ELSE 1)
    <3> HIDE DEF spent
    <3> QED BY <2>1, <2>2, <2>3, <2>4, <1>0, <1>1, <1>4
  <2> QED BY <2>4, <2>5, <1>4 DEF Rounds, Before
<1> HIDE DEF spent
<1>9. Authority'
  BY <1>1, <1>3 DEF LegacyInv, Authority, Moved, Underway
<1>10. Work'
  BY <1>1, <1>2, <1>3, <1>4, <1>5, <1>6 DEF LegacyInv, Work, Moved, Underway
<1>11. Volatile'
  BY <1>3, <1>5 DEF LegacyInv, Volatile, Moved
<1>12. Inputs'
  BY <1>0, <1>1, <1>3, InputsKept DEF LegacyInv, Moved, Underway
<1> QED BY <1>7, <1>8, <1>9, <1>10, <1>11, <1>12 DEF LegacyInv

(* _recover_orphaned_initial: durable success is reviewed, an orphan gets  *)
(* its permit back while the permit still covers it.                       *)
LEMMA InitialRecovers ==
  ASSUME LegacyInv, _recover_executing_state, attempt.kind # "REVIEW_REPAIR"
  PROVE  LegacyInv'
<1>0. TypeOK /\ attempt \in AttemptRow /\ permit \in PermitRows /\ wf \in WfRow
  BY DEF LegacyInv, TypeOK, AttemptRow, PermitRows, WfRow
<1>1. /\ UNCHANGED <<now, log, late, label, commands, crashes, consumed, deferred, plan, comment>>
      /\ UNCHANGED <<question, checkpoint, reviewed, repairs, questions>>
      /\ UNCHANGED <<publication, published, jobs>>
      /\ pc = "begin" /\ wf.phase = "EXECUTING" /\ _recover_orphaned_initial
  BY DEF _recover_executing_state, outside, pubVars
<1>2. /\ wf.root # 0 /\ using = 0 /\ attempt.round = 0 /\ repairs = 0
      /\ permit[plan.version] = "CONSUMED" /\ plan.status = "APPROVED"
      /\ \A v \in 1 .. MaxVersion : v # plan.version => permit[v] \in Void
      /\ (attempt.status # "SUCCEEDED" => attempt.verdict = "NONE")
      /\ plan.version \in 1 .. MaxVersion
  <2>1. wf.root # 0 /\ using = 0 /\ (attempt.status # "SUCCEEDED" => attempt.verdict = "NONE")
    BY <1>1 DEF LegacyInv, Work, Volatile
  <2>2. /\ permit[plan.version] = "CONSUMED" /\ plan.status = "APPROVED"
        /\ \A v \in 1 .. MaxVersion : v # plan.version => permit[v] \in Void
    BY <1>1 DEF LegacyInv, Authority, Underway
  <2>3. plan.version \in 1 .. MaxVersion
    BY <1>0 DEF TypeOK
  <2> QED BY <2>1, <2>2, <2>3 DEF LegacyInv, Rounds
<1>3. pc' = "defer" /\ UNCHANGED <<using, outcome, repair>>
  BY <1>1 DEF _recover_orphaned_initial, _recover_initial_execution,
              recover_orphaned_initial_attempt, Goto
<1>4. /\ wf' \in WfRow /\ permit' \in PermitRows /\ attempt' \in AttemptRow
      /\ ee' \in [Event -> Status] /\ le' \in Status
      /\ \A e \in Event : e # wf.root => ee'[e] = ee[e]
      /\ attempt'.kind = attempt.kind /\ attempt'.version = attempt.version
      /\ attempt'.round = attempt.round /\ attempt'.verdict = attempt.verdict
      /\ \/ /\ Moved("REVIEW_EXECUTION") /\ attempt'.status = "SUCCEEDED" /\ permit' = permit
            /\ Execution = "SUCCEEDED" /\ Execution' = "SUCCEEDED"
         \/ /\ Moved("EXECUTION_READY") /\ attempt'.status = "INTERRUPTED"
            /\ attempt.status = "RUNNING"
            /\ Execution' # "SUCCEEDED" /\ permit'[plan.version] = "OPEN"
            /\ \A v \in 1 .. MaxVersion : v # plan.version => permit'[v] = permit[v]
         \/ /\ Moved("REVIEW_BLOCKED") /\ attempt'.status = "FAILED" /\ permit' = permit
            /\ attempt.status = "RUNNING" /\ Execution' # "SUCCEEDED"
         \/ /\ Moved("EXECUTING") /\ attempt' = attempt /\ permit' = permit
            /\ Execution # "SUCCEEDED" /\ Execution' # "SUCCEEDED"
  <2>0. ee \in [Event -> Status] /\ le \in Status
    BY <1>0 DEF TypeOK
  <2>1. CASE Execution = "SUCCEEDED"
    <3>1. /\ attempt' = [attempt EXCEPT !.status = "SUCCEEDED"] /\ SetPhase("REVIEW_EXECUTION")
          /\ UNCHANGED <<permit, ee, le>>
      BY <2>1, <1>1 DEF _recover_orphaned_initial, _recover_initial_execution
    <3>2. wf' \in WfRow /\ Moved("REVIEW_EXECUTION")
      BY <3>1, <1>0, PhaseMoves DEF Phase
    <3>3. Execution' = Execution
      BY <3>1, <3>2, ExecutionKept DEF Moved
    <3>4. /\ attempt' \in AttemptRow /\ attempt'.kind = attempt.kind
          /\ attempt'.version = attempt.version /\ attempt'.status = "SUCCEEDED"
          /\ attempt'.round = attempt.round /\ attempt'.verdict = attempt.verdict
      BY <3>1, <1>0 DEF AttemptRow, Status
    <3> QED BY <2>0, <2>1, <3>1, <3>2, <3>3, <3>4, <1>0
  <2>2. CASE Execution # "SUCCEEDED" /\ attempt.status = "RUNNING"
    <3> DEFINE authorized == /\ attempt.version = plan.version /\ plan.status = "APPROVED"
                             /\ permit[attempt.version] # "INVALID"
               retry == authorized /\ attempt.retries < MaxRecoveries
               phase == IF retry THEN "EXECUTION_READY" ELSE "REVIEW_BLOCKED"
    <3>1. /\ attempt' = [attempt EXCEPT !.status = IF retry THEN "INTERRUPTED" ELSE "FAILED"]
          /\ IF retry /\ Execution = "RUNNING" THEN SetExecution("RETRY_PENDING")
                                               ELSE UNCHANGED <<ee, le>>
          /\ permit' = [permit EXCEPT ![attempt.version] = IF retry THEN "OPEN" ELSE @]
          /\ SetPhase(phase) /\ phase \in Phase
      BY <2>2, <1>1 DEF _recover_orphaned_initial, recover_orphaned_initial_attempt, Phase
    <3>2. retry => attempt.version = plan.version
      OBVIOUS
    <3> HIDE DEF retry
    <3>3. wf' \in WfRow /\ Moved(phase)
      <4> HIDE DEF phase
      <4> QED BY <3>1, <1>0, PhaseMoves
    <3>4. /\ Execution' # "SUCCEEDED" /\ ee' \in [Event -> Status] /\ le' \in Status
          /\ \A e \in Event : e # wf.root => ee'[e] = ee[e]
      <4>1. CASE retry /\ Execution = "RUNNING"
        <5>1. Execution' = "RETRY_PENDING" /\ ee' \in [Event -> Status] /\ le' \in Status
              /\ \A e \in Event : e # wf.root => ee'[e] = ee[e]
          BY <4>1, <3>1, <3>3, <1>0, <1>2, ExecutionSet DEF Moved, Status
        <5> QED BY <5>1
      <4>2. CASE ~(retry /\ Execution = "RUNNING")
        <5>1. UNCHANGED <<ee, le>>
          BY <4>2, <3>1
        <5>2. Execution' = Execution
          BY <5>1, <3>3, ExecutionKept DEF Moved
        <5> QED BY <5>1, <5>2, <2>0, <2>2
      <4> QED BY <4>1, <4>2
    <3>5. /\ attempt' \in AttemptRow /\ attempt'.kind = attempt.kind
          /\ attempt'.version = attempt.version
          /\ attempt'.status = (IF retry THEN "INTERRUPTED" ELSE "FAILED")
          /\ attempt'.round = attempt.round /\ attempt'.verdict = attempt.verdict
      BY <3>1, <1>0 DEF AttemptRow, Status
    <3>6. permit' \in PermitRows /\ (~retry => permit' = permit)
      BY <3>1, <1>0 DEF PermitRows
    <3>7. retry => /\ permit'[plan.version] = "OPEN"
                   /\ \A v \in 1 .. MaxVersion : v # plan.version => permit'[v] = permit[v]
      BY <3>1, <3>2, <1>0, <1>2 DEF PermitRows
    <3>8. CASE retry
      BY <2>2, <3>3, <3>4, <3>5, <3>6, <3>7, <3>8
    <3>9. CASE ~retry
      BY <2>2, <3>3, <3>4, <3>5, <3>6, <3>9
    <3> QED BY <3>8, <3>9
  <2>3. CASE Execution # "SUCCEEDED" /\ attempt.status # "RUNNING"
    <3>1. UNCHANGED <<attempt, permit, wf, ee, le>>
      BY <2>3, <1>1 DEF _recover_orphaned_initial
    <3>2. Execution' = Execution
      BY <3>1, ExecutionKept
    <3> QED BY <2>0, <2>3, <3>1, <3>2, <1>0, <1>1 DEF Moved
  <2> QED BY <2>1, <2>2, <2>3
<1>5. TypeOK'
  <2>1. pc' \in Step
    BY <1>3 DEF Step
  <2> QED BY <1>0, <1>1, <1>3, <1>4, <2>1, Rows, Typed DEF Small
<1>6. Authority'
  BY <1>1, <1>2, <1>4 DEF LegacyInv, Authority, Moved, Underway
<1>7. Work'
  BY <1>1, <1>2, <1>4 DEF LegacyInv, Work, Moved, Underway
<1>8. Rounds'
  BY <1>1, <1>2, <1>4 DEF Rounds
<1>9. Volatile'
  BY <1>2, <1>3, <1>4 DEF LegacyInv, Volatile, Moved
<1>10. Inputs'
  <2>1. wf'.root = wf.root /\ wf'.phase # "IDLE"
    BY <1>4 DEF Moved
  <2> QED BY <1>0, <1>1, <1>3, <1>4, <2>1, InputsKept DEF LegacyInv, Underway
<1> QED BY <1>5, <1>6, <1>7, <1>8, <1>9, <1>10 DEF LegacyInv

(* complete_publication closes the cycle.                                  *)
LEMMA Closes ==
  ASSUME LegacyInv, complete_publication
  PROVE  LegacyInv'
<1>0. TypeOK /\ plan \in PlanRow
  BY DEF LegacyInv, TypeOK, PlanRow
<1>1. /\ UNCHANGED <<now, log, late>>
      /\ UNCHANGED <<label, commands, crashes, consumed, deferred, ee, le, permit, comment>>
      /\ UNCHANGED <<attempt, repair, question, checkpoint, reviewed, repairs, questions>>
      /\ UNCHANGED <<publication, using, outcome>>
      /\ pc = "main" /\ pc' = "learn" /\ wf.phase = "AWAITING_PUBLICATION" /\ SetPhase("IDLE")
      /\ plan' = [plan EXCEPT !.status = "EXECUTED"] /\ jobs' = {"memory", "resolution"}
      /\ published' = published \cup (IF wf.logical THEN {} ELSE {wf.root})
  BY DEF complete_publication, finalize_publication, PublicationTarget, Goto, outside, inputVars,
         runVars
<1>2. wf.root \in Event /\ Execution = "SUCCEEDED" /\ using = 0
  <2>1. wf.root # 0 /\ Execution = "SUCCEEDED" /\ using = 0
    BY <1>1 DEF LegacyInv, Work, Volatile, Underway
  <2> QED BY <2>1, <1>0, Positions
<1>3. Moved("IDLE") /\ wf' \in WfRow
  BY <1>0, <1>1, PhaseMoves DEF Phase
<1>4. /\ plan' \in PlanRow /\ plan'.version = plan.version /\ plan'.status = "EXECUTED"
      /\ plan'.by = plan.by /\ plan'.posted = plan.posted
  BY <1>0, <1>1 DEF PlanRow
<1>5. Execution' = Execution
  BY <1>1, <1>3, ExecutionKept DEF Moved
<1>6. TypeOK'
  <2>1. published' \subseteq Event /\ jobs' \subseteq {"memory", "resolution"} /\ pc' \in Step
    BY <1>0, <1>1, <1>2 DEF TypeOK, Step
  <2> QED BY <1>0, <1>1, <1>3, <1>4, <2>1, Rows, Typed DEF Small
<1>7. Authority'
  BY <1>1, <1>3, <1>4 DEF LegacyInv, Authority, Moved, Underway
<1>8. Work'
  BY <1>1, <1>2, <1>3, <1>4, <1>5 DEF LegacyInv, Work, Moved, Underway
<1>9. Rounds'
  <2>1. ~Resumable /\ ~Resumable'
    BY <1>1, <1>3 DEF Resumable, Moved
  <2> QED BY <2>1, <1>1 DEF LegacyInv, Rounds
<1>10. Volatile'
  BY <1>1, <1>2, <1>3 DEF LegacyInv, Volatile, Moved
<1>11. Inputs'
  BY <1>0, <1>1, <1>3, InputsKept DEF LegacyInv, Moved, Underway
<1> QED BY <1>6, <1>7, <1>8, <1>9, <1>10, <1>11 DEF LegacyInv

(* The operator's commands, at any step of the tick.                       *)
LEMMA OperatorActs ==
  ASSUME LegacyInv, retry_execution \/ skip_execution \/ recover_stale
  PROVE  LegacyInv'
<1>0. TypeOK /\ permit \in PermitRows /\ wf \in WfRow
  BY DEF LegacyInv, TypeOK, PermitRows, WfRow
<1>1. /\ UNCHANGED <<now, log, late, label, crashes, consumed, deferred, plan, comment>>
      /\ UNCHANGED <<attempt, repair, question, checkpoint, reviewed, repairs, questions>>
      /\ UNCHANGED <<publication, published, jobs, pc, using, outcome>>
      /\ commands < MaxOperator /\ commands' = commands + 1 /\ wf.root # 0
  BY DEF retry_execution, skip_execution, recover_stale, Command, runVars, pubVars, tickVars
<1>2. /\ Execution \in {"FAILED", "INTERRUPTED", "RUNNING"}
      /\ Execution = "RUNNING" => ~Locked
  BY DEF retry_execution, skip_execution, recover_stale
<1>3. /\ wf.phase \notin Underway \ {"EXECUTING"} /\ attempt.status # "SUCCEEDED"
      /\ attempt.kind # "REVIEW_REPAIR" /\ pc \notin {"bound", "running", "repairing"}
      /\ pc \in {"ran", "finished"} => outcome = "FAILED" /\ Execution = "FAILED"
      /\ attempt.verdict = "NONE"
  <2>1. Execution # "SUCCEEDED"
    BY <1>2
  <2>2. /\ wf.phase \notin Underway \ {"EXECUTING"} /\ attempt.status # "SUCCEEDED"
        /\ attempt.kind # "REVIEW_REPAIR" /\ attempt.verdict = "NONE"
    BY <2>1 DEF LegacyInv, Work
  <2>3. pc \notin {"bound", "running"}
    BY <1>2 DEF LegacyInv, Volatile, Locked
  <2>4. pc \in {"ran", "finished"} => outcome = "FAILED" /\ Execution = "FAILED"
    BY <1>2 DEF LegacyInv, Volatile, Locked
  <2>5. pc # "repairing"
    BY <2>2 DEF LegacyInv, Volatile
  <2> QED BY <2>2, <2>3, <2>4, <2>5
<1>4. /\ wf' \in WfRow /\ permit' \in PermitRows
      /\ \/ Moved(wf.phase) /\ permit' = permit
         \/ /\ Moved(IF wf.phase = "EXECUTING" THEN "EXECUTION_READY" ELSE wf.phase)
            /\ \A v \in 1 .. MaxVersion :
                 permit'[v] = IF permit[v] = "CONSUMED" THEN "OPEN" ELSE permit[v]
  <2>1. CASE retry_execution
    <3> DEFINE phase == IF wf.phase = "EXECUTING" THEN "EXECUTION_READY" ELSE wf.phase
    <3>1. SetPhase(phase) /\ phase \in Phase
      BY <2>1, <1>0 DEF retry_execution, WfRow, Phase
    <3> HIDE DEF phase
    <3>2. Moved(phase) /\ wf' \in WfRow
      BY <3>1, <1>0, PhaseMoves
    <3>3. /\ permit' \in PermitRows
          /\ \A v \in 1 .. MaxVersion :
               permit'[v] = IF permit[v] = "CONSUMED" THEN "OPEN" ELSE permit[v]
      BY <2>1, <1>0 DEF retry_execution, PermitRows
    <3> QED BY <3>2, <3>3 DEF phase
  <2>2. CASE skip_execution \/ recover_stale
    BY <2>2, <1>0 DEF skip_execution, recover_stale, Moved
  <2> QED BY <2>1, <2>2
<1>5. /\ Execution' \in {"RETRY_PENDING", "SKIPPED", "INTERRUPTED"}
      /\ Execution = "FAILED" => Execution' \in {"RETRY_PENDING", "SKIPPED"}
      /\ ee' \in [Event -> Status] /\ le' \in Status
      /\ \A e \in Event : e # wf.root => ee'[e] = ee[e]
  <2>1. PICK s \in {"RETRY_PENDING", "SKIPPED", "INTERRUPTED"} :
          SetExecution(s) /\ (Execution = "FAILED" => s # "INTERRUPTED")
    BY DEF retry_execution, skip_execution, recover_stale
  <2>2. wf'.root = wf.root /\ wf'.logical = wf.logical /\ s \in Status
    BY <1>4 DEF Moved, Status
  <2>3. /\ Execution' = s /\ ee' \in [Event -> Status] /\ le' \in Status
        /\ \A e \in Event : e # wf.root => ee'[e] = ee[e]
    BY <2>1, <2>2, <1>0, <1>1, ExecutionSet
  <2> QED BY <2>1, <2>3
<1>6. TypeOK'
  <2>1. commands' \in 0 .. MaxOperator
    <3>1. commands \in 0 .. MaxOperator
      BY <1>0 DEF TypeOK
    <3> QED BY <3>1, <1>1, LegacyBounds
  <2> QED BY <1>0, <1>1, <1>4, <1>5, <2>1, Rows, Typed DEF Small
<1>7. Authority'
  <2>0. plan.version \in 1 .. MaxVersion
    BY <1>0 DEF TypeOK
  <2>1. CASE Moved(wf.phase) /\ permit' = permit
    BY <2>1, <1>1 DEF LegacyInv, Authority, Moved
  <2>2. CASE /\ Moved(IF wf.phase = "EXECUTING" THEN "EXECUTION_READY" ELSE wf.phase)
             /\ \A v \in 1 .. MaxVersion :
                  permit'[v] = IF permit[v] = "CONSUMED" THEN "OPEN" ELSE permit[v]
    BY <2>0, <2>2, <1>1, <1>3 DEF LegacyInv, Authority, Moved, Underway, Void
  <2> QED BY <1>4, <2>1, <2>2
<1>8. Work'
  BY <1>1, <1>3, <1>4, <1>5 DEF LegacyInv, Work, Moved, Underway
<1>9. Rounds'
  BY <1>1, <1>3 DEF LegacyInv, Rounds
<1>10. Volatile'
  <2>1. CASE pc \in {"ran", "finished"}
    BY <2>1, <1>1, <1>3, <1>4, <1>5 DEF LegacyInv, Volatile, Moved
  <2>2. CASE pc \notin {"ran", "finished"}
    BY <2>2, <1>1, <1>3, <1>4 DEF LegacyInv, Volatile, Moved
  <2> QED BY <2>1, <2>2
<1>11. Inputs'
  <2>1. wf'.root = wf.root /\ (wf'.phase = wf.phase \/ wf'.phase = "EXECUTION_READY")
    BY <1>4 DEF Moved
  <2> QED BY <1>0, <1>1, <1>5, <2>1, InputsKept DEF LegacyInv, Underway
<1> QED BY <1>6, <1>7, <1>8, <1>9, <1>10, <1>11 DEF LegacyInv

-----------------------------------------------------------------------------
(* Nothing has happened yet.                                               *)
LEMMA LegacyStarts == Init => LegacyInv
<1> SUFFICES ASSUME Init PROVE LegacyInv
  OBVIOUS
<1>0. now = 0 /\ late = {} /\ log = [e \in Event |-> NoEvent] /\ Recorded = {}
  BY DEF Init, Recorded, NoEvent
<1>1. TypeOK
  <2>1. /\ 0 \in 0 .. MaxEvents /\ 0 \in 0 .. MaxCycles /\ 0 \in 0 .. MaxQuestions
        /\ 0 \in 0 .. MaxOperator /\ 0 \in 0 .. MaxCrashes
    BY <1>0, LegacyBounds
  <2>2. wf \in WfRow
    BY <2>1 DEF Init, NoWorkflow, WfRow, Phase
  <2>3. plan \in PlanRow /\ permit \in PermitRows
    BY <2>1, LegacyBounds DEF Init, NoPlan, NoPermits, PlanRow, PermitRows
  <2>4. attempt \in AttemptRow /\ repair \in RepairRow
    <3>1. 0 \in 0 .. MaxRecoveries /\ 0 \in 0 .. MaxRecoveries + 1 /\ 0 \in 0 .. MaxRepairs
          /\ 0 \in 0 .. MaxVersion
      BY LegacyBounds
    <3> QED BY <3>1 DEF Init, NoAttempt, NoRepair, AttemptRow, RepairRow, Status, Verdict
  <2>5. /\ consumed \in [Event -> Purpose] /\ ee \in [Event -> Status] /\ le \in Status
        /\ deferred \in [Event -> {"NONE", "QUEUED", "CONSUMED"}]
    BY DEF Init, Purpose, Status
  <2>6. /\ label \in BOOLEAN /\ question \in {"NONE", "OPEN", "ANSWERED", "CANCELLED"}
        /\ checkpoint \in BOOLEAN /\ comment = 0 /\ reviewed \in BOOLEAN /\ repairs = 0
        /\ publication \in {"NONE", "COMPLETED"} /\ published \subseteq Event
        /\ jobs \subseteq {"memory", "resolution"} /\ pc \in Step /\ using = 0
        /\ outcome \in {"NONE", "AUTHORIZE", "SUCCEEDED", "FAILED", "CLARIFICATION"}
        /\ questions = 0 /\ commands = 0 /\ crashes = 0
    BY DEF Init, Step
  <2> QED BY <1>0, <2>1, <2>2, <2>3, <2>4, <2>5, <2>6
          DEF TypeOK, WfRow, PlanRow, PermitRows, AttemptRow, RepairRow
<1>2. Authority
  BY LegacyBounds DEF Init, Authority, NoWorkflow, NoPlan, NoPermits, Void, Underway
<1>3. Work
  BY DEF Init, Work, Execution, NoWorkflow, NoAttempt, Underway
<1>4. Rounds
  BY DEF Init, Rounds, NoAttempt
<1>5. Volatile
  BY DEF Init, Volatile, NoWorkflow
<1>6. Inputs
  BY <1>0 DEF Init, Inputs, NoInputLost, NoWorkflow, Open, Queued
<1> QED BY <1>1, <1>2, <1>3, <1>4, <1>5, <1>6 DEF LegacyInv

(* Every step of the worker, people, the operator and the publisher keeps  *)
(* the invariant.                                                          *)
LEMMA LegacyStep == LegacyInv /\ [Next]_vars => LegacyInv'
<1> SUFFICES ASSUME LegacyInv, [Next]_vars PROVE LegacyInv'
  OBVIOUS
<1>1. CASE UNCHANGED vars
  <2>1. UNCHANGED <<now, log, late, inputVars, cycleVars, runVars>>
    BY <1>1 DEF vars, outside
  <2>2. TypeOK'
    BY <1>1, Rows, Typed DEF LegacyInv, Small, vars, outside, inputVars, cycleVars, runVars, pubVars, tickVars
  <2>3. Volatile'
    <3>1. Execution' = Execution
      BY <2>1 DEF Execution, inputVars, cycleVars
    <3> QED BY <1>1, <3>1 DEF LegacyInv, Volatile, vars, cycleVars, runVars, tickVars
  <2> QED BY <1>1, <2>1, <2>2, <2>3, OnlyTheTick DEF vars, tickVars
<1>2. CASE Worker
  <2>1. CASE _drain_approval_controls \/ _defer_active_followups
    BY <2>1, Drains, Defers
  <2>2. CASE _recover_executing_state
    BY <2>2, RepairRecovers, InitialRecovers
  <2>3. CASE \/ clarify_begins \/ clarify_ends \/ planning_resumed \/ review_begins
             \/ review_raises \/ nothing_to_do \/ learn
    BY <2>3, Decides
  <2>4. CASE \E r \in Relationship : _resolve_open_clarification(r)
    BY <2>4, Clarifies
  <2>5. CASE begin_next_cycle \/ plan_event \/ publish_plan \/ mark_current_plan_posted \/ _replan
    BY <2>5, Begins, Plans, Replans
  <2>6. CASE \E D \in SUBSET Event : acknowledge_delivered(D)
    BY <2>6, Acknowledges
  <2>7. CASE auto_plan_revised \/ auto_approval \/ human_approval
    BY <2>7, AutoApproves, HumanApproves
  <2>8. CASE execution_ready \/ ensure_execution_attempt
    BY <2>8, Executes, Ensures
  <2>9. CASE run_asks \/ \E s \in {"SUCCEEDED", "FAILED"} : run_ends(s)
    BY <2>9, RunEnds
  <2>10. CASE \/ finish_execution_attempt \/ interrupt_execution_for_clarification
              \/ execution_settled
    BY <2>10, AttemptEnds, Settled
  <2>11. CASE \/ record_review_infrastructure_failure
              \/ \E v \in Verdict \ {"NONE"} : save_execution_review(v)
    BY <2>11, Reviews
  <2>12. CASE accept_execution_review \/ create_repair_permit \/ block_execution_review
    BY <2>12, Verdicts
  <2>13. CASE repair_ready \/ finish_repair_attempt_success \/ mark_repair_attempt_failed
    BY <2>13, Repairs, RepairEnded
  <2>14. CASE complete_publication
    BY <2>14, Closes
  <2> QED BY <1>2, <2>1, <2>2, <2>3, <2>4, <2>5, <2>6, <2>7, <2>8, <2>9, <2>10, <2>11, <2>12,
             <2>13, <2>14 DEF Worker
<1>3. CASE publisher_completes \/ crash
  BY <1>3, Decides
<1>4. CASE People
  BY <1>4, PeopleAct
<1>5. CASE retry_execution \/ skip_execution \/ recover_stale
  BY <1>5, OperatorActs
<1> QED BY <1>1, <1>2, <1>3, <1>4, <1>5 DEF Next, People

(* The invariant of the single-plan workflow, through every interleaving   *)
(* of the tick with people, operator, publisher and deaths of the worker.  *)
THEOREM LegacyInductive == Spec => []LegacyInv
<1> QED BY LegacyStarts, LegacyStep, PTL DEF Spec

(* The rows hold the values the code writes.                               *)
THEOREM LegacyTypes == Spec => []TypeOK
<1>1. LegacyInv => TypeOK
  BY DEF LegacyInv
<1> QED BY <1>1, LegacyInductive, PTL

(* A model runs only under the approved current plan.                      *)
THEOREM PlanStaysApproved == Spec => []RunsTheApprovedPlan
<1>1. LegacyInv => RunsTheApprovedPlan
  <2> SUFFICES ASSUME LegacyInv, pc \in {"running", "repairing"}
               PROVE  /\ wf.phase = "EXECUTING" /\ plan.status = "APPROVED"
                      /\ permit[plan.version] = "CONSUMED" /\ attempt.version = plan.version
                      /\ \A v \in 1 .. plan.version - 1 : permit[v] \in {"NONE", "INVALID"}
                      /\ plan.by # 0 => log[plan.by].body = "approve" /\ plan.by > plan.posted
                      /\ plan.by = 0 => AllowAuto
    BY DEF RunsTheApprovedPlan
  <2>1. wf.phase = "EXECUTING" /\ attempt.version = plan.version
    BY DEF LegacyInv, Volatile, Work
  <2>2. /\ plan.status = "APPROVED" /\ permit[plan.version] = "CONSUMED"
        /\ \A v \in 1 .. MaxVersion : v # plan.version => permit[v] \in Void
        /\ plan.by # 0 => log[plan.by].body = "approve" /\ plan.by > plan.posted
        /\ plan.by = 0 => AllowAuto
    BY <2>1 DEF LegacyInv, Authority, Underway
  <2>3. \A v \in 1 .. plan.version - 1 : v \in 1 .. MaxVersion /\ v # plan.version
    <3>1. plan.version \in 1 .. MaxVersion
      BY DEF LegacyInv, TypeOK
    <3> QED BY <3>1, LegacyBounds
  <2> QED BY <2>1, <2>2, <2>3 DEF Void
<1> QED BY <1>1, LegacyInductive, PTL

(* What awaits publication succeeded and carries an ACCEPT, and nothing has*)
(* run in the workspace since the last review that was saved.              *)
THEOREM ReviewedIsPublished == Spec => []AcceptedWorkIsReviewed
<1>1. LegacyInv => AcceptedWorkIsReviewed
  BY DEF LegacyInv, Work, Authority, Underway, AcceptedWorkIsReviewed, PublicationTarget
<1> QED BY <1>1, LegacyInductive, PTL

(* No request is lost that no younger one preceded into the rows, whenever *)
(* the worker dies.                                                        *)
THEOREM InputsAreKept == Spec => []NoInputLost
<1>1. LegacyInv => NoInputLost
  BY DEF LegacyInv, Inputs
<1> QED BY <1>1, LegacyInductive, PTL

(* The repair runs of a cycle are at most MaxRepairs * (MaxRecoveries + 1),*)
(* deaths of the worker included.                                          *)
THEOREM RepairsStayBounded == Spec => []RepairsBounded
<1>1. LegacyInv => RepairsBounded
  <2> SUFFICES ASSUME LegacyInv PROVE repairs <= MaxRepairs * (MaxRecoveries + 1)
    BY DEF RepairsBounded
  <2> DEFINE K == MaxRecoveries + 1
             r == attempt.round
  <2>1. MaxRepairs \in Nat /\ MaxRecoveries \in Nat /\ K \in Nat
    BY LegacyBounds
  <2>2. attempt \in AttemptRow /\ repairs \in Nat
    BY DEF LegacyInv, TypeOK, AttemptRow
  <2>3. r \in Nat /\ r <= MaxRepairs /\ attempt.recoveries \in Nat
        /\ attempt.recoveries + 1 <= K
    BY <2>1, <2>2 DEF AttemptRow
  <2>4. /\ (MaxRepairs - r) * K >= 0 /\ MaxRepairs * K = r * K + (MaxRepairs - r) * K
        /\ r * K = (r - 1) * K + K /\ r * K \in Nat /\ MaxRepairs * K \in Nat
        /\ (r - 1) * K \in Int /\ (MaxRepairs - r) * K \in Int
    <3>1. MaxRepairs - r \in Nat
      BY <2>1, <2>3
    <3> HIDE DEF K, r
    <3> QED BY <3>1, <2>1, <2>3
  <2>5. CASE attempt.kind # "REVIEW_REPAIR"
    <3>1. repairs = 0
      BY <2>5 DEF LegacyInv, Rounds
    <3>2. MaxRepairs * K >= 0
      BY <2>4
    <3> QED BY <3>1, <3>2
  <2>6. CASE attempt.kind = "REVIEW_REPAIR"
    <3>1. repairs <= (r - 1) * K + attempt.recoveries + (IF Resumable THEN 0 ELSE 1)
      BY <2>6 DEF LegacyInv, Rounds, Before
    <3> HIDE DEF K, r
    <3>2. repairs <= MaxRepairs * K
      BY <3>1, <2>1, <2>2, <2>3, <2>4
    <3> QED BY <3>2 DEF K
  <2> QED BY <2>5, <2>6
<1> QED BY <1>1, LegacyInductive, PTL

(* A step that leaves the execution's rows and the root alone.             *)
Leaves ==
  /\ UNCHANGED <<ee, le>> /\ pc' # "bound"
  /\ wf'.root = wf.root /\ wf'.logical = wf.logical

(* Steps that find a succeeded execution and leave it alone.               *)
LEMMA SuccessIsLeft ==
  ASSUME LegacyInv, Execution = "SUCCEEDED",
         \/ _defer_active_followups \/ _recover_executing_state
         \/ clarify_begins \/ clarify_ends \/ planning_resumed \/ review_begins
         \/ review_raises \/ nothing_to_do \/ learn \/ crash \/ publisher_completes \/ People
         \/ finish_execution_attempt \/ execution_settled
         \/ record_review_infrastructure_failure
         \/ \E v \in Verdict \ {"NONE"} : save_execution_review(v)
         \/ accept_execution_review \/ create_repair_permit \/ block_execution_review
         \/ finish_repair_attempt_success \/ mark_repair_attempt_failed \/ complete_publication
  PROVE  Leaves
<1>0. TypeOK /\ wf \in WfRow
  BY DEF LegacyInv, TypeOK, WfRow
<1>1. \A phase : SetPhase(phase) => wf'.root = wf.root /\ wf'.logical = wf.logical
  BY <1>0 DEF SetPhase, WfRow
<1>2. CASE \/ _defer_active_followups \/ clarify_begins \/ clarify_ends \/ planning_resumed
           \/ review_begins \/ review_raises \/ nothing_to_do \/ learn \/ crash
  BY <1>2 DEF Leaves, _defer_active_followups, clarify_begins, clarify_ends, planning_resumed,
     review_begins, review_raises, nothing_to_do, learn, crash, Goto, End, inputVars, cycleVars
<1>3. CASE publisher_completes \/ People
  <2>1. UNCHANGED <<ee, le, wf, pc>>
    BY <1>3 DEF publisher_completes, People, somebody_comments, remove_label, record_event,
                inputVars, cycleVars, tickVars
  <2>2. pc # "bound"
    BY DEF LegacyInv, Volatile
  <2> QED BY <2>1, <2>2 DEF Leaves
<1>4. CASE _recover_executing_state
  <2>1. CASE attempt.kind = "REVIEW_REPAIR"
    <3>1. recover_orphaned_repair_attempt
      BY <1>4, <2>1 DEF _recover_executing_state
    <3> QED BY <3>1, <1>1 DEF recover_orphaned_repair_attempt, Leaves, Goto, End
  <2>2. CASE attempt.kind # "REVIEW_REPAIR"
    <3>1. _recover_initial_execution
      BY <1>4, <2>2 DEF _recover_executing_state, _recover_orphaned_initial
    <3> QED BY <3>1, <1>1 DEF _recover_initial_execution, Leaves, Goto
  <2> QED BY <2>1, <2>2
<1>5. CASE finish_execution_attempt \/ execution_settled
  BY <1>1, <1>5 DEF Leaves, finish_execution_attempt, execution_settled, Goto, End, inputVars, cycleVars
<1>6. CASE \/ record_review_infrastructure_failure
           \/ \E v \in Verdict \ {"NONE"} : save_execution_review(v)
  BY <1>1, <1>6 DEF Leaves, record_review_infrastructure_failure, save_execution_review, Goto, End,
     inputVars, cycleVars
<1>7. CASE accept_execution_review \/ create_repair_permit \/ block_execution_review
  BY <1>1, <1>7 DEF Leaves, accept_execution_review, create_repair_permit, block_execution_review,
     Settles, End, inputVars
<1>8. CASE finish_repair_attempt_success \/ mark_repair_attempt_failed
  BY <1>1, <1>8 DEF Leaves, finish_repair_attempt_success, mark_repair_attempt_failed, RepairEnds,
     End, inputVars
<1>9. CASE complete_publication
  BY <1>1, <1>9 DEF Leaves, complete_publication, finalize_publication, Goto, inputVars
<1> QED BY <1>2, <1>3, <1>4, <1>5, <1>6, <1>7, <1>8, <1>9

(* Steps that dispose of inputs never touch the root's row.                *)
LEMMA RootIsNotAnInput ==
  ASSUME LegacyInv, _drain_approval_controls \/ repair_ready
  PROVE  Execution' = Execution /\ pc' # "bound"
<1>0. TypeOK /\ wf \in WfRow
  BY DEF LegacyInv, TypeOK, WfRow
<1>1. \A phase : SetPhase(phase) => wf'.root = wf.root /\ wf'.logical = wf.logical
  BY <1>0 DEF SetPhase, WfRow
<1>2. wf.root # 0 => wf.root \in Event /\ wf.root \notin Unconsumed /\ wf.root \notin Pending
  BY <1>0, Positions, UnconsumedIsOpen DEF Pending
<1>3. CASE _drain_approval_controls
  <2>1. UNCHANGED <<le, wf>> /\ pc' = "begin"
    BY <1>3 DEF _drain_approval_controls, cycleVars, Goto
  <2>2. wf.root # 0 => ee'[wf.root] = ee[wf.root]
    BY <1>2, <1>3 DEF _drain_approval_controls, Approvals
  <2> QED BY <2>1, <2>2, ExecutionKept
<1>4. CASE repair_ready
  <2>1. /\ le' = le /\ pc' \in {"idle", "repairing"}
        /\ wf'.root = wf.root /\ wf'.logical = wf.logical
    BY <1>1, <1>4 DEF repair_ready, repair_raced, bind_repair_execution, Goto, End
  <2>2. wf.root # 0 => ee'[wf.root] = ee[wf.root]
    BY <1>2, <1>4 DEF repair_ready, Consume, Approvals
  <2> QED BY <2>1, <2>2, ExecutionKept
<1> QED BY <1>3, <1>4

(* Steps that cannot happen once the execution succeeded.                  *)
LEMMA SuccessPrevents ==
  ASSUME LegacyInv, Execution = "SUCCEEDED"
  PROVE  /\ ~\E r \in Relationship : _resolve_open_clarification(r)
         /\ ~plan_event /\ ~_replan /\ ~publish_plan /\ ~mark_current_plan_posted
         /\ ~\E D \in SUBSET Event : acknowledge_delivered(D)
         /\ ~auto_plan_revised /\ ~auto_approval /\ ~human_approval
         /\ ~execution_ready /\ ~ensure_execution_attempt
         /\ ~run_asks /\ ~\E s \in {"SUCCEEDED", "FAILED"} : run_ends(s)
         /\ ~interrupt_execution_for_clarification
         /\ ~retry_execution /\ ~skip_execution /\ ~recover_stale
<1>1. wf.phase \in Underway \cup {"REVIEW_BLOCKED", "IDLE"}
  BY DEF LegacyInv, Work
<1>2. pc \notin {"clarify", "planning", "planned", "publish", "posted", "authorize", "bound", "running"}
  BY <1>1 DEF LegacyInv, Volatile, Underway
<1>3. ~(pc = "finished" /\ outcome = "CLARIFICATION")
  BY DEF LegacyInv, Volatile
<1>4. /\ ~\E r \in Relationship : _resolve_open_clarification(r)
      /\ ~plan_event /\ ~_replan /\ ~publish_plan /\ ~mark_current_plan_posted
      /\ ~\E D \in SUBSET Event : acknowledge_delivered(D)
  BY <1>2 DEF _resolve_open_clarification, plan_event, _replan, publish_plan,
     mark_current_plan_posted, acknowledge_delivered
<1>5. /\ ~auto_plan_revised /\ ~auto_approval /\ ~human_approval
      /\ ~execution_ready /\ ~ensure_execution_attempt
  BY <1>1, <1>2 DEF auto_plan_revised, auto_approval, human_approval, execution_ready,
     ensure_execution_attempt, Underway
<1>6. /\ ~run_asks /\ ~\E s \in {"SUCCEEDED", "FAILED"} : run_ends(s)
      /\ ~interrupt_execution_for_clarification
  BY <1>2, <1>3 DEF run_asks, run_ends, interrupt_execution_for_clarification
<1>7. ~retry_execution /\ ~skip_execution /\ ~recover_stale
  BY DEF retry_execution, skip_execution, recover_stale
<1> QED BY <1>4, <1>5, <1>6, <1>7

(* Durable success is final: the row stays SUCCEEDED and no step binds the *)
(* plan of the same cycle for an execution again.                          *)
THEOREM SuccessStaysFinal == Spec => SuccessIsFinal
<1>1. ASSUME LegacyInv, [Next]_vars
      PROVE  [Execution = "SUCCEEDED" /\ wf'.cycle = wf.cycle =>
                Execution' = "SUCCEEDED" /\ pc' # "bound"]_vars
  <2> SUFFICES ASSUME Next, Execution = "SUCCEEDED", wf'.cycle = wf.cycle
               PROVE  Execution' = "SUCCEEDED" /\ pc' # "bound"
    BY <1>1
  <2>1. ASSUME Leaves PROVE Execution' = "SUCCEEDED" /\ pc' # "bound"
    BY <2>1, ExecutionKept DEF Leaves
  <2>2. ~begin_next_cycle
    <3>1. wf.cycle \in Nat
      BY <1>1, LegacyBounds DEF LegacyInv, TypeOK
    <3>2. begin_next_cycle => wf'.cycle = wf.cycle + 1
      BY DEF begin_next_cycle, begin_workflow_cycle
    <3> QED BY <3>1, <3>2
  <2>3. CASE _drain_approval_controls \/ repair_ready
    BY <1>1, <2>3, RootIsNotAnInput
  <2>4. CASE Leaves
    BY <2>1, <2>4
  <2> QED BY <1>1, <2>2, <2>3, <2>4, SuccessPrevents, SuccessIsLeft
         DEF Next, Worker, People
<1> QED BY <1>1, LegacyInductive, PTL DEF Spec, SuccessIsFinal

=============================================================================
