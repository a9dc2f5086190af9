---------------------------- MODULE TaskLifecycle ----------------------------
(***************************************************************************)
(* What the task lifecycle promises the people of a thread, without plans, *)
(* attempts, rounds, occurrence keys or clocks.  A task is worked on only  *)
(* with somebody's authority and done only when somebody accepted it; each *)
(* comment gives one authority or one acceptance; going back to planning   *)
(* withdraws the authority; tasks are worked on one at a time, after their *)
(* dependencies; and a cycle is complete when all of them are done.        *)
(* WorkflowRuntime implements this specification.                          *)
(***************************************************************************)
CONSTANTS
  Task, Deps,   \* the tasks, and which ones a task depends on
  Event,        \* comments
  AutoPolicy    \* the authority of an AUTO thread, which is never used up

VARIABLES
  status,       \* of the cycle
  stage,        \* of each task
  authority,    \* who allowed the work a task is in
  used          \* comments of this cycle that were acted on

lifecycle == <<status, stage, authority, used>>

Init ==
  /\ status = "none"
  /\ stage = [t \in Task |-> "waiting"]
  /\ authority = [t \in Task |-> {}]
  /\ used = {}

UnderWay(t) == stage[t] \in {"planning", "offered", "working", "delivered"}

Fresh(by) == by = AutoPolicy \/ by \in Event \ used

(* A cycle begins when there is none that is open.                         *)
Open ==
  /\ status # "open"
  /\ status' = "open"
  /\ stage' = [t \in Task |-> "waiting"]
  /\ authority' = [t \in Task |-> {}]
  /\ used' = {}

(* The task moves on and leaves everything else alone.                     *)
Move(t, from, to) ==
  /\ status = "open" /\ stage[t] \in from
  /\ stage' = [stage EXCEPT ![t] = to]
  /\ UNCHANGED status

Start(t) ==
  /\ \A u \in Task : ~UnderWay(u)
  /\ \A d \in Deps[t] : stage[d] = "done"
  /\ Move(t, {"waiting"}, "planning")
  /\ UNCHANGED <<authority, used>>

(* A plan is shown.                                                        *)
Offer(t) == Move(t, {"planning"}, "offered") /\ UNCHANGED <<authority, used>>

(* Somebody allows the plan that is shown.                                 *)
Allow(t, by) ==
  /\ Fresh(by)
  /\ Move(t, {"offered"}, "working")
  /\ authority' = [authority EXCEPT ![t] = {by}]
  /\ used' = used \cup ({by} \cap Event)

(* Feedback, steering or a finding: whoever allowed the work has to be     *)
(* asked again.                                                            *)
Withdraw(t) ==
  /\ Move(t, {"offered", "working", "delivered"}, "planning")
  /\ authority' = [authority EXCEPT ![t] = {}]
  /\ UNCHANGED used

(* A result is shown.                                                      *)
Deliver(t) == Move(t, {"working"}, "delivered") /\ UNCHANGED <<authority, used>>

(* Somebody accepts the result that is shown.                              *)
Accept(t, by) ==
  /\ Fresh(by)
  /\ Move(t, {"delivered"}, "done")
  /\ used' = used \cup ({by} \cap Event)
  /\ UNCHANGED authority

Complete ==
  /\ status = "open" /\ \A t \in Task : stage[t] = "done"
  /\ status' = "complete"
  /\ UNCHANGED <<stage, authority, used>>

(* The cycle fails, and with it the task that is under way.                *)
Fail ==
  /\ status = "open"
  /\ status' = "failed"
  /\ stage' = [t \in Task |-> IF UnderWay(t) THEN "failed" ELSE stage[t]]
  /\ UNCHANGED <<authority, used>>

Next ==
  \/ Open \/ Complete \/ Fail
  \/ \E t \in Task : Start(t) \/ Offer(t) \/ Withdraw(t) \/ Deliver(t)
  \/ \E t \in Task, by \in Event \cup {AutoPolicy} : Allow(t, by) \/ Accept(t, by)

Spec == Init /\ [][Next]_lifecycle
=============================================================================
