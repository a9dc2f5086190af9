------------------------------ MODULE Dispatcher ------------------------------
(***************************************************************************)
(* Who works on which IssueThread, and where: SWEForgeServer (server.py),  *)
(* the dispatcher rows of github_store.py, the IssueThread and repository  *)
(* Git locks (execution_locks.py) and the thread's worktree (workspace.py, *)
(* DeclarativeWorkflowController._workspace), for the threads of one       *)
(* repository, several server processes started on one database, and one   *)
(* operator command at a time.                                             *)
(*                                                                         *)
(* Data abstraction: what a thread has to do is a number of ticks, counted *)
(* by pending, and learning jobs, counted by jobs; what a tick does is     *)
(* ThreadController's concern.  A commit of origin/main is its position.   *)
(* A back-off is "new" until its worker is gone and the loop has made one  *)
(* pass, then "due" to end at any moment: the shortest delay, 5 seconds,   *)
(* outlasts that pass (0.25 seconds).  A process that dies drops its       *)
(* flocks, so a lock is its holder.                                        *)
(***************************************************************************)
EXTENDS Integers, FiniteSets, SequencesExt

CONSTANTS
  Thread,       \* IssueThreads
  Server,       \* server processes started on this database
  Cli,          \* the operator's command (publish, execute)
  NoOne,        \* a lock nobody holds
  Broken,       \* threads whose bound configuration cannot be loaded
  Workers,      \* config.workers
  MaxTicks,     \* config.max_ticks
  MaxFailures,  \* MAX_DECLARATIVE_DRIVER_FAILURES
  MaxInputs,    \* bound: inputs the poller brings in
  MaxFaults,    \* bound: ticks or Git commands that raise
  MaxCrashes,   \* bound: server processes that die or are stopped
  MaxOperator,  \* bound: operator commands
  MaxMain       \* bound: commits of origin/main

ASSUME ThreadAssumption == IsFiniteSet(Thread) /\ Broken \subseteq Thread
ASSUME HolderAssumption ==
  Cli # NoOne /\ {Cli, NoOne} \cap (Server \cup Server \X Thread) = {}
ASSUME PoolAssumption ==
  Workers \in Nat \ {0} /\ MaxTicks \in Nat \ {0} /\ MaxFailures \in Nat \ {0}
ASSUME MainAssumption == MaxMain \in Nat \ {0}

VARIABLES
  (* the database *)
  pending,   \* ticks the thread has work for
  jobs,      \* learning jobs that are pending
  order,     \* threads by updated_at
  failures,  \* dispatcher_failures.failure_count, 0 when there is no row
  backoff,   \* whether next_eligible_at is still ahead
  failed,    \* threads whose cycle is FAILED
  record,    \* thread_workspaces.base_commit, 0 when there is no row
  (* locks and processes *)
  instance,  \* who holds the ServerInstanceLock
  loop,      \* loop[s]: where run() is
  futures,   \* futures[s]: the threads in self._futures
  worker,    \* worker[s][t]: where _worker_entry is, and its locals
  lock,      \* lock[t]: who holds the IssueThread lock
  git,       \* who holds the repository Git lock
  (* the repository *)
  main,      \* origin/main
  branch,    \* branch[t]: the commit sweforge/issue-t was created at, 0 without
  head,      \* head[t]: the commit the branch is at
  tree,      \* tree[t]: the worktree directory
  (* bounds *)
  inputs, faults, crashes, operator

rows == <<pending, jobs, order, failures, backoff, failed>>
repo == <<main, branch, head, tree, record>>
bounds == <<inputs, faults, crashes, operator>>
procs == <<instance, loop, futures, worker>>
vars == <<rows, repo, procs, lock, git, bounds>>

-----------------------------------------------------------------------------
Idle == [at |-> "none", ticks |-> 0, base |-> 0]

(* Steps at which the worker holds its IssueThread lock.                   *)
InTick == {"open", "wait_git", "create", "branch", "attach", "checkout", "save", "work"}

(* A broken thread was served until its configuration was changed.         *)
Init ==
  /\ pending = [t \in Thread |-> 0] /\ jobs = [t \in Thread |-> 0]
  /\ order = SetToSeq(Thread)
  /\ failures = [t \in Thread |-> 0] /\ backoff = [t \in Thread |-> "none"]
  /\ failed = {} /\ record = [t \in Thread |-> IF t \in Broken THEN 1 ELSE 0]
  /\ instance = NoOne
  /\ loop = [s \in Server |-> "down"] /\ futures = [s \in Server |-> {}]
  /\ worker = [s \in Server |-> [t \in Thread |-> Idle]]
  /\ lock = [t \in Thread |-> NoOne] /\ git = NoOne
  /\ main = 1 /\ branch = record /\ head = record
  /\ tree = [t \in Thread |-> IF t \in Broken THEN "whole" ELSE "none"]
  /\ inputs = 0 /\ faults = 0 /\ crashes = 0 /\ operator = 0

-----------------------------------------------------------------------------
(* The dispatcher's rows.                                                  *)

(* Slip: the failure is counted and the thread stays eligible.             *)
record_failure_without_delay(t) ==
  /\ failures' = [failures EXCEPT ![t] = IF @ < MaxFailures THEN @ + 1 ELSE @]
  /\ UNCHANGED backoff

(* Counted (the count is only compared with MaxFailures) and backed off.   *)
record_dispatcher_failure(t) ==
  /\ failures' = [failures EXCEPT ![t] = IF @ < MaxFailures THEN @ + 1 ELSE @]
  /\ backoff' = [backoff EXCEPT ![t] = "new"]

clear_dispatcher_failure(t) ==
  /\ failures' = [failures EXCEPT ![t] = 0]
  /\ backoff' = [backoff EXCEPT ![t] = "none"]

is_thread_runnable(t) ==
  backoff[t] = "none" /\ t \notin failed /\ (pending[t] > 0 \/ jobs[t] > 0)

(* Positions in the order, the longest untouched first.                    *)
runnable_thread_ids == {i \in DOMAIN order : is_thread_runnable(order[i])}

(* next_eligible_at passes.                                                *)
BackoffEnds(t) ==
  /\ backoff[t] = "due"
  /\ backoff' = [backoff EXCEPT ![t] = "none"]
  /\ UNCHANGED <<pending, jobs, order, failures, failed, repo, procs, lock, git, bounds>>

-----------------------------------------------------------------------------
(* run(): one server per database, then reap, poll, submit until stopped.  *)

acquire_instance(s) ==
  /\ loop[s] = "down" /\ instance = NoOne
  /\ instance' = s
  /\ loop' = [loop EXCEPT ![s] = "poll"]
  /\ UNCHANGED <<rows, repo, futures, worker, lock, git, bounds>>

_reap(s) ==
  LET done == {t \in futures[s] : worker[s][t].at = "done"} IN
  /\ loop[s] = "wait"
  /\ futures' = [futures EXCEPT ![s] = @ \ done]
  /\ worker' = [worker EXCEPT ![s] = [t \in Thread |-> IF t \in done THEN Idle ELSE @[t]]]
  /\ loop' = [loop EXCEPT ![s] = "poll"]
  /\ UNCHANGED <<rows, repo, instance, lock, git, bounds>>

(* Who is the j-th once the i-th thread has moved to the end.              *)
Later(i, j) == IF j < i THEN j ELSE IF j < Len(order) THEN j + 1 ELSE i

(* The poller may bring an input in, which also touches updated_at; a poll *)
(* that fails is ignored.                                                  *)
_poll(s) ==
  /\ loop[s] = "poll"
  /\ loop' = [loop EXCEPT ![s] = "submit"]
  /\ \/ UNCHANGED <<pending, order, inputs>>
     \/ \E i \in DOMAIN order :
          /\ inputs < MaxInputs
          /\ inputs' = inputs + 1
          /\ pending' = [pending EXCEPT ![order[i]] = @ + 1]
          /\ order' = [j \in DOMAIN order |-> order[Later(i, j)]]
  /\ UNCHANGED <<jobs, failures, backoff, failed, repo, instance, futures, worker,
                 lock, git, faults, crashes, operator>>

(* The first n positions of a set.                                         *)
FirstOf(positions, n) ==
  {i \in positions : Cardinality({j \in positions : j <= i}) <= n}

(* Slip: a thread that has a worker is not skipped.                        *)
submit_active_again(s) ==
  LET picked == {order[i] : i \in FirstOf(runnable_thread_ids, Workers)} IN
  /\ loop[s] = "submit"
  /\ futures' = [futures EXCEPT ![s] = @ \cup picked]
  /\ worker' = [worker EXCEPT ![s] =
       [t \in Thread |-> IF t \in picked THEN [Idle EXCEPT !.at = "start"] ELSE @[t]]]
  /\ loop' = [loop EXCEPT ![s] = "wait"]
  /\ backoff' = [t \in Thread |->
       IF backoff[t] = "new" /\ t \notin futures[s] THEN "due" ELSE backoff[t]]
  /\ UNCHANGED <<pending, jobs, order, failures, failed, repo, instance, lock, git, bounds>>

(* Free slots go to the first runnable threads that have no worker.        *)
_submit(s) ==
  LET waiting == {i \in runnable_thread_ids : order[i] \notin futures[s]}
      free    == Workers - Cardinality(futures[s])
      picked  == {order[i] : i \in FirstOf(waiting, free)} IN
  /\ loop[s] = "submit"
  /\ futures' = [futures EXCEPT ![s] = @ \cup picked]
  /\ worker' = [worker EXCEPT ![s] =
       [t \in Thread |-> IF t \in picked THEN [Idle EXCEPT !.at = "start"] ELSE @[t]]]
  /\ loop' = [loop EXCEPT ![s] = "wait"]
  /\ backoff' = [t \in Thread |->
       IF backoff[t] = "new" /\ t \notin futures[s] THEN "due" ELSE backoff[t]]
  /\ UNCHANGED <<pending, jobs, order, failures, failed, repo, instance, lock, git, bounds>>

(* SIGTERM sets stop_event, seen at the next wait.                         *)
stop(s) ==
  /\ loop[s] = "wait" /\ crashes < MaxCrashes
  /\ crashes' = crashes + 1
  /\ loop' = [loop EXCEPT ![s] = "stopping"]
  /\ UNCHANGED <<rows, repo, instance, futures, worker, lock, git, inputs, faults, operator>>

(* Slip: the instance lock is released before the workers have ended.      *)
release_before_shutdown(s) ==
  /\ loop[s] = "stopping"
  /\ loop' = [loop EXCEPT ![s] = "down"]
  /\ instance' = NoOne
  /\ UNCHANGED <<rows, repo, futures, worker, lock, git, bounds>>

(* executor.shutdown(wait=True), then the instance lock.                   *)
shutdown(s) ==
  /\ loop[s] = "stopping" /\ \A t \in futures[s] : worker[s][t].at = "done"
  /\ loop' = [loop EXCEPT ![s] = "down"]
  /\ futures' = [futures EXCEPT ![s] = {}]
  /\ worker' = [worker EXCEPT ![s] = [t \in Thread |-> Idle]]
  /\ instance' = NoOne
  /\ UNCHANGED <<rows, repo, lock, git, bounds>>

(* The process dies: its flocks go, and whatever Git was doing stops.      *)
Crash(s) ==
  /\ loop[s] # "down" /\ crashes < MaxCrashes
  /\ crashes' = crashes + 1
  /\ loop' = [loop EXCEPT ![s] = "down"]
  /\ futures' = [futures EXCEPT ![s] = {}]
  /\ worker' = [worker EXCEPT ![s] = [t \in Thread |-> Idle]]
  /\ instance' = NoOne
  /\ lock' = [t \in Thread |-> IF lock[t] = s THEN NoOne ELSE lock[t]]
  /\ git' = IF git \in {s} \X Thread THEN NoOne ELSE git
  /\ UNCHANGED <<rows, repo, inputs, faults, operator>>

-----------------------------------------------------------------------------
(* _worker_entry and _drain_workflow, for one thread.                      *)

At(s, t, step) == worker[s][t].at = step

Goto(s, t, step) == worker' = [worker EXCEPT ![s][t].at = step]

(* Without a controller there is no cycle to give up.                      *)
load_configuration(s, t) ==
  /\ At(s, t, "start")
  /\ Goto(s, t, IF t \in Broken THEN "raise_early" ELSE "learn")
  /\ UNCHANGED <<rows, repo, instance, loop, futures, lock, git, bounds>>

(* The drain ended without an exception.                                   *)
EndDrain(s, t) ==
  /\ clear_dispatcher_failure(t)
  /\ worker' = [worker EXCEPT ![s][t] = [Idle EXCEPT !.at = "done"]]

(* A pass of the drain: learning first, without the IssueThread lock.      *)
process_one(s, t) ==
  /\ At(s, t, "learn") /\ worker[s][t].ticks < MaxTicks /\ jobs[t] > 0
  /\ jobs' = [jobs EXCEPT ![t] = @ - 1]
  /\ worker' = [worker EXCEPT ![s][t].ticks = @ + 1]
  /\ UNCHANGED <<pending, order, failures, backoff, failed, repo, instance, loop,
                 futures, lock, git, bounds>>

ticks_exhausted(s, t) ==
  /\ At(s, t, "learn") /\ worker[s][t].ticks = MaxTicks
  /\ EndDrain(s, t)
  /\ UNCHANGED <<pending, jobs, order, failed, repo, instance, loop, futures, lock, git, bounds>>

(* thread_lock is not waited for: a thread somebody else holds is BUSY.    *)
acquire_thread_lock(s, t) ==
  /\ At(s, t, "learn") /\ worker[s][t].ticks < MaxTicks /\ jobs[t] = 0
  /\ IF lock[t] = NoOne
     THEN /\ lock' = [lock EXCEPT ![t] = s] /\ Goto(s, t, "open")
          /\ UNCHANGED <<failures, backoff>>
     ELSE EndDrain(s, t) /\ UNCHANGED lock
  /\ UNCHANGED <<pending, jobs, order, failed, repo, instance, loop, futures, git, bounds>>

Unlock(t) == lock' = [lock EXCEPT ![t] = NoOne]

(* Nothing to do (IDLE), or the tick asks for the worktree.                *)
_advance_locked(s, t) ==
  /\ At(s, t, "open")
  /\ IF pending[t] = 0
     THEN EndDrain(s, t) /\ Unlock(t)
     ELSE Goto(s, t, "wait_git") /\ UNCHANGED <<failures, backoff, lock>>
  /\ UNCHANGED <<pending, jobs, order, failed, repo, instance, loop, futures, git, bounds>>

(* repo_git_lock is waited for.                                            *)
repo_git_lock(s, t) ==
  /\ At(s, t, "wait_git") /\ git = NoOne
  /\ git' = <<s, t>>
  /\ Goto(s, t, "create")
  /\ UNCHANGED <<rows, repo, instance, loop, futures, lock, bounds>>

(* git fetch origin main, which may have moved on.                         *)
Fetch == main' \in main .. MaxMain

(* Slip: whatever is left of an earlier attempt, main is fetched.          *)
refetch_base(s, t) ==
  /\ At(s, t, "create")
  /\ IF record[t] # 0 THEN UNCHANGED main ELSE Fetch
  /\ worker' = [worker EXCEPT ![s][t] =
       [@ EXCEPT !.at = IF record[t] # 0 THEN "work" ELSE IF tree[t] # "none" THEN "save"
                        ELSE IF branch[t] # 0 THEN "attach" ELSE "branch",
                 !.base = IF record[t] # 0 THEN 0 ELSE main']]
  /\ git' = IF record[t] # 0 \/ tree[t] # "none" THEN NoOne ELSE git
  /\ UNCHANGED <<rows, branch, head, tree, record, instance, loop, futures, lock, bounds>>

(* A recorded worktree is opened; an unrecorded one or an orphaned branch  *)
(* is taken over with its HEAD as base; else origin/main is fetched.       *)
_open_or_create(s, t) ==
  /\ At(s, t, "create")
  /\ IF branch[t] # 0 THEN UNCHANGED main ELSE Fetch
  /\ worker' = [worker EXCEPT ![s][t] =
       [@ EXCEPT !.at = IF record[t] # 0 THEN "work" ELSE IF tree[t] # "none" THEN "save"
                        ELSE IF branch[t] # 0 THEN "attach" ELSE "branch",
                 !.base = IF record[t] # 0 THEN 0 ELSE IF branch[t] # 0 THEN head[t] ELSE main']]
  /\ git' = IF record[t] # 0 \/ tree[t] # "none" THEN NoOne ELSE git
  /\ UNCHANGED <<rows, branch, head, tree, record, instance, loop, futures, lock, bounds>>

(* git worktree add: the branch, the directory, its files.                 *)
add_branch(s, t) ==
  /\ At(s, t, "branch")
  /\ branch' = [branch EXCEPT ![t] = worker[s][t].base]
  /\ head' = [head EXCEPT ![t] = worker[s][t].base]
  /\ Goto(s, t, "attach")
  /\ UNCHANGED <<rows, main, tree, record, instance, loop, futures, lock, git, bounds>>

add_directory(s, t) ==
  /\ At(s, t, "attach")
  /\ tree' = [tree EXCEPT ![t] = "partial"]
  /\ Goto(s, t, "checkout")
  /\ UNCHANGED <<rows, main, branch, head, record, instance, loop, futures, lock, git, bounds>>

checkout(s, t) ==
  /\ At(s, t, "checkout")
  /\ tree' = [tree EXCEPT ![t] = "whole"]
  /\ git' = NoOne
  /\ Goto(s, t, "save")
  /\ UNCHANGED <<rows, main, branch, head, record, instance, loop, futures, lock, bounds>>

(* git worktree add fails: the directory is removed, the branch stays.     *)
worktree_add_fails(s, t) ==
  /\ worker[s][t].at \in {"branch", "attach", "checkout"} /\ faults < MaxFaults
  /\ faults' = faults + 1
  /\ tree' = [tree EXCEPT ![t] = "none"]
  /\ git' = NoOne /\ Unlock(t)
  /\ Goto(s, t, "raise")
  /\ UNCHANGED <<rows, main, branch, head, record, instance, loop, futures, inputs, crashes, operator>>

save_thread_workspace(s, t) ==
  /\ At(s, t, "save")
  /\ record' = [record EXCEPT ![t] = worker[s][t].base]
  /\ worker' = [worker EXCEPT ![s][t] = [@ EXCEPT !.at = "work", !.base = 0]]
  /\ UNCHANGED <<rows, main, branch, head, tree, instance, loop, futures, lock, git, bounds>>

(* The rest of the tick commits on the thread's branch; the last one of a  *)
(* cycle is published and leaves a learning job, so the thread is still    *)
(* runnable and the drain goes on.                                         *)
run_driver(s, t) ==
  /\ At(s, t, "work")
  /\ pending' = [pending EXCEPT ![t] = @ - 1]
  /\ jobs' = [jobs EXCEPT ![t] = IF pending[t] = 1 THEN 1 ELSE @]
  /\ head' = [head EXCEPT ![t] = MaxMain + 1]
  /\ Unlock(t)
  /\ worker' = [worker EXCEPT ![s][t] = [@ EXCEPT !.at = "learn", !.ticks = worker[s][t].ticks + 1]]
  /\ UNCHANGED <<order, failures, backoff, failed, main, branch, tree, record, instance,
                 loop, futures, git, bounds>>

driver_raises(s, t) ==
  /\ At(s, t, "work") /\ faults < MaxFaults
  /\ faults' = faults + 1
  /\ Unlock(t)
  /\ Goto(s, t, "raise")
  /\ UNCHANGED <<rows, repo, instance, loop, futures, git, inputs, crashes, operator>>

(* Two transactions: the failure, then giving the cycle up.                *)
worker_failed(s, t) ==
  /\ worker[s][t].at \in {"raise", "raise_early"}
  /\ record_dispatcher_failure(t)
  /\ worker' = [worker EXCEPT ![s][t] =
       [Idle EXCEPT !.at = IF At(s, t, "raise") THEN "give_up" ELSE "done"]]
  /\ UNCHANGED <<pending, jobs, order, failed, repo, instance, loop, futures, lock, git, bounds>>

fail_active_task(s, t) ==
  /\ At(s, t, "give_up")
  /\ failed' = IF failures[t] >= MaxFailures THEN failed \cup {t} ELSE failed
  /\ Goto(s, t, "done")
  /\ UNCHANGED <<pending, jobs, order, failures, backoff, repo, instance, loop, futures,
                 lock, git, bounds>>

-----------------------------------------------------------------------------
(* The operator's commands take the same locks.                            *)

operator_locks(t) ==
  /\ operator < MaxOperator /\ lock[t] = NoOne /\ Cli \notin {lock[u] : u \in Thread}
  /\ operator' = operator + 1
  /\ lock' = [lock EXCEPT ![t] = Cli]
  /\ UNCHANGED <<rows, repo, procs, git, inputs, faults, crashes>>

(* execute opens the thread's recorded worktree under the Git lock.        *)
operator_opens(t) ==
  /\ lock[t] = Cli /\ git = NoOne /\ record[t] # 0
  /\ git' = Cli
  /\ UNCHANGED <<rows, repo, procs, lock, bounds>>

operator_unlocks(t) ==
  /\ lock[t] = Cli
  /\ git' = IF git = Cli THEN NoOne ELSE git
  /\ Unlock(t)
  /\ UNCHANGED <<rows, repo, procs, bounds>>

-----------------------------------------------------------------------------
Loop(s) == _reap(s) \/ _poll(s) \/ _submit(s) \/ shutdown(s)

Draining(s, t) ==
  \/ load_configuration(s, t) \/ process_one(s, t) \/ ticks_exhausted(s, t)
  \/ acquire_thread_lock(s, t) \/ _advance_locked(s, t)
  \/ repo_git_lock(s, t) \/ _open_or_create(s, t)
  \/ add_branch(s, t) \/ add_directory(s, t) \/ checkout(s, t)
  \/ save_thread_workspace(s, t) \/ run_driver(s, t)
  \/ worker_failed(s, t) \/ fail_active_task(s, t)

Next ==
  \/ \E s \in Server : acquire_instance(s) \/ Loop(s) \/ stop(s) \/ Crash(s)
  \/ \E s \in Server, t \in Thread :
       Draining(s, t) \/ driver_raises(s, t) \/ worktree_add_fails(s, t)
  \/ \E t \in Thread :
       BackoffEnds(t) \/ operator_locks(t) \/ operator_opens(t) \/ operator_unlocks(t)

Spec == Init /\ [][Next]_vars

(* A server's loop and its workers go on, time passes, an operator command *)
(* ends, and a server that died or was stopped is started again.           *)
FairSpec ==
  /\ Spec
  /\ WF_vars(\E s \in Server : acquire_instance(s) \/ Loop(s))
  /\ \A t \in Thread : /\ WF_vars(\E s \in Server : Draining(s, t))
                       /\ WF_vars(BackoffEnds(t)) /\ WF_vars(operator_unlocks(t))

-----------------------------------------------------------------------------
Step == InTick \cup {"none", "start", "learn", "raise", "raise_early",
                     "give_up", "done"}

(* Rows and processes have their shape, no more than Workers threads have  *)
(* a worker, and locks are held exactly by the workers inside a tick and   *)
(* inside worktree creation.                                               *)
TypeOK ==
  /\ pending \in [Thread -> Nat] /\ jobs \in [Thread -> 0 .. 1]
  /\ Len(order) = Cardinality(Thread) /\ ToSet(order) = Thread
  /\ failures \in [Thread -> 0 .. MaxFailures]
  /\ backoff \in [Thread -> {"none", "new", "due"}] /\ failed \subseteq Thread
  /\ instance \in Server \cup {NoOne}
  /\ loop \in [Server -> {"down", "poll", "submit", "wait", "stopping"}]
  /\ futures \in [Server -> SUBSET Thread]
  /\ \A s \in Server : Cardinality(futures[s]) <= Workers
  /\ \A s \in Server, t \in Thread :
       /\ worker[s][t].at \in Step /\ worker[s][t].ticks \in 0 .. MaxTicks
       /\ worker[s][t].base \in 0 .. MaxMain + 1
       /\ worker[s][t].at # "none" <=> t \in futures[s]
       /\ lock[t] = s <=> worker[s][t].at \in InTick
       /\ git = <<s, t>> <=> worker[s][t].at \in {"create", "branch", "attach", "checkout"}
  /\ main \in 1 .. MaxMain
  /\ \A t \in Thread : tree[t] # "none" => branch[t] # 0

(* One worker per thread, over all servers ever started on the database:   *)
(* learning runs outside the IssueThread lock and relies on it.            *)
OneDrainer ==
  \A t \in Thread : \A r, s \in Server : t \in futures[r] \cap futures[s] => r = s

(* The recorded base is the commit the issue's branch was created at: no   *)
(* crash, failed command or movement of main between the steps of creation *)
(* changes it, and nothing is committed before it is recorded.             *)
FrozenBase ==
  \A t \in Thread : record[t] # 0 => record[t] = branch[t] /\ tree[t] # "none"

(* Every thread with work is worked on until it waits or is given up, even *)
(* if another one fails on every attempt, is held by an operator, or the   *)
(* server dies.                                                            *)
WorkIsServed ==
  \A t \in Thread \ Broken : pending[t] > 0 ~> (pending[t] = 0 \/ t \in failed)

(* A worktree that an agent works in was checked out completely.           *)
WorktreeIsWhole ==
  \A s \in Server, t \in Thread : At(s, t, "work") => tree[t] = "whole"
=============================================================================
