--------------------------- MODULE DispatcherProofs ---------------------------
(* What Dispatcher promises, for every number of servers, threads, workers,*)
(* faults, deaths and movements of origin/main.                            *)
EXTENDS Dispatcher, FiniteSetTheorems, WellFoundedInduction, TLAPS

WorkerState == [at : Step, ticks : Nat, base : Nat]

Shape ==
  /\ loop \in [Server -> {"down", "poll", "submit", "wait", "stopping"}]
  /\ futures = [s \in Server |-> futures[s]]
  /\ worker \in [Server -> [Thread -> WorkerState]]
  /\ record \in [Thread -> Nat] /\ branch \in [Thread -> Nat] /\ head \in [Thread -> Nat]
  /\ tree \in [Thread -> {"none", "partial", "whole"}]
  /\ main \in Nat \ {0}

(* A server that runs has the instance lock, and only servers that run     *)
(* have futures and workers.                                               *)
Exclusive(s) ==
  /\ loop[s] # "down" => instance = s
  /\ loop[s] = "down" => futures[s] = {} /\ \A t \in Thread : worker[s][t].at = "none"

(* What is left of a thread's worktree at any moment: nothing is recorded  *)
(* before it exists, and as long as nothing is recorded nothing was        *)
(* committed on the branch.                                                *)
Remains(t) ==
  /\ record[t] # 0 => record[t] = branch[t] /\ tree[t] # "none"
  /\ tree[t] # "none" => branch[t] # 0
  /\ record[t] = 0 => head[t] = branch[t]

(* What a worker in the middle of creating it relies on.                   *)
Creating(s, t) ==
  LET w == worker[s][t] IN
  /\ w.at \in {"branch", "attach", "checkout", "save"} => record[t] = 0 /\ w.base # 0
  /\ w.at = "branch" => tree[t] = "none"
  /\ w.at \in {"attach", "checkout", "save"} => branch[t] = w.base
  /\ w.at \in {"checkout", "save"} => tree[t] # "none"
  /\ w.at = "work" => record[t] # 0

DispatcherInv ==
  /\ Shape
  /\ \A s \in Server : Exclusive(s) /\ \A t \in Thread : Creating(s, t)
  /\ \A t \in Thread : Remains(t)

-----------------------------------------------------------------------------
(* A repository nobody has worked on.                                      *)
LEMMA InitHolds == Init => DispatcherInv
<1> SUFFICES ASSUME Init PROVE DispatcherInv
  OBVIOUS
<1>1. Shape
  BY DEF Init, Shape, WorkerState, Step, Idle
<1>2. \A s \in Server : Exclusive(s) /\ \A t \in Thread : Creating(s, t)
  BY DEF Init, Exclusive, Creating, Idle
<1>3. \A t \in Thread : Remains(t)
  BY DEF Init, Remains
<1> QED BY <1>1, <1>2, <1>3 DEF DispatcherInv

(* One server has workers at a time.                                       *)
LEMMA OneRuns ==
  ASSUME DispatcherInv, NEW r \in Server, NEW s \in Server,
         loop[r] # "down", loop[s] # "down"
  PROVE  r = s
  BY DEF DispatcherInv, Exclusive

(* A worker's step: what it does to its own thread is all there is to show.*)
LEMMA WorkerSteps ==
  ASSUME DispatcherInv, NEW s \in Server, NEW t \in Thread, NEW w \in WorkerState,
         worker[s][t].at # "none", worker' = [worker EXCEPT ![s][t] = w],
         UNCHANGED <<instance, loop, futures>>, Shape',
         \A u \in Thread : u # t => /\ record'[u] = record[u] /\ branch'[u] = branch[u]
                                    /\ head'[u] = head[u] /\ tree'[u] = tree[u],
         Remains(t)', Creating(s, t)'
  PROVE  DispatcherInv'
<1>1. loop[s] # "down"
  BY DEF DispatcherInv, Exclusive
<1>2. \A r \in Server, u \in Thread :
        worker'[r][u] = IF r = s /\ u = t THEN w ELSE worker[r][u]
  BY DEF DispatcherInv, Shape
<1>3. \A r \in Server : Exclusive(r)'
  BY <1>1, <1>2 DEF DispatcherInv, Exclusive
<1>4. \A u \in Thread : Remains(u)'
  BY DEF DispatcherInv, Remains
<1>5. ASSUME NEW r \in Server, NEW u \in Thread PROVE Creating(r, u)'
  <2>1. CASE r = s /\ u = t
    BY <2>1
  <2>2. CASE u # t
    BY <1>2, <2>2 DEF DispatcherInv, Creating
  <2>3. CASE r # s /\ u = t
    <3>1. loop[r] = "down"
      BY <1>1, <2>3, OneRuns
    <3>2. worker'[r][u].at = "none"
      BY <1>2, <2>3, <3>1 DEF DispatcherInv, Exclusive
    <3> QED BY <3>2 DEF Creating
  <2> QED BY <2>1, <2>2, <2>3
<1> QED BY <1>3, <1>4, <1>5 DEF DispatcherInv

(* Steps of a worker that leave the repository alone.                      *)
LEMMA QuietSteps ==
  ASSUME DispatcherInv, NEW s \in Server, NEW t \in Thread, NEW w \in WorkerState,
         worker[s][t].at # "none", worker' = [worker EXCEPT ![s][t] = w],
         UNCHANGED <<instance, loop, futures, repo>>,
         w.at \notin {"branch", "attach", "checkout", "save", "work"}
  PROVE  DispatcherInv'
<1>1. UNCHANGED <<main, branch, head, tree, record>>
  BY DEF repo
<1>2. Shape'
  BY <1>1 DEF DispatcherInv, Shape
<1>3. worker'[s][t] = w
  BY DEF DispatcherInv, Shape
<1>4. Remains(t)' /\ Creating(s, t)'
  BY <1>1, <1>3 DEF DispatcherInv, Remains, Creating
<1> QED BY <1>1, <1>2, <1>4, WorkerSteps

(* Goto, as the replacement of a worker's state.                           *)
LEMMA Goes ==
  ASSUME DispatcherInv, NEW s \in Server, NEW t \in Thread, NEW step \in Step, Goto(s, t, step)
  PROVE  LET w == [worker[s][t] EXCEPT !.at = step]
         IN  /\ worker' = [worker EXCEPT ![s][t] = w]
             /\ w \in WorkerState /\ w.at = step /\ w.base = worker[s][t].base
<1>1. worker[s][t] \in WorkerState
  BY DEF DispatcherInv, Shape
<1>2. worker' = [worker EXCEPT ![s][t] = [worker[s][t] EXCEPT !.at = step]]
  BY DEF Goto
<1> QED BY <1>1, <1>2 DEF WorkerState

(* Such a step that only moves the worker on.                              *)
LEMMA QuietGoes ==
  ASSUME DispatcherInv, NEW s \in Server, NEW t \in Thread, NEW step \in Step, Goto(s, t, step),
         worker[s][t].at # "none", UNCHANGED <<instance, loop, futures, repo>>,
         step \notin {"branch", "attach", "checkout", "save", "work"}
  PROVE  DispatcherInv'
<1> DEFINE w == [worker[s][t] EXCEPT !.at = step]
<1>1. worker' = [worker EXCEPT ![s][t] = w] /\ w \in WorkerState /\ w.at = step
  BY Goes
<1> HIDE DEF w
<1> QED BY <1>1, QuietSteps

(* EndDrain leaves a finished worker.                                      *)
LEMMA Ends ==
  ASSUME NEW step \in Step
  PROVE  LET w == [Idle EXCEPT !.at = step] IN w \in WorkerState /\ w.at = step
<1>1. Idle \in WorkerState
  BY DEF Idle, WorkerState, Step
<1> QED BY <1>1 DEF WorkerState

-----------------------------------------------------------------------------
(* The drain, outside worktree creation.                                   *)
LEMMA Drains ==
  ASSUME DispatcherInv, NEW s \in Server, NEW t \in Thread,
         \/ load_configuration(s, t) \/ process_one(s, t) \/ ticks_exhausted(s, t)
         \/ acquire_thread_lock(s, t) \/ _advance_locked(s, t) \/ repo_git_lock(s, t)
         \/ driver_raises(s, t) \/ worker_failed(s, t) \/ fail_active_task(s, t)
  PROVE  DispatcherInv'
<1> USE DEF At
<1>0. worker[s][t] \in WorkerState
  BY DEF DispatcherInv, Shape
<1>1. CASE load_configuration(s, t)
  <2> DEFINE step == IF t \in Broken THEN "raise_early" ELSE "learn"
  <2>1. Goto(s, t, step) /\ worker[s][t].at # "none"
          /\ UNCHANGED <<instance, loop, futures, repo>>
    BY <1>1 DEF load_configuration
  <2>2. step \in Step /\ step \notin {"branch", "attach", "checkout", "save", "work"}
    BY DEF Step
  <2> HIDE DEF step
  <2> QED BY <2>1, <2>2, QuietGoes
<1>2. CASE process_one(s, t)
  <2> DEFINE w == [worker[s][t] EXCEPT !.ticks = @ + 1]
  <2>1. w \in WorkerState /\ w.at = worker[s][t].at
    BY <1>0 DEF WorkerState
  <2>2. /\ worker' = [worker EXCEPT ![s][t] = w] /\ worker[s][t].at = "learn"
        /\ UNCHANGED <<instance, loop, futures, repo>>
    BY <1>2 DEF process_one
  <2> HIDE DEF w
  <2> QED BY <2>1, <2>2, QuietSteps
<1>3. ASSUME EndDrain(s, t), worker[s][t].at # "none", UNCHANGED <<instance, loop, futures, repo>>
      PROVE  DispatcherInv'
  <2> DEFINE w == [Idle EXCEPT !.at = "done"]
  <2>1. w \in WorkerState /\ w.at = "done"
    BY Ends DEF Step
  <2>2. worker' = [worker EXCEPT ![s][t] = w]
    BY <1>3 DEF EndDrain
  <2> HIDE DEF w
  <2> QED BY <1>3, <2>1, <2>2, QuietSteps
<1>4. ASSUME NEW step \in {"open", "wait_git", "create", "raise", "done"}, Goto(s, t, step),
             worker[s][t].at # "none", UNCHANGED <<instance, loop, futures, repo>>
      PROVE  DispatcherInv'
  <2>1. step \in Step /\ step \notin {"branch", "attach", "checkout", "save", "work"}
    BY DEF Step, InTick
  <2> QED BY <1>4, <2>1, QuietGoes
<1>5. CASE ticks_exhausted(s, t)
  BY <1>3, <1>5 DEF ticks_exhausted
<1>6. CASE acquire_thread_lock(s, t)
  BY <1>3, <1>4, <1>6 DEF acquire_thread_lock
<1>7. CASE _advance_locked(s, t)
  BY <1>3, <1>4, <1>7 DEF _advance_locked
<1>8. CASE repo_git_lock(s, t)
  BY <1>4, <1>8 DEF repo_git_lock
<1>9. CASE driver_raises(s, t)
  BY <1>4, <1>9 DEF driver_raises
<1>10. CASE fail_active_task(s, t)
  BY <1>4, <1>10 DEF fail_active_task
<1>11. CASE worker_failed(s, t)
  <2> DEFINE step == IF worker[s][t].at = "raise" THEN "give_up" ELSE "done"
             w == [Idle EXCEPT !.at = step]
  <2>1. step \in Step /\ step \notin {"branch", "attach", "checkout", "save", "work"}
    BY DEF Step
  <2>2. worker' = [worker EXCEPT ![s][t] = w] /\ worker[s][t].at # "none"
          /\ UNCHANGED <<instance, loop, futures, repo>>
    BY <1>11 DEF worker_failed
  <2> HIDE DEF step
  <2>3. w \in WorkerState /\ w.at = step
    BY <2>1, Ends
  <2> QED BY <2>1, <2>2, <2>3, QuietSteps
<1> QED BY <1>1, <1>2, <1>5, <1>6, <1>7, <1>8, <1>9, <1>10, <1>11

-----------------------------------------------------------------------------
(* Creating a worktree, step by step.                                      *)
LEMMA Opens ==
  ASSUME DispatcherInv, NEW s \in Server, NEW t \in Thread, _open_or_create(s, t)
  PROVE  DispatcherInv'
<1> DEFINE step == IF record[t] # 0 THEN "work" ELSE IF tree[t] # "none" THEN "save"
                   ELSE IF branch[t] # 0 THEN "attach" ELSE "branch"
           base == IF record[t] # 0 THEN 0 ELSE IF branch[t] # 0 THEN head[t] ELSE main'
           w == [worker[s][t] EXCEPT !.at = step, !.base = base]
<1>1. /\ worker[s][t] \in WorkerState /\ Shape /\ Remains(t)
      /\ worker[s][t].at = "create" /\ worker' = [worker EXCEPT ![s][t] = w]
      /\ UNCHANGED <<instance, loop, futures, branch, head, tree, record>>
  BY DEF DispatcherInv, Shape, _open_or_create, At
<1>2. main' \in Nat \ {0}
  BY <1>1, MainAssumption DEF Shape, _open_or_create, Fetch
<1>3. step \in Step /\ base \in Nat
  BY <1>1, <1>2 DEF Shape, Step, InTick
<1>4. w \in WorkerState /\ w.at = step /\ w.base = base
  <2> HIDE DEF step, base
  <2> QED BY <1>1, <1>3 DEF WorkerState
<1>5. record[t] \in Nat /\ branch[t] \in Nat /\ head[t] \in Nat
  BY <1>1 DEF Shape
<1>6. Shape'
  <2> HIDE DEF w
  <2> QED BY <1>1, <1>2, <1>4 DEF Shape
<1>7. worker'[s][t] = w
  <2> HIDE DEF w
  <2> QED BY <1>1, <1>4 DEF Shape
<1>8. Remains(t)'
  BY <1>1 DEF Remains
<1>9. Creating(s, t)'
  <2> HIDE DEF w
  <2> QED BY <1>1, <1>2, <1>4, <1>5, <1>7 DEF Remains, Creating
<1> HIDE DEF w
<1> QED BY <1>1, <1>4, <1>6, <1>8, <1>9, WorkerSteps

(* git worktree add, its failure included, and the row.                    *)
LEMMA Creates ==
  ASSUME DispatcherInv, NEW s \in Server, NEW t \in Thread,
         \/ add_branch(s, t) \/ add_directory(s, t) \/ checkout(s, t)
         \/ worktree_add_fails(s, t)
  PROVE  DispatcherInv'
<1> DEFINE step == IF add_branch(s, t) THEN "attach" ELSE IF add_directory(s, t) THEN "checkout"
                   ELSE IF checkout(s, t) THEN "save" ELSE "raise"
           w == [worker[s][t] EXCEPT !.at = step]
<1>1. /\ worker[s][t] \in WorkerState /\ Shape /\ Remains(t) /\ Creating(s, t)
      /\ record[t] \in Nat /\ branch[t] \in Nat /\ head[t] \in Nat
  BY DEF DispatcherInv, Shape
<1>2. /\ Goto(s, t, step) /\ worker[s][t].at # "none"
      /\ UNCHANGED <<instance, loop, futures, record, main>>
  BY DEF add_branch, add_directory, checkout, worktree_add_fails, At
<1>3. step \in Step
  BY DEF Step, InTick
<1>4. /\ worker' = [worker EXCEPT ![s][t] = w]
      /\ w \in WorkerState /\ w.at = step /\ w.base = worker[s][t].base
  <2> HIDE DEF step
  <2> QED BY <1>2, <1>3, Goes
<1>5. /\ branch' = IF add_branch(s, t) THEN [branch EXCEPT ![t] = worker[s][t].base] ELSE branch
      /\ head' = IF add_branch(s, t) THEN [head EXCEPT ![t] = worker[s][t].base] ELSE head
      /\ tree' = [tree EXCEPT ![t] = IF add_branch(s, t) THEN @
                                     ELSE IF add_directory(s, t) THEN "partial"
                                     ELSE IF checkout(s, t) THEN "whole" ELSE "none"]
  <2>1. tree = [tree EXCEPT ![t] = tree[t]]
    BY <1>1 DEF Shape
  <2> QED BY <2>1 DEF add_branch, add_directory, checkout, worktree_add_fails, At
<1>6. /\ record[t] = 0 /\ worker[s][t].base # 0 /\ worker[s][t].base \in Nat
      /\ add_directory(s, t) \/ checkout(s, t) => branch[t] = worker[s][t].base
      /\ add_branch(s, t) => tree[t] = "none"
  BY <1>1 DEF Creating, WorkerState, add_branch, add_directory, checkout, worktree_add_fails, At
<1>7. worker'[s][t] = w
  <2> HIDE DEF w
  <2> QED BY <1>1, <1>4 DEF Shape
<1> HIDE DEF w
<1>8. Shape'
  <2>1. branch' \in [Thread -> Nat] /\ head' \in [Thread -> Nat]
    BY <1>1, <1>5, <1>6 DEF Shape
  <2>2. tree' \in [Thread -> {"none", "partial", "whole"}]
    BY <1>1, <1>5 DEF Shape
  <2>3. worker' \in [Server -> [Thread -> WorkerState]]
    BY <1>1, <1>4 DEF Shape
  <2> QED BY <1>1, <1>2, <2>1, <2>2, <2>3 DEF Shape
<1>9. Remains(t)'
  <2>1. record'[t] = 0 /\ head'[t] = branch'[t]
    BY <1>1, <1>2, <1>5, <1>6 DEF Shape, Remains
  <2>2. tree'[t] # "none" => branch'[t] # 0
    BY <1>1, <1>5, <1>6 DEF Shape
  <2> QED BY <2>1, <2>2 DEF Remains
<1>10. Creating(s, t)'
  BY <1>1, <1>2, <1>4, <1>5, <1>6, <1>7 DEF Shape, Creating
<1>11. \A u \in Thread : u # t => /\ record'[u] = record[u] /\ branch'[u] = branch[u]
                                  /\ head'[u] = head[u] /\ tree'[u] = tree[u]
  BY <1>1, <1>2, <1>5 DEF Shape
<1> QED BY <1>2, <1>4, <1>8, <1>9, <1>10, <1>11, WorkerSteps

(* The row is written, with the commit the branch was created at.          *)
LEMMA Saves ==
  ASSUME DispatcherInv, NEW s \in Server, NEW t \in Thread, save_thread_workspace(s, t)
  PROVE  DispatcherInv'
<1> DEFINE w == [worker[s][t] EXCEPT !.at = "work", !.base = 0]
<1>1. /\ worker[s][t] \in WorkerState /\ Shape /\ Remains(t) /\ Creating(s, t)
      /\ worker[s][t].at = "save" /\ worker' = [worker EXCEPT ![s][t] = w]
      /\ record' = [record EXCEPT ![t] = worker[s][t].base]
      /\ UNCHANGED <<instance, loop, futures, main, branch, head, tree>>
  BY DEF DispatcherInv, Shape, save_thread_workspace, At
<1>2. w \in WorkerState /\ w.at = "work"
  BY <1>1 DEF WorkerState, Step, InTick
<1> HIDE DEF w
<1>3. /\ worker[s][t].base \in Nat /\ worker[s][t].base # 0
      /\ branch[t] = worker[s][t].base /\ tree[t] # "none"
  BY <1>1 DEF WorkerState, Creating
<1>4. worker'[s][t] = w /\ record'[t] = worker[s][t].base
  BY <1>1, <1>2 DEF Shape
<1>5. Shape'
  BY <1>1, <1>2, <1>3 DEF Shape
<1>6. Remains(t)'
  BY <1>1, <1>3, <1>4 DEF Remains
<1>7. Creating(s, t)'
  BY <1>2, <1>3, <1>4 DEF Creating
<1>8. \A u \in Thread : u # t => record'[u] = record[u]
  BY <1>1 DEF Shape
<1> QED BY <1>1, <1>2, <1>5, <1>6, <1>7, <1>8, WorkerSteps

(* A tick commits on a branch whose base is recorded.                      *)
LEMMA Commits ==
  ASSUME DispatcherInv, NEW s \in Server, NEW t \in Thread, run_driver(s, t)
  PROVE  DispatcherInv'
<1> DEFINE w == [worker[s][t] EXCEPT !.at = "learn", !.ticks = worker[s][t].ticks + 1]
<1>1. /\ worker[s][t] \in WorkerState /\ Shape /\ Remains(t) /\ Creating(s, t)
      /\ worker[s][t].at = "work" /\ worker' = [worker EXCEPT ![s][t] = w]
      /\ head' = [head EXCEPT ![t] = MaxMain + 1]
      /\ UNCHANGED <<instance, loop, futures, main, branch, tree, record>>
  BY DEF DispatcherInv, Shape, run_driver, At
<1>2. w \in WorkerState /\ w.at = "learn"
  <2> DEFINE n == worker[s][t].ticks + 1
  <2>1. "learn" \in Step /\ n \in Nat
    BY <1>1 DEF Step, WorkerState
  <2>2. worker[s][t] \in WorkerState
    BY <1>1
  <2> HIDE DEF n
  <2>3. [worker[s][t] EXCEPT !.at = "learn", !.ticks = n] \in WorkerState
    BY <2>1, <2>2 DEF WorkerState
  <2>4. [worker[s][t] EXCEPT !.at = "learn", !.ticks = n].at = "learn"
    BY <2>2 DEF WorkerState
  <2> QED BY <2>3, <2>4 DEF n
<1> HIDE DEF w
<1>3. record[t] # 0
  BY <1>1 DEF Creating
<1>4. worker'[s][t] = w
  BY <1>1, <1>2 DEF Shape
<1>5. Shape'
  BY <1>1, <1>2, MainAssumption DEF Shape
<1>6. Remains(t)'
  BY <1>1, <1>3 DEF Remains
<1>7. Creating(s, t)'
  BY <1>2, <1>4 DEF Creating
<1>8. \A u \in Thread : u # t => head'[u] = head[u]
  BY <1>1 DEF Shape
<1> QED BY <1>1, <1>2, <1>5, <1>6, <1>7, <1>8, WorkerSteps

-----------------------------------------------------------------------------
(* Steps of a server's loop: only its own workers change, to ones that     *)
(* have not reached their worktree or to none, and the repository does not.*)
LEMMA LoopSteps ==
  ASSUME DispatcherInv, NEW s \in Server, NEW ws \in [Thread -> WorkerState],
         worker' = [worker EXCEPT ![s] = ws], UNCHANGED repo,
         \A t \in Thread : \/ ws[t] = worker[s][t]
                           \/ ws[t].at \notin {"branch", "attach", "checkout", "save", "work"},
         loop' \in [Server -> {"down", "poll", "submit", "wait", "stopping"}],
         futures' = [r \in Server |-> futures'[r]],
         \A r \in Server : Exclusive(r)'
  PROVE  DispatcherInv'
<1>1. UNCHANGED <<main, branch, head, tree, record>>
  BY DEF repo
<1>2. Shape'
  BY <1>1 DEF DispatcherInv, Shape
<1>3. \A r \in Server : worker'[r] = IF r = s THEN ws ELSE worker[r]
  BY DEF DispatcherInv, Shape
<1>4. \A r \in Server, t \in Thread : Creating(r, t)'
  BY <1>1, <1>3 DEF DispatcherInv, Creating
<1>5. \A t \in Thread : Remains(t)'
  BY <1>1 DEF DispatcherInv, Remains
<1> QED BY <1>2, <1>4, <1>5 DEF DispatcherInv

(* The instance lock is free only when no server runs.                     *)
LEMMA Acquires ==
  ASSUME DispatcherInv, NEW s \in Server, acquire_instance(s)
  PROVE  DispatcherInv'
<1>1. \A r \in Server : loop[r] = "down"
  BY HolderAssumption DEF DispatcherInv, Exclusive, acquire_instance
<1>2. /\ instance' = s /\ loop' = [loop EXCEPT ![s] = "poll"]
      /\ UNCHANGED <<futures, worker, repo>>
  BY DEF acquire_instance
<1>3. Shape
  BY DEF DispatcherInv
<1>4. \A r \in Server : loop'[r] = IF r = s THEN "poll" ELSE loop[r]
  BY <1>2, <1>3 DEF Shape
<1>5. \A r \in Server : Exclusive(r)'
  BY <1>1, <1>2, <1>4 DEF DispatcherInv, Exclusive
<1>6. worker' = [worker EXCEPT ![s] = worker[s]] /\ worker[s] \in [Thread -> WorkerState]
  BY <1>2, <1>3 DEF Shape
<1>7. /\ loop' \in [Server -> {"down", "poll", "submit", "wait", "stopping"}]
      /\ futures' = [r \in Server |-> futures'[r]]
  BY <1>2, <1>3 DEF Shape
<1> QED BY <1>2, <1>5, <1>6, <1>7, LoopSteps

(* A running server's pass: it keeps the instance lock, and every other    *)
(* server is down.                                                         *)
LEMMA Passes ==
  ASSUME DispatcherInv, NEW s \in Server,
         _reap(s) \/ _poll(s) \/ _submit(s) \/ stop(s)
  PROVE  DispatcherInv'
<1>1. Shape /\ loop[s] # "down"
  BY DEF DispatcherInv, _reap, _poll, _submit, stop
<1>2. PICK here \in {"poll", "submit", "wait", "stopping"} : loop' = [loop EXCEPT ![s] = here]
  BY DEF _reap, _poll, _submit, stop
<1>3. UNCHANGED <<instance, repo>>
  BY DEF _reap, _poll, _submit, stop
<1>4. PICK fs : futures' = [futures EXCEPT ![s] = fs]
  <2>1. futures = [futures EXCEPT ![s] = futures[s]]
    BY <1>1 DEF Shape
  <2>2. CASE _reap(s)
    BY <2>2 DEF _reap
  <2>3. CASE _submit(s)
    BY <2>3 DEF _submit
  <2>4. CASE _poll(s) \/ stop(s)
    BY <2>1, <2>4 DEF _poll, stop
  <2> QED BY <2>2, <2>3, <2>4
<1>5. Idle \in WorkerState /\ Idle.at = "none"
  BY DEF Idle, WorkerState, Step
<1>6. PICK ws \in [Thread -> WorkerState] :
        /\ worker' = [worker EXCEPT ![s] = ws]
        /\ \A t \in Thread : ws[t] = worker[s][t] \/ ws[t].at \in {"none", "start"}
  <2>0. worker[s] \in [Thread -> WorkerState] /\ worker = [worker EXCEPT ![s] = worker[s]]
    BY <1>1 DEF Shape
  <2>1. CASE _reap(s)
    <3> DEFINE done == {t \in futures[s] : worker[s][t].at = "done"}
               ws == [t \in Thread |-> IF t \in done THEN Idle ELSE worker[s][t]]
    <3>1. worker' = [worker EXCEPT ![s] = ws]
      BY <2>1, <1>1 DEF _reap, Shape
    <3> HIDE DEF done
    <3>2. ws \in [Thread -> WorkerState]
      BY <1>5, <2>0
    <3>3. \A t \in Thread : ws[t] = worker[s][t] \/ ws[t].at \in {"none", "start"}
      BY <1>5
    <3> QED BY <3>1, <3>2, <3>3
  <2>2. CASE _submit(s)
    <3> DEFINE waiting == {i \in runnable_thread_ids : order[i] \notin futures[s]}
               free == Workers - Cardinality(futures[s])
               picked == {order[i] : i \in FirstOf(waiting, free)}
               fresh == [Idle EXCEPT !.at = "start"]
               ws == [t \in Thread |-> IF t \in picked THEN fresh ELSE worker[s][t]]
    <3>1. worker' = [worker EXCEPT ![s] = [t \in Thread |-> IF t \in picked THEN fresh ELSE @[t]]]
      BY <2>2 DEF _submit
    <3>2. fresh \in WorkerState /\ fresh.at = "start"
      BY Ends DEF Step
    <3> HIDE DEF waiting, free, picked, fresh
    <3>3. worker' = [worker EXCEPT ![s] = ws]
      BY <1>1, <3>1 DEF Shape
    <3>4. ws \in [Thread -> WorkerState]
      BY <2>0, <3>2
    <3>5. \A t \in Thread : ws[t] = worker[s][t] \/ ws[t].at \in {"none", "start"}
      BY <3>2
    <3> QED BY <3>3, <3>4, <3>5
  <2>3. CASE _poll(s) \/ stop(s)
    <3>1. worker' = worker
      BY <2>3 DEF _poll, stop
    <3> QED BY <2>0, <3>1
  <2> QED BY <2>1, <2>2, <2>3
<1>7. /\ \A r \in Server : loop'[r] = IF r = s THEN here ELSE loop[r]
      /\ \A r \in Server : r # s => futures'[r] = futures[r]
      /\ \A r \in Server : r # s => worker'[r] = worker[r]
  BY <1>1, <1>2, <1>4, <1>6 DEF Shape
<1>8. \A r \in Server : Exclusive(r)'
  BY <1>1, <1>2, <1>3, <1>7 DEF DispatcherInv, Exclusive
<1>9. /\ loop' \in [Server -> {"down", "poll", "submit", "wait", "stopping"}]
      /\ futures' = [r \in Server |-> futures'[r]]
  BY <1>1, <1>2, <1>4 DEF Shape
<1> QED BY <1>3, <1>6, <1>8, <1>9, LoopSteps

(* A server that ends or dies leaves neither futures nor workers.          *)
LEMMA Leaves ==
  ASSUME DispatcherInv, NEW s \in Server, shutdown(s) \/ Crash(s)
  PROVE  DispatcherInv'
<1> DEFINE ws == [t \in Thread |-> Idle]
<1>1. Shape /\ loop[s] # "down"
  BY DEF DispatcherInv, shutdown, Crash
<1>2. /\ instance' = NoOne /\ loop' = [loop EXCEPT ![s] = "down"]
      /\ futures' = [futures EXCEPT ![s] = {}] /\ worker' = [worker EXCEPT ![s] = ws]
      /\ UNCHANGED repo
  BY DEF shutdown, Crash
<1>3. Idle \in WorkerState /\ Idle.at = "none"
  BY DEF Idle, WorkerState, Step
<1>4. ws \in [Thread -> WorkerState] /\ \A t \in Thread : ws[t].at = "none"
  BY <1>3
<1> HIDE DEF ws
<1>5. \A r \in Server : r # s => loop[r] = "down"
  BY <1>1, OneRuns
<1>6. \A r \in Server : /\ loop'[r] = "down"
                        /\ futures'[r] = IF r = s THEN {} ELSE futures[r]
                        /\ worker'[r] = IF r = s THEN ws ELSE worker[r]
  BY <1>1, <1>2, <1>5 DEF Shape
<1>7. \A r \in Server : Exclusive(r)'
  BY <1>4, <1>5, <1>6 DEF DispatcherInv, Exclusive
<1>8. /\ loop' \in [Server -> {"down", "poll", "submit", "wait", "stopping"}]
      /\ futures' = [r \in Server |-> futures'[r]]
  BY <1>1, <1>2 DEF Shape
<1> QED BY <1>2, <1>4, <1>7, <1>8, LoopSteps

(* The operator and the clock leave servers and repository alone.          *)
LEMMA Idles ==
  ASSUME DispatcherInv, UNCHANGED <<repo, procs>>
  PROVE  DispatcherInv'
<1>1. UNCHANGED <<instance, loop, futures, worker, main, branch, head, tree, record>>
  BY DEF repo, procs
<1>2. Shape'
  BY <1>1 DEF DispatcherInv, Shape
<1>3. \A s \in Server : Exclusive(s)' /\ \A t \in Thread : Creating(s, t)'
  BY <1>1 DEF DispatcherInv, Exclusive, Creating
<1>4. \A t \in Thread : Remains(t)'
  BY <1>1 DEF DispatcherInv, Remains
<1> QED BY <1>2, <1>3, <1>4 DEF DispatcherInv

-----------------------------------------------------------------------------
(* Every step of every server, worker and operator keeps the invariant.    *)
THEOREM DispatcherInductive == Spec => []DispatcherInv
<1>1. Init => DispatcherInv
  BY InitHolds
<1>2. DispatcherInv /\ [Next]_vars => DispatcherInv'
  <2> SUFFICES ASSUME DispatcherInv, [Next]_vars PROVE DispatcherInv'
    OBVIOUS
  <2>1. ASSUME NEW s \in Server, acquire_instance(s) \/ Loop(s) \/ stop(s) \/ Crash(s)
        PROVE  DispatcherInv'
    BY <2>1, Acquires, Passes, Leaves DEF Loop
  <2>2. ASSUME NEW s \in Server, NEW t \in Thread,
               Draining(s, t) \/ driver_raises(s, t) \/ worktree_add_fails(s, t)
        PROVE  DispatcherInv'
    BY <2>2, Drains, Opens, Creates, Saves, Commits DEF Draining
  <2>3. ASSUME NEW t \in Thread,
               BackoffEnds(t) \/ operator_locks(t) \/ operator_opens(t) \/ operator_unlocks(t)
        PROVE  DispatcherInv'
    <3>1. UNCHANGED <<repo, procs>>
      BY <2>3 DEF BackoffEnds, operator_locks, operator_opens, operator_unlocks
    <3> QED BY <3>1, Idles
  <2>4. CASE UNCHANGED vars
    BY <2>4, Idles DEF vars
  <2> QED BY <2>1, <2>2, <2>3, <2>4 DEF Next
<1> QED BY <1>1, <1>2, PTL DEF Spec

(* Whatever servers are started on the database, stopped or killed, no two *)
(* of them ever have a worker for one thread: run() takes the instance     *)
(* lock before its first pass and keeps it until its pool has ended.       *)
THEOREM ServersStayExclusive == Spec => []OneDrainer
<1>1. DispatcherInv => OneDrainer
  BY DEF DispatcherInv, Exclusive, OneDrainer
<1> QED BY <1>1, DispatcherInductive, PTL

(* The recorded base commit is the one the branch was created at, wherever *)
(* a creation was interrupted and however far main moved: an unrecorded    *)
(* worktree or branch is taken over at its HEAD, and Remains says that     *)
(* nothing was committed on it before the row.                             *)
THEOREM BaseStaysFrozen == Spec => []FrozenBase
<1>1. DispatcherInv => FrozenBase
  BY DEF DispatcherInv, Remains, FrozenBase
<1> QED BY <1>1, DispatcherInductive, PTL

-----------------------------------------------------------------------------
(* A set of positions has a last one.                                      *)
LEMMA LastOne ==
  ASSUME NEW m \in Nat, NEW K \in SUBSET (1 .. m), K # {}
  PROVE  \E k \in K : \A i \in K : i <= k
<1> DEFINE R == {p \in Nat \X Nat : p[1] < p[2]}
           E == {m - i : i \in K}
<1>1. IsWellFoundedOn(R, Nat)
  BY NatLessThanWellFounded DEF OpToRel
<1>2. \A d, c \in Nat : d < c => <<d, c>> \in R
  OBVIOUS
<1>3. E \in SUBSET Nat /\ E # {}
  <2>1. \A i \in K : i \in Nat /\ m - i \in Nat
    OBVIOUS
  <2> QED BY <2>1
<1> HIDE DEF R
<1>4. PICK e \in E : \A d \in E : ~(<<d, e>> \in R)
  BY <1>1, <1>3, WFMin, Zenon
<1>5. PICK k \in K : e = m - k
  BY <1>4
<1>6. \A i \in K : i <= k
  <2> SUFFICES ASSUME NEW i \in K PROVE i <= k
    OBVIOUS
  <2>1. m - i \in E /\ m - i \in Nat /\ m - k \in Nat
    OBVIOUS
  <2>2. ~(m - i < m - k)
    BY <1>2, <1>4, <1>5, <2>1
  <2> QED BY <2>2
<1> QED BY <1>6

(* There are at most n of them among the first n.                          *)
LEMMA FirstOfFits ==
  ASSUME NEW m \in Nat, NEW K \in SUBSET (1 .. m), NEW n \in Nat
  PROVE  /\ FirstOf(K, n) \subseteq K /\ IsFiniteSet(FirstOf(K, n))
         /\ Cardinality(FirstOf(K, n)) <= n
<1> DEFINE F == FirstOf(K, n)
<1>1. F \subseteq K /\ F \in SUBSET (1 .. m)
  BY DEF FirstOf
<1>2. IsFiniteSet(1 .. m)
  BY FS_Interval
<1>3. IsFiniteSet(F) /\ IsFiniteSet(K)
  BY <1>1, <1>2, FS_Subset
<1>4. CASE F = {}
  BY <1>3, <1>4, FS_EmptySet
<1>5. CASE F # {}
  <2>1. PICK k \in F : \A i \in F : i <= k
    BY <1>1, <1>5, LastOne
  <2> DEFINE U == {j \in K : j <= k}
  <2>2. F \subseteq U
    BY <1>1, <2>1
  <2>3. Cardinality(U) <= n
    BY DEF FirstOf
  <2>4. IsFiniteSet(U)
    BY <1>3, FS_Subset
  <2>5. Cardinality(F) <= Cardinality(U) /\ Cardinality(F) \in Nat /\ Cardinality(U) \in Nat
    BY <1>3, <2>2, <2>4, FS_Subset, FS_CardinalityType
  <2> HIDE DEF U, F
  <2> QED BY <1>1, <1>3, <2>3, <2>5 DEF F
<1> QED BY <1>1, <1>3, <1>4, <1>5

(* The threads, each in its place.                                         *)
Listed == /\ order \in [1 .. Cardinality(Thread) -> Thread]
          /\ ToSet(order) = Thread /\ Len(order) = Cardinality(Thread)

LEMMA ListedAtFirst ==
  ASSUME order = SetToSeq(Thread)
  PROVE  Listed
<1> DEFINE n == Cardinality(Thread)
<1>1. IsFiniteSet(Thread) /\ n \in Nat /\ ExistsBijection(1 .. n, Thread)
  BY ThreadAssumption, FS_CardinalityType
<1>2. \E g \in [1 .. n -> Thread] : IsInjective(g)
  BY <1>1 DEF ExistsBijection, Bijection, Injection
<1>3. order \in [1 .. n -> Thread] /\ IsInjective(order)
  BY <1>2 DEF SetToSeq
<1>4. IsFiniteSet(1 .. n) /\ Cardinality(1 .. n) = n
  BY <1>1, FS_Interval
<1> HIDE DEF n
<1>5. order \in Surjection(1 .. n, Thread)
  BY <1>1, <1>3, <1>4, FS_Injection DEF n, Injection
<1>6. Len(order) = n
  BY <1>1, <1>3
<1>7. ToSet(order) = Thread
  BY <1>3, <1>5 DEF Surjection, ToSet
<1> QED BY <1>3, <1>6, <1>7 DEF n, Listed

(* A thread that moves to the end keeps the others in the list.            *)
LEMMA ListedLater ==
  ASSUME Listed, NEW i \in DOMAIN order,
         order' = [j \in DOMAIN order |-> order[Later(i, j)]]
  PROVE  Listed'
<1>1. PICK n \in Nat : n = Cardinality(Thread)
  BY ThreadAssumption, FS_CardinalityType
<1>2. /\ order \in [1 .. n -> Thread] /\ DOMAIN order = 1 .. n /\ i \in 1 .. n
      /\ Len(order) = n /\ ToSet(order) = Thread
  BY <1>1 DEF Listed
<1>3. \A j \in 1 .. n : Later(i, j) \in 1 .. n
  BY <1>2 DEF Later
<1>4. order' \in [1 .. n -> Thread] /\ DOMAIN order' = 1 .. n
  BY <1>2, <1>3
<1>5. Len(order') = n
  BY <1>4
<1>6. ASSUME NEW t \in Thread PROVE t \in ToSet(order')
  <2>1. PICK k \in 1 .. n : order[k] = t
    BY <1>2 DEF ToSet
  <2> DEFINE j == IF k < i THEN k ELSE IF k = i THEN n ELSE k - 1
  <2>2. j \in 1 .. n /\ Later(i, j) = k
    BY <1>2 DEF Later
  <2> HIDE DEF j
  <2>3. order'[j] = t
    BY <1>2, <2>1, <2>2
  <2> QED BY <1>4, <2>2, <2>3 DEF ToSet
<1>7. ToSet(order') \subseteq Thread
  BY <1>4 DEF ToSet
<1> QED BY <1>1, <1>4, <1>5, <1>6, <1>7 DEF Listed

-----------------------------------------------------------------------------
(* The rows and what is in the repository.                                 *)
Rows ==
  /\ pending \in [Thread -> Nat] /\ jobs \in [Thread -> 0 .. 1]
  /\ failures \in [Thread -> 0 .. MaxFailures]
  /\ backoff \in [Thread -> {"none", "new", "due"}] /\ failed \subseteq Thread
  /\ instance \in Server \cup {NoOne}
  /\ lock \in [Thread -> Server \cup {Cli, NoOne}]
  /\ git \in (Server \X Thread) \cup {Cli, NoOne}
  /\ main <= MaxMain /\ \A t \in Thread : head[t] <= MaxMain + 1

Pool(s) ==
  /\ futures[s] \subseteq Thread /\ Cardinality(futures[s]) <= Workers

(* Steps at which the worker holds the repository Git lock.                *)
InGit == {"create", "branch", "attach", "checkout"}

(* What a worker holds, and what is left for it to do: a tick begins with  *)
(* a tick left, and with something to do for the thread only it serves.    *)
Held(s, t) ==
  LET w == worker[s][t] IN
  /\ w.at # "none" <=> t \in futures[s]
  /\ lock[t] = s <=> w.at \in InTick
  /\ git = <<s, t>> <=> w.at \in InGit
  /\ w.ticks <= MaxTicks /\ w.base <= MaxMain + 1
  /\ w.at \in InTick => w.ticks < MaxTicks
  /\ w.at \in InTick \ {"open"} => pending[t] > 0

Holding == \A s \in Server, t \in Thread : Held(s, t)

ServerInv == DispatcherInv /\ Rows /\ Listed /\ (\A s \in Server : Pool(s)) /\ Holding

LEMMA ServerBegins == Init => ServerInv
<1> SUFFICES ASSUME Init PROVE ServerInv
  OBVIOUS
<1>1. Rows
  BY PoolAssumption, MainAssumption DEF Init, Rows
<1>2. Listed
  BY ListedAtFirst DEF Init
<1>3. \A s \in Server : Pool(s)
  BY PoolAssumption, FS_EmptySet DEF Init, Pool
<1>4. Holding
  <2> SUFFICES ASSUME NEW s \in Server, NEW t \in Thread PROVE Held(s, t)
    BY DEF Holding
  <2>1. worker[s][t] = Idle /\ futures[s] = {} /\ lock[t] = NoOne /\ git = NoOne
    BY DEF Init
  <2>2. NoOne # s /\ NoOne # <<s, t>>
    BY HolderAssumption
  <2>3. 0 <= MaxTicks /\ 0 <= MaxMain + 1
    BY PoolAssumption, MainAssumption
  <2> QED BY <2>1, <2>2, <2>3 DEF Held, Idle, InTick, InGit
<1> QED BY <1>1, <1>2, <1>3, <1>4, InitHolds DEF ServerInv

(* A worker's step takes and releases its own locks only, and no other     *)
(* server has a worker for the thread.                                     *)
LEMMA OthersHold ==
  ASSUME ServerInv, NEW s \in Server, NEW t \in Thread, NEW w \in WorkerState,
         worker[s][t].at # "none", worker' = [worker EXCEPT ![s][t] = w],
         UNCHANGED <<futures>>,
         \A u \in Thread : u # t => lock'[u] = lock[u] /\ pending'[u] = pending[u],
         lock'[t] \in {s, NoOne, lock[t]}, git' \in {<<s, t>>, NoOne, git},
         git' = NoOne => git \in {<<s, t>>, NoOne},
         git' = <<s, t>> => git \in {<<s, t>>, NoOne},
         Held(s, t)'
  PROVE  Holding'
<1> SUFFICES ASSUME NEW r \in Server, NEW u \in Thread PROVE Held(r, u)'
  BY DEF Holding
<1>1. Held(r, u) /\ DispatcherInv
  BY DEF ServerInv, Holding
<1>2. worker'[r][u] = IF r = s /\ u = t THEN w ELSE worker[r][u]
  BY <1>1 DEF DispatcherInv, Shape
<1>3. r # NoOne /\ <<r, u>> # NoOne
  BY HolderAssumption
<1>4. CASE r = s /\ u = t
  BY <1>4
<1>5. CASE ~(r = s /\ u = t)
  <2>1. worker'[r][u] = worker[r][u]
    BY <1>2, <1>5
  <2>2. <<r, u>> # <<s, t>>
    BY <1>5
  <2>3. git' = <<r, u>> <=> git = <<r, u>>
    BY <1>3, <2>2
  <2>4. lock'[u] = r <=> lock[u] = r
    <3>1. CASE u # t
      BY <3>1
    <3>2. CASE u = t
      <4>1. r # s /\ loop[s] # "down" /\ Exclusive(r)
        BY <1>1, <1>5, <3>2 DEF DispatcherInv, Exclusive
      <4>2. loop[r] = "down"
        BY <1>1, <4>1, OneRuns
      <4>3. lock[u] # r
        BY <1>1, <4>1, <4>2 DEF Exclusive, Held, InTick
      <4> QED BY <1>3, <3>2, <4>1, <4>3
    <3> QED BY <3>1, <3>2
  <2>5. pending'[u] = pending[u] \/ worker[r][u].at = "none"
    <3>1. CASE u # t
      BY <3>1
    <3>2. CASE u = t
      <4>1. r # s /\ loop[s] # "down" /\ Exclusive(r)
        BY <1>1, <1>5, <3>2 DEF DispatcherInv, Exclusive
      <4>2. loop[r] = "down"
        BY <1>1, <4>1, OneRuns
      <4> QED BY <4>1, <4>2 DEF Exclusive
    <3> QED BY <3>1, <3>2
  <2> QED BY <1>1, <2>1, <2>3, <2>4, <2>5 DEF Held, InTick
<1> QED BY <1>4, <1>5

LEMMA WorkersHold ==
  ASSUME ServerInv, DispatcherInv', Rows', NEW s \in Server, NEW t \in Thread,
         NEW w \in WorkerState, worker' = [worker EXCEPT ![s][t] = w],
         worker[s][t].at # "none", w.at # "none", UNCHANGED <<futures, order>>,
         \A u \in Thread : u # t => lock'[u] = lock[u] /\ pending'[u] = pending[u],
         lock'[t] = IF w.at \in InTick THEN s
                    ELSE IF worker[s][t].at \in InTick THEN NoOne ELSE lock[t],
         git' = IF w.at \in InGit THEN <<s, t>>
                ELSE IF worker[s][t].at \in InGit THEN NoOne ELSE git,
         w.at \in InTick /\ worker[s][t].at \notin InTick => lock[t] = NoOne,
         w.at \in InGit /\ worker[s][t].at \notin InGit => git = NoOne,
         w.ticks <= MaxTicks, w.base <= MaxMain + 1,
         w.at \in InTick => w.ticks < MaxTicks,
         w.at \in InTick \ {"open"} => pending'[t] > 0
  PROVE  ServerInv'
<1>1. Held(s, t) /\ DispatcherInv /\ Listed
  BY DEF ServerInv, Holding
<1>2. s # NoOne /\ <<s, t>> # NoOne
  BY HolderAssumption
<1>3. worker'[s][t] = w
  BY <1>1 DEF DispatcherInv, Shape
<1>4. Held(s, t)'
  <2>1. worker'[s][t].at # "none" <=> t \in futures'[s]
    BY <1>1, <1>3 DEF Held
  <2>2. lock'[t] = s <=> worker'[s][t].at \in InTick
    BY <1>1, <1>2, <1>3 DEF Held
  <2>3. git' = <<s, t>> <=> worker'[s][t].at \in InGit
    BY <1>1, <1>2, <1>3 DEF Held
  <2> QED BY <1>3, <2>1, <2>2, <2>3 DEF Held
<1>5. /\ lock'[t] \in {s, NoOne, lock[t]} /\ git' \in {<<s, t>>, NoOne, git}
      /\ git' = NoOne => git \in {<<s, t>>, NoOne}
      /\ git' = <<s, t>> => git \in {<<s, t>>, NoOne}
  BY <1>1, <1>2 DEF Held
<1>6. Holding'
  BY <1>4, <1>5, OthersHold
<1>7. Listed' /\ \A r \in Server : Pool(r)'
  BY <1>1 DEF ServerInv, Listed, Pool
<1> QED BY <1>6, <1>7 DEF ServerInv

(* The drain keeps it, step by step.                                       *)
LEMMA DrainsHold ==
  ASSUME ServerInv, DispatcherInv', NEW s \in Server, NEW t \in Thread,
         Draining(s, t) \/ driver_raises(s, t) \/ worktree_add_fails(s, t)
  PROVE  ServerInv'
<1> DEFINE old == worker[s][t]
<1> USE DEF At, Goto, Unlock, InTick, InGit
<1>1. /\ DispatcherInv /\ Rows /\ Held(s, t) /\ old \in WorkerState
      /\ lock \in [Thread -> Server \cup {Cli, NoOne}] /\ pending \in [Thread -> Nat]
      /\ jobs \in [Thread -> 0 .. 1] /\ failures \in [Thread -> 0 .. MaxFailures]
      /\ backoff \in [Thread -> {"none", "new", "due"}]
      /\ head \in [Thread -> Nat] /\ record \in [Thread -> Nat]
      /\ MaxMain \in Nat /\ MaxTicks \in Nat /\ MaxTicks > 0 /\ MaxFailures \in Nat
  BY PoolAssumption, MainAssumption DEF ServerInv, Holding, DispatcherInv, Shape, Rows
<1>2. old.ticks \in Nat /\ old.base \in Nat /\ old.at \in Step
  BY <1>1 DEF WorkerState
<1>3. ASSUME NEW w \in WorkerState, worker' = [worker EXCEPT ![s][t] = w],
             old.at # "none", w.at # "none", UNCHANGED <<futures, order, lock, git>>,
             pending' = pending, Rows', old.at \in InTick <=> w.at \in InTick,
             old.at \in InGit <=> w.at \in InGit, w.base <= MaxMain + 1, w.ticks <= MaxTicks,
             w.at \in InTick => w.ticks = old.ticks,
             w.at \in InTick \ {"open"} => old.at # "open" \/ pending[t] > 0
      PROVE  ServerInv'
  <2>1. lock'[t] = IF w.at \in InTick THEN s
                   ELSE IF old.at \in InTick THEN NoOne ELSE lock[t]
    BY <1>1, <1>3 DEF Held
  <2>2. git' = IF w.at \in InGit THEN <<s, t>> ELSE IF old.at \in InGit THEN NoOne ELSE git
    BY <1>1, <1>3 DEF Held
  <2>3. w.at \in InTick => w.ticks < MaxTicks
    BY <1>1, <1>3 DEF Held
  <2>4. w.at \in InTick \ {"open"} => pending'[t] > 0
    BY <1>1, <1>3 DEF Held
  <2> HIDE DEF InTick, InGit
  <2> QED BY <1>3, <2>1, <2>2, <2>3, <2>4, WorkersHold
<1>4. ASSUME NEW step \in Step, Goto(s, t, step)
      PROVE  LET w == [old EXCEPT !.at = step]
             IN  /\ worker' = [worker EXCEPT ![s][t] = w] /\ w \in WorkerState
                 /\ w.at = step /\ w.ticks = old.ticks /\ w.base = old.base
  <2>1. worker' = [worker EXCEPT ![s][t] = [old EXCEPT !.at = step]]
    BY <1>4
  <2> QED BY <1>1, <2>1 DEF WorkerState
<1>5. ASSUME NEW step \in Step
      PROVE  LET w == [Idle EXCEPT !.at = step]
             IN  w \in WorkerState /\ w.at = step /\ w.ticks = 0 /\ w.base = 0
  BY DEF Idle, WorkerState, Step
<1>6. ASSUME UNCHANGED <<rows, repo, instance>>,
             lock' \in [Thread -> Server \cup {Cli, NoOne}],
             git' \in (Server \X Thread) \cup {Cli, NoOne}
      PROVE  Rows' /\ pending' = pending /\ order' = order
  BY <1>1, <1>6 DEF Rows, rows, repo
<1>7. /\ old.ticks <= MaxTicks /\ old.base <= MaxMain + 1
      /\ 0 <= MaxTicks /\ 0 <= MaxMain + 1
  BY <1>1 DEF Held
<1>8. lock' \in [Thread -> Server \cup {Cli, NoOne}]
  <2>1. \/ UNCHANGED lock \/ lock' = [lock EXCEPT ![t] = s]
        \/ lock' = [lock EXCEPT ![t] = NoOne]
    BY DEF Draining, load_configuration, process_one, ticks_exhausted, acquire_thread_lock,
      _advance_locked, repo_git_lock, _open_or_create, add_branch, add_directory, checkout,
      save_thread_workspace, run_driver, worker_failed, fail_active_task, driver_raises,
      worktree_add_fails
  <2> QED BY <1>1, <2>1
<1>9. git' \in (Server \X Thread) \cup {Cli, NoOne}
  <2>1. git' \in {<<s, t>>, NoOne, git}
    BY DEF Draining, load_configuration, process_one, ticks_exhausted, acquire_thread_lock,
      _advance_locked, repo_git_lock, _open_or_create, add_branch, add_directory, checkout,
      save_thread_workspace, run_driver, worker_failed, fail_active_task, driver_raises,
      worktree_add_fails
  <2> QED BY <1>1, <2>1 DEF Rows
<1>10. CASE load_configuration(s, t)
  <2> DEFINE step == IF t \in Broken THEN "raise_early" ELSE "learn"
             w == [old EXCEPT !.at = step]
  <2>1. Goto(s, t, step) /\ old.at = "start" /\ UNCHANGED <<rows, repo, instance, futures, lock, git>>
    BY <1>10 DEF load_configuration
  <2>2. step \in {"raise_early", "learn"} /\ step \in Step
    BY DEF Step
  <2> HIDE DEF step
  <2>3. /\ worker' = [worker EXCEPT ![s][t] = w] /\ w \in WorkerState /\ w.at = step
        /\ w.ticks = old.ticks /\ w.base = old.base
    BY <1>4, <2>1, <2>2
  <2> HIDE DEF w
  <2> QED BY <1>3, <1>6, <1>7, <1>8, <1>9, <2>1, <2>2, <2>3
<1>11. CASE process_one(s, t)
  <2> DEFINE w == [old EXCEPT !.ticks = @ + 1]
  <2>1. /\ old.at = "learn" /\ old.ticks < MaxTicks /\ jobs[t] > 0
        /\ jobs' = [jobs EXCEPT ![t] = @ - 1] /\ worker' = [worker EXCEPT ![s][t] = w]
        /\ UNCHANGED <<pending, order, failures, backoff, failed, repo, instance, futures, lock, git>>
    BY <1>11 DEF process_one
  <2>2. /\ w \in WorkerState /\ w.at = "learn" /\ w.ticks = old.ticks + 1 /\ w.base = old.base
    BY <1>1, <2>1 DEF WorkerState
  <2> HIDE DEF w
  <2>3. Rows'
    <3>1. jobs[t] - 1 \in 0 .. 1
      BY <1>1, <2>1
    <3>2. jobs' \in [Thread -> 0 .. 1]
      BY <1>1, <2>1, <3>1
    <3> QED BY <1>1, <2>1, <3>2 DEF Rows, repo
  <2>4. w.ticks <= MaxTicks /\ w.base <= MaxMain + 1
    BY <1>1, <1>2, <1>7, <2>1, <2>2
  <2> QED BY <1>3, <2>1, <2>2, <2>3, <2>4
<1>12. ASSUME EndDrain(s, t)
       PROVE  LET w == [Idle EXCEPT !.at = "done"]
              IN  /\ worker' = [worker EXCEPT ![s][t] = w] /\ w \in WorkerState
                  /\ w.at = "done" /\ w.ticks = 0 /\ w.base = 0
                  /\ failures' \in [Thread -> 0 .. MaxFailures]
                  /\ backoff' \in [Thread -> {"none", "new", "due"}]
  <2>1. "done" \in Step
    BY DEF Step
  <2>2. /\ failures' \in [Thread -> 0 .. MaxFailures]
        /\ backoff' \in [Thread -> {"none", "new", "due"}]
    BY <1>1, <1>12 DEF EndDrain, clear_dispatcher_failure
  <2> QED BY <1>5, <1>12, <2>1, <2>2 DEF EndDrain
<1>13. CASE ticks_exhausted(s, t)
  <2> DEFINE w == [Idle EXCEPT !.at = "done"]
  <2>1. /\ EndDrain(s, t) /\ old.at = "learn"
        /\ UNCHANGED <<pending, jobs, order, failed, repo, instance, futures, lock, git>>
    BY <1>13 DEF ticks_exhausted
  <2>2. /\ worker' = [worker EXCEPT ![s][t] = w] /\ w \in WorkerState
        /\ w.at = "done" /\ w.ticks = 0 /\ w.base = 0
        /\ failures' \in [Thread -> 0 .. MaxFailures]
        /\ backoff' \in [Thread -> {"none", "new", "due"}]
    BY <1>12, <2>1
  <2> HIDE DEF w
  <2>3. Rows'
    BY <1>1, <2>1, <2>2 DEF Rows, repo
  <2> QED BY <1>3, <1>7, <2>1, <2>2, <2>3
<1>14. CASE acquire_thread_lock(s, t)
  <2>1. /\ old.at = "learn" /\ old.ticks < MaxTicks
        /\ UNCHANGED <<pending, jobs, order, failed, repo, instance, futures, git>>
    BY <1>14 DEF acquire_thread_lock
  <2>2. CASE lock[t] = NoOne
    <3> DEFINE w == [old EXCEPT !.at = "open"]
    <3>1. /\ lock' = [lock EXCEPT ![t] = s] /\ Goto(s, t, "open") /\ UNCHANGED <<failures, backoff>>
      BY <1>14, <2>2 DEF acquire_thread_lock
    <3>2. "open" \in Step
      BY DEF Step
    <3>3. /\ worker' = [worker EXCEPT ![s][t] = w] /\ w \in WorkerState /\ w.at = "open"
          /\ w.ticks = old.ticks /\ w.base = old.base
      BY <1>4, <3>1, <3>2
    <3> HIDE DEF w
    <3>4. Rows'
      BY <1>6, <1>8, <1>9, <2>1, <3>1 DEF rows
    <3>5. lock'[t] = s /\ \A u \in Thread : u # t => lock'[u] = lock[u]
      BY <1>1, <3>1
    <3> QED BY <1>7, <2>1, <2>2, <3>3, <3>4, <3>5, WorkersHold
  <2>3. CASE lock[t] # NoOne
    <3> DEFINE w == [Idle EXCEPT !.at = "done"]
    <3>1. EndDrain(s, t) /\ UNCHANGED lock
      BY <1>14, <2>3 DEF acquire_thread_lock
    <3>2. /\ worker' = [worker EXCEPT ![s][t] = w] /\ w \in WorkerState
          /\ w.at = "done" /\ w.ticks = 0 /\ w.base = 0
          /\ failures' \in [Thread -> 0 .. MaxFailures]
          /\ backoff' \in [Thread -> {"none", "new", "due"}]
      BY <1>12, <3>1
    <3> HIDE DEF w
    <3>3. Rows'
      BY <1>1, <2>1, <3>1, <3>2 DEF Rows, repo
    <3> QED BY <1>3, <1>7, <2>1, <3>1, <3>2, <3>3
  <2> QED BY <2>2, <2>3
<1>15. CASE _advance_locked(s, t)
  <2>1. /\ old.at = "open"
        /\ UNCHANGED <<pending, jobs, order, failed, repo, instance, futures, git>>
    BY <1>15 DEF _advance_locked
  <2>2. CASE pending[t] = 0
    <3> DEFINE w == [Idle EXCEPT !.at = "done"]
    <3>1. EndDrain(s, t) /\ lock' = [lock EXCEPT ![t] = NoOne]
      BY <1>15, <2>2 DEF _advance_locked
    <3>2. /\ worker' = [worker EXCEPT ![s][t] = w] /\ w \in WorkerState
          /\ w.at = "done" /\ w.ticks = 0 /\ w.base = 0
          /\ failures' \in [Thread -> 0 .. MaxFailures]
          /\ backoff' \in [Thread -> {"none", "new", "due"}]
      BY <1>12, <3>1
    <3> HIDE DEF w
    <3>3. Rows'
      BY <1>1, <1>8, <2>1, <3>1, <3>2 DEF Rows, repo
    <3>4. lock'[t] = NoOne /\ \A u \in Thread : u # t => lock'[u] = lock[u]
      BY <1>1, <3>1
    <3> QED BY <1>7, <2>1, <3>2, <3>3, <3>4, WorkersHold
  <2>3. CASE pending[t] # 0
    <3> DEFINE w == [old EXCEPT !.at = "wait_git"]
    <3>1. Goto(s, t, "wait_git") /\ UNCHANGED <<failures, backoff, lock>>
      BY <1>15, <2>3 DEF _advance_locked
    <3>2. "wait_git" \in Step
      BY DEF Step
    <3>3. /\ worker' = [worker EXCEPT ![s][t] = w] /\ w \in WorkerState /\ w.at = "wait_git"
          /\ w.ticks = old.ticks /\ w.base = old.base
      BY <1>4, <3>1, <3>2
    <3> HIDE DEF w
    <3>4. Rows'
      BY <1>6, <1>8, <1>9, <2>1, <3>1 DEF rows
    <3>5. pending[t] > 0
      BY <1>1, <2>3
    <3> QED BY <1>3, <1>7, <2>1, <3>1, <3>3, <3>4, <3>5
  <2> QED BY <2>2, <2>3
<1>16. CASE repo_git_lock(s, t)
  <2> DEFINE w == [old EXCEPT !.at = "create"]
  <2>1. /\ old.at = "wait_git" /\ git = NoOne /\ git' = <<s, t>> /\ Goto(s, t, "create")
        /\ UNCHANGED <<rows, repo, instance, futures, lock>>
    BY <1>16 DEF repo_git_lock
  <2>2. "create" \in Step
    BY DEF Step
  <2>3. /\ worker' = [worker EXCEPT ![s][t] = w] /\ w \in WorkerState /\ w.at = "create"
        /\ w.ticks = old.ticks /\ w.base = old.base
    BY <1>4, <2>1, <2>2
  <2> HIDE DEF w
  <2>4. Rows' /\ pending' = pending /\ order' = order
    BY <1>6, <1>8, <1>9, <2>1
  <2>5. lock[t] = s /\ w.ticks < MaxTicks /\ pending[t] > 0
    BY <1>1, <2>1, <2>3 DEF Held
  <2>6. /\ old.at # "none" /\ w.at # "none" /\ UNCHANGED <<futures, order, lock, pending>>
        /\ w.at \in InTick /\ old.at \in InTick /\ w.at \in InGit /\ git = NoOne
        /\ git' = <<s, t>> /\ w.ticks <= MaxTicks /\ w.base <= MaxMain + 1
    BY <1>7, <2>1, <2>3, <2>4
  <2> HIDE DEF InGit, InTick
  <2> QED BY <2>3, <2>4, <2>5, <2>6, WorkersHold
<1>17. ASSUME NEW w \in WorkerState, worker' = [worker EXCEPT ![s][t] = w],
              old.at \in InTick \ {"open"}, w.at \in InTick \ {"open"},
              w.at \in InGit => old.at \in InGit, w.ticks = old.ticks,
              w.base <= MaxMain + 1, Rows',
              git' = IF w.at \in InGit \/ old.at \notin InGit THEN git ELSE NoOne,
              UNCHANGED <<pending, order, futures, lock>>
       PROVE  ServerInv'
  <2>1. lock[t] = s /\ w.ticks < MaxTicks /\ pending[t] > 0 /\ w.at # "none" /\ old.at # "none"
    BY <1>1, <1>17 DEF Held
  <2>2. w.at \in InGit => git = <<s, t>>
    BY <1>1, <1>17 DEF Held
  <2>3. git' = IF w.at \in InGit THEN <<s, t>> ELSE IF old.at \in InGit THEN NoOne ELSE git
    BY <1>17, <2>2
  <2>4. /\ UNCHANGED <<futures, order>> /\ pending'[t] > 0 /\ w.ticks <= MaxTicks
        /\ \A u \in Thread : u # t => lock'[u] = lock[u] /\ pending'[u] = pending[u]
        /\ lock'[t] = IF w.at \in InTick THEN s
                      ELSE IF old.at \in InTick THEN NoOne ELSE lock[t]
        /\ w.at \in InTick /\ old.at \notin InTick => lock[t] = NoOne
        /\ w.at \in InGit /\ old.at \notin InGit => git = NoOne
    BY <1>7, <1>17, <2>1
  <2> HIDE DEF InGit, InTick
  <2> QED BY <1>17, <2>1, <2>3, <2>4, WorkersHold
<1>18. CASE _open_or_create(s, t)
  <2> DEFINE step == IF record[t] # 0 THEN "work" ELSE IF tree[t] # "none" THEN "save"
                     ELSE IF branch[t] # 0 THEN "attach" ELSE "branch"
             base == IF record[t] # 0 THEN 0 ELSE IF branch[t] # 0 THEN head[t] ELSE main'
             w == [old EXCEPT !.at = step, !.base = base]
  <2>1. /\ old.at = "create" /\ worker' = [worker EXCEPT ![s][t] = w]
        /\ git' = IF record[t] # 0 \/ tree[t] # "none" THEN NoOne ELSE git
        /\ UNCHANGED <<rows, head, instance, futures, lock>>
    BY <1>18 DEF _open_or_create
  <2>2. main' \in Nat /\ main' <= MaxMain
    BY <1>1, <1>18 DEF Rows, Shape, DispatcherInv, _open_or_create, Fetch
  <2>3. base \in Nat /\ base <= MaxMain + 1
    BY <1>1, <1>7, <2>2 DEF Rows
  <2>4. step \in InTick \ {"open"} /\ step \in Step
          /\ (step \in InGit <=> ~(record[t] # 0 \/ tree[t] # "none"))
    BY DEF Step
  <2> HIDE DEF step, base
  <2>5. w \in WorkerState /\ w.at = step /\ w.ticks = old.ticks /\ w.base = base
    BY <1>1, <2>3, <2>4 DEF WorkerState
  <2> HIDE DEF w
  <2>6. Rows' /\ pending' = pending /\ order' = order
    BY <1>1, <1>8, <1>9, <2>1, <2>2 DEF Rows, rows
  <2>7. /\ old.at \in InTick \ {"open"} /\ old.at \in InGit
        /\ git' = IF w.at \in InGit \/ old.at \notin InGit THEN git ELSE NoOne
    BY <2>1, <2>4, <2>5
  <2> HIDE DEF InGit, InTick
  <2> QED BY <1>17, <2>1, <2>3, <2>4, <2>5, <2>6, <2>7
<1>19. ASSUME NEW step \in Step, Goto(s, t, step), UNCHANGED <<rows, main, instance, futures, lock>>,
              old.at \in InTick \ {"open"}, step \in InTick \ {"open"},
              step \in InGit => old.at \in InGit,
              git' = IF step \in InGit \/ old.at \notin InGit THEN git ELSE NoOne,
              \A u \in Thread : head'[u] <= MaxMain + 1
       PROVE  ServerInv'
  <2> DEFINE w == [old EXCEPT !.at = step]
  <2>1. /\ worker' = [worker EXCEPT ![s][t] = w] /\ w \in WorkerState /\ w.at = step
        /\ w.ticks = old.ticks /\ w.base = old.base
    BY <1>4, <1>19
  <2> HIDE DEF w
  <2>2. Rows' /\ pending' = pending /\ order' = order
    BY <1>1, <1>8, <1>9, <1>19 DEF Rows, rows
  <2> HIDE DEF InGit, InTick
  <2> QED BY <1>7, <1>17, <1>19, <2>1, <2>2
<1>20. \A u \in Thread : head[u] <= MaxMain + 1
  BY <1>1 DEF Rows
<1>21. CASE add_branch(s, t)
  <2>1. /\ old.at = "branch" /\ Goto(s, t, "attach") /\ head' = [head EXCEPT ![t] = old.base]
        /\ UNCHANGED <<rows, main, instance, futures, lock, git>>
    BY <1>21 DEF add_branch
  <2>2. \A u \in Thread : head'[u] <= MaxMain + 1
    BY <1>1, <1>7, <1>20, <2>1
  <2>3. "attach" \in Step
    BY DEF Step
  <2> QED BY <1>19, <2>1, <2>2, <2>3
<1>22. CASE add_directory(s, t)
  <2>1. /\ old.at = "attach" /\ Goto(s, t, "checkout")
        /\ UNCHANGED <<rows, main, head, instance, futures, lock, git>>
    BY <1>22 DEF add_directory
  <2>2. "checkout" \in Step
    BY DEF Step
  <2> QED BY <1>19, <1>20, <2>1, <2>2
<1>23. CASE checkout(s, t)
  <2>1. /\ old.at = "checkout" /\ Goto(s, t, "save") /\ git' = NoOne
        /\ UNCHANGED <<rows, main, head, instance, futures, lock>>
    BY <1>23 DEF checkout
  <2>2. "save" \in Step
    BY DEF Step
  <2> QED BY <1>19, <1>20, <2>1, <2>2
<1>24. CASE save_thread_workspace(s, t)
  <2> DEFINE w == [old EXCEPT !.at = "work", !.base = 0]
  <2>1. /\ old.at = "save" /\ worker' = [worker EXCEPT ![s][t] = w]
        /\ UNCHANGED <<rows, main, head, instance, futures, lock, git>>
    BY <1>24 DEF save_thread_workspace
  <2>2. w \in WorkerState /\ w.at = "work" /\ w.ticks = old.ticks /\ w.base = 0
    BY <1>1 DEF WorkerState, Step
  <2> HIDE DEF w
  <2>3. Rows' /\ pending' = pending /\ order' = order
    BY <1>1, <1>8, <1>9, <2>1 DEF Rows, rows
  <2> QED BY <1>7, <1>17, <2>1, <2>2, <2>3
<1>25. ASSUME NEW w \in WorkerState, worker' = [worker EXCEPT ![s][t] = w],
              old.at \in InTick, w.at \notin InTick, w.at # "none",
              w.ticks <= MaxTicks, w.base <= MaxMain + 1, Rows',
              git' = IF old.at \in InGit THEN NoOne ELSE git,
              lock' = [lock EXCEPT ![t] = NoOne], UNCHANGED <<order, futures>>,
              \A u \in Thread : u # t => pending'[u] = pending[u]
       PROVE  ServerInv'
  <2>1. lock'[t] = NoOne /\ \A u \in Thread : u # t => lock'[u] = lock[u]
    BY <1>1, <1>25
  <2>2. old.at # "none" /\ w.at \notin InGit
    BY <1>25
  <2> HIDE DEF InGit, InTick
  <2> QED BY <1>25, <2>1, <2>2, WorkersHold
<1>26. CASE run_driver(s, t)
  <2> DEFINE w == [old EXCEPT !.at = "learn", !.ticks = old.ticks + 1]
  <2>1. /\ old.at = "work" /\ worker' = [worker EXCEPT ![s][t] = w]
        /\ pending' = [pending EXCEPT ![t] = @ - 1]
        /\ jobs' = [jobs EXCEPT ![t] = IF pending[t] = 1 THEN 1 ELSE @]
        /\ head' = [head EXCEPT ![t] = MaxMain + 1]
        /\ lock' = [lock EXCEPT ![t] = NoOne]
        /\ UNCHANGED <<order, failures, backoff, failed, main, instance, futures, git>>
    BY <1>26 DEF run_driver
  <2>2. old.ticks < MaxTicks /\ pending[t] > 0
    BY <1>1, <2>1 DEF Held
  <2>3. w \in WorkerState /\ w.at = "learn" /\ w.ticks = old.ticks + 1 /\ w.base = old.base
    <3> DEFINE n == old.ticks + 1
    <3>1. "learn" \in Step /\ n \in Nat
      BY <1>2 DEF Step
    <3> HIDE DEF n
    <3>2. LET v == [old EXCEPT !.at = "learn", !.ticks = n]
          IN  v \in WorkerState /\ v.at = "learn" /\ v.ticks = n /\ v.base = old.base
      BY <1>1, <3>1 DEF WorkerState
    <3> QED BY <3>2 DEF n
  <2> HIDE DEF w
  <2>4. Rows'
    <3>1. pending[t] - 1 \in Nat
      BY <1>1, <2>2
    <3>2. pending' \in [Thread -> Nat] /\ jobs' \in [Thread -> 0 .. 1]
      BY <1>1, <2>1, <3>1
    <3>3. \A u \in Thread : head'[u] <= MaxMain + 1
      BY <1>1, <1>20, <2>1
    <3> QED BY <1>1, <1>8, <2>1, <3>2, <3>3 DEF Rows
  <2>5. w.ticks <= MaxTicks /\ w.base <= MaxMain + 1
    BY <1>1, <1>2, <1>7, <2>2, <2>3
  <2>6. \A u \in Thread : u # t => pending'[u] = pending[u]
    BY <1>1, <2>1
  <2> QED BY <1>25, <2>1, <2>3, <2>4, <2>5, <2>6
<1>27. CASE driver_raises(s, t)
  <2> DEFINE w == [old EXCEPT !.at = "raise"]
  <2>1. /\ old.at = "work" /\ Goto(s, t, "raise") /\ lock' = [lock EXCEPT ![t] = NoOne]
        /\ UNCHANGED <<rows, repo, instance, futures, git>>
    BY <1>27 DEF driver_raises
  <2>2. "raise" \in Step
    BY DEF Step
  <2>3. /\ worker' = [worker EXCEPT ![s][t] = w] /\ w \in WorkerState /\ w.at = "raise"
        /\ w.ticks = old.ticks /\ w.base = old.base
    BY <1>4, <2>1, <2>2
  <2> HIDE DEF w
  <2>4. Rows' /\ pending' = pending /\ order' = order
    BY <1>6, <1>8, <1>9, <2>1
  <2> QED BY <1>7, <1>25, <2>1, <2>3, <2>4
<1>28. CASE worktree_add_fails(s, t)
  <2> DEFINE w == [old EXCEPT !.at = "raise"]
  <2>1. /\ old.at \in {"branch", "attach", "checkout"} /\ Goto(s, t, "raise")
        /\ lock' = [lock EXCEPT ![t] = NoOne] /\ git' = NoOne
        /\ UNCHANGED <<rows, main, head, instance, futures>>
    BY <1>28 DEF worktree_add_fails
  <2>2. "raise" \in Step
    BY DEF Step
  <2>3. /\ worker' = [worker EXCEPT ![s][t] = w] /\ w \in WorkerState /\ w.at = "raise"
        /\ w.ticks = old.ticks /\ w.base = old.base
    BY <1>4, <2>1, <2>2
  <2> HIDE DEF w
  <2>4. Rows' /\ pending' = pending /\ order' = order
    BY <1>1, <1>8, <1>9, <2>1 DEF Rows, rows
  <2> QED BY <1>7, <1>25, <2>1, <2>3, <2>4
<1>29. CASE worker_failed(s, t)
  <2> DEFINE step == IF old.at = "raise" THEN "give_up" ELSE "done"
             w == [Idle EXCEPT !.at = step]
  <2>1. /\ old.at \in {"raise", "raise_early"} /\ worker' = [worker EXCEPT ![s][t] = w]
        /\ failures' = [failures EXCEPT ![t] = IF @ < MaxFailures THEN @ + 1 ELSE @]
        /\ backoff' = [backoff EXCEPT ![t] = "new"]
        /\ UNCHANGED <<pending, jobs, order, failed, repo, instance, futures, lock, git>>
    BY <1>29 DEF worker_failed, record_dispatcher_failure
  <2>2. step \in Step /\ step \in {"give_up", "done"}
    BY DEF Step
  <2> HIDE DEF step
  <2>3. w \in WorkerState /\ w.at = step /\ w.ticks = 0 /\ w.base = 0
    BY <1>5, <2>2
  <2> HIDE DEF w
  <2>4. Rows'
    <3>1. failures' \in [Thread -> 0 .. MaxFailures] /\ backoff' \in [Thread -> {"none", "new", "due"}]
      BY <1>1, <2>1
    <3> QED BY <1>1, <2>1, <3>1 DEF Rows, repo
  <2> QED BY <1>3, <1>7, <2>1, <2>2, <2>3, <2>4
<1>30. CASE fail_active_task(s, t)
  <2> DEFINE w == [old EXCEPT !.at = "done"]
  <2>1. /\ old.at = "give_up" /\ Goto(s, t, "done") /\ failed' \subseteq failed \cup {t}
        /\ UNCHANGED <<pending, jobs, order, failures, backoff, repo, instance, futures, lock, git>>
    BY <1>30 DEF fail_active_task
  <2>2. "done" \in Step
    BY DEF Step
  <2>3. /\ worker' = [worker EXCEPT ![s][t] = w] /\ w \in WorkerState /\ w.at = "done"
        /\ w.ticks = old.ticks /\ w.base = old.base
    BY <1>4, <2>1, <2>2
  <2> HIDE DEF w
  <2>4. Rows'
    BY <1>1, <2>1 DEF Rows, repo
  <2> QED BY <1>3, <1>7, <2>1, <2>3, <2>4
<1> QED
  BY <1>10, <1>11, <1>13, <1>14, <1>15, <1>16, <1>18, <1>21, <1>22, <1>23, <1>24, <1>26,
     <1>27, <1>28, <1>29, <1>30, Zenon DEF Draining

(* A step of a server's loop: the other servers keep what they have.       *)
LEMMA LoopsHold ==
  ASSUME ServerInv, DispatcherInv', Rows', Listed', NEW s \in Server,
         \A r \in Server : r # s => worker'[r] = worker[r] /\ futures'[r] = futures[r],
         \A t \in Thread : pending'[t] >= pending[t],
         \A r \in Server, t \in Thread : r # s => /\ lock'[t] = r <=> lock[t] = r
                                                  /\ git' = <<r, t>> <=> git = <<r, t>>,
         Pool(s)', \A t \in Thread : Held(s, t)'
  PROVE  ServerInv'
<1>1. ASSUME NEW r \in Server PROVE Pool(r)'
  BY DEF ServerInv, Pool
<1>2. ASSUME NEW r \in Server, NEW t \in Thread PROVE Held(r, t)'
  <2>1. CASE r = s
    BY <2>1
  <2>2. CASE r # s
    <3>1. pending[t] \in Nat /\ pending'[t] \in Nat /\ pending'[t] >= pending[t]
      BY DEF ServerInv, Rows
    <3>2. pending[t] > 0 => pending'[t] > 0
      BY <3>1
    <3>3. /\ Held(r, t) /\ worker'[r][t] = worker[r][t] /\ futures'[r] = futures[r]
          /\ lock'[t] = r <=> lock[t] = r
          /\ git' = <<r, t>> <=> git = <<r, t>>
      <4>1. Held(r, t)
        BY DEF ServerInv, Holding
      <4> QED BY <2>2, <4>1, Zenon
    <3> QED BY <3>2, <3>3 DEF Held
  <2> QED BY <2>1, <2>2
<1> QED BY <1>1, <1>2 DEF ServerInv, Holding

(* A step of the loop that leaves workers and locks alone.                 *)
LEMMA StillHolds ==
  ASSUME ServerInv, DispatcherInv', Rows', Listed', UNCHANGED <<futures, worker, lock, git>>,
         \A t \in Thread : pending'[t] >= pending[t]
  PROVE  ServerInv'
<1>1. \A s \in Server : Pool(s)'
  BY DEF ServerInv, Pool
<1>2. ASSUME NEW s \in Server, NEW t \in Thread PROVE Held(s, t)'
  <2>1. pending[t] \in Nat /\ pending'[t] \in Nat /\ pending'[t] >= pending[t]
    BY DEF ServerInv, Rows
  <2>2. pending[t] > 0 => pending'[t] > 0
    BY <2>1
  <2> QED BY <2>2 DEF ServerInv, Holding, Held
<1> QED BY <1>1, <1>2 DEF ServerInv, Holding

(* Starting, polling, reaping and submitting.                              *)
LEMMA PassesHold ==
  ASSUME ServerInv, DispatcherInv', NEW s \in Server,
         acquire_instance(s) \/ _reap(s) \/ _poll(s) \/ _submit(s) \/ stop(s)
  PROVE  ServerInv'
<1>1. /\ DispatcherInv /\ Rows /\ Listed /\ Pool(s) /\ Shape
      /\ \A t \in Thread : Held(s, t) /\ pending[t] \in Nat /\ pending[t] >= pending[t]
  BY DEF ServerInv, Holding, DispatcherInv, Rows
<1>2. IsFiniteSet(futures[s]) /\ Cardinality(futures[s]) \in Nat /\ Workers \in Nat
  BY <1>1, ThreadAssumption, PoolAssumption, FS_Subset, FS_CardinalityType DEF Pool
<1>3. CASE acquire_instance(s) \/ stop(s)
  <2>1. UNCHANGED <<rows, repo, futures, worker, lock, git>> /\ instance' \in {s, instance}
    BY <1>3 DEF acquire_instance, stop
  <2>2. Rows' /\ Listed'
    BY <1>1, <2>1 DEF Rows, Listed, rows, repo
  <2>3. pending' = pending
    BY <2>1 DEF rows
  <2> QED BY <1>1, <2>1, <2>2, <2>3, StillHolds
<1>4. CASE _poll(s)
  <2>1. UNCHANGED <<jobs, failures, backoff, failed, repo, instance, futures, worker, lock, git>>
    BY <1>4 DEF _poll
  <2>2. CASE UNCHANGED <<pending, order>>
    <3>1. Rows' /\ Listed'
      BY <1>1, <2>1, <2>2 DEF Rows, Listed, repo
    <3> QED BY <1>1, <2>1, <2>2, <3>1, StillHolds
  <2>3. ASSUME NEW i \in DOMAIN order,
               pending' = [pending EXCEPT ![order[i]] = @ + 1],
               order' = [j \in DOMAIN order |-> order[Later(i, j)]]
        PROVE  ServerInv'
    <3>1. Listed'
      BY <1>1, <2>3, ListedLater
    <3>2. order[i] \in Thread
      BY <1>1 DEF Listed
    <3>3. pending' \in [Thread -> Nat] /\ \A t \in Thread : pending'[t] >= pending[t]
      BY <1>1, <2>3, <3>2 DEF Rows
    <3>4. Rows'
      BY <1>1, <2>1, <3>3 DEF Rows, repo
    <3> QED BY <2>1, <3>1, <3>3, <3>4, StillHolds
  <2> QED BY <1>4, <2>2, <2>3 DEF _poll
<1>5. CASE _reap(s)
  <2> DEFINE done == {t \in futures[s] : worker[s][t].at = "done"}
             ws == [t \in Thread |-> IF t \in done THEN Idle ELSE worker[s][t]]
  <2>1. /\ futures' = [futures EXCEPT ![s] = futures[s] \ done]
        /\ UNCHANGED <<rows, repo, instance, lock, git>>
    BY <1>5 DEF _reap
  <2>2. worker' = [worker EXCEPT ![s] = ws]
    BY <1>1, <1>5 DEF _reap, Shape
  <2>3. \A t \in Thread : t \in done => t \in futures[s] /\ worker[s][t].at = "done"
    OBVIOUS
  <2> HIDE DEF done
  <2>4. /\ futures'[s] = futures[s] \ done
        /\ \A r \in Server : r # s => worker'[r] = worker[r] /\ futures'[r] = futures[r]
        /\ \A t \in Thread : worker'[s][t] = IF t \in done THEN Idle ELSE worker[s][t]
    BY <1>1, <2>1, <2>2 DEF Shape
  <2>5. Rows' /\ Listed' /\ pending' = pending
    BY <1>1, <2>1 DEF Rows, Listed, rows, repo
  <2>6. Pool(s)'
    <3>1. Cardinality(futures[s] \ done) <= Cardinality(futures[s])
            /\ Cardinality(futures[s] \ done) \in Nat
      BY <1>2, FS_Subset, FS_CardinalityType
    <3>2. Cardinality(futures'[s]) <= Workers
      BY <1>1, <1>2, <2>4, <3>1 DEF Pool
    <3> QED BY <1>1, <2>4, <3>2 DEF Pool
  <2>7. ASSUME NEW t \in Thread PROVE Held(s, t)'
    <3>1. CASE t \in done
      BY <1>1, <2>1, <2>3, <2>4, <3>1, PoolAssumption, MainAssumption
      DEF Held, Idle, InTick, InGit
    <3>2. CASE t \notin done
      BY <1>1, <2>1, <2>4, <2>5, <3>2 DEF Held
    <3> QED BY <3>1, <3>2
  <2> QED BY <1>1, <2>1, <2>4, <2>5, <2>6, <2>7, LoopsHold
<1>6. CASE _submit(s)
  <2> DEFINE waiting == {i \in runnable_thread_ids : order[i] \notin futures[s]}
             free == Workers - Cardinality(futures[s])
             picked == {order[i] : i \in FirstOf(waiting, free)}
             fresh == [Idle EXCEPT !.at = "start"]
             ws == [t \in Thread |-> IF t \in picked THEN fresh ELSE worker[s][t]]
  <2>1. /\ futures' = [futures EXCEPT ![s] = futures[s] \cup picked]
        /\ backoff' = [t \in Thread |->
             IF backoff[t] = "new" /\ t \notin futures[s] THEN "due" ELSE backoff[t]]
        /\ UNCHANGED <<pending, jobs, order, failures, failed, repo, instance, lock, git>>
    BY <1>6 DEF _submit
  <2>2. worker' = [worker EXCEPT ![s] = ws]
    <3>1. worker' = [worker EXCEPT ![s] = [t \in Thread |-> IF t \in picked THEN fresh ELSE @[t]]]
      BY <1>6 DEF _submit
    <3> HIDE DEF picked, fresh
    <3> QED BY <1>1, <3>1 DEF Shape
  <2>3. PICK n \in Nat : n = Cardinality(Thread) /\ order \in [1 .. n -> Thread]
    BY <1>1, ThreadAssumption, FS_CardinalityType DEF Listed
  <2>4. waiting \in SUBSET (1 .. n) /\ free \in Nat
    BY <1>1, <1>2, <2>3 DEF runnable_thread_ids, Pool
  <2> HIDE DEF free
  <2>5. /\ picked \subseteq Thread /\ picked \cap futures[s] = {} /\ IsFiniteSet(picked)
        /\ Cardinality(picked) <= free /\ Cardinality(picked) \in Nat
    <3> DEFINE K == FirstOf(waiting, free)
    <3>1. K \subseteq waiting /\ IsFiniteSet(K) /\ Cardinality(K) <= free
      BY <2>4, FirstOfFits
    <3>2. K \subseteq 1 .. n /\ \A i \in K : order[i] \in Thread /\ order[i] \notin futures[s]
      BY <2>3, <2>4, <3>1
    <3> HIDE DEF K
    <3> DEFINE P == {order[i] : i \in K}
               f == [i \in K |-> order[i]]
    <3>3. P \subseteq Thread /\ P \cap futures[s] = {}
      BY <3>2
    <3>4. f \in Surjection(K, P)
      BY DEF Surjection
    <3>5. IsFiniteSet(P) /\ Cardinality(P) <= Cardinality(K)
      BY <3>1, <3>4, FS_Surjection
    <3> HIDE DEF P
    <3>6. Cardinality(P) \in Nat /\ Cardinality(K) \in Nat
      BY <3>1, <3>5, FS_CardinalityType
    <3>7. Cardinality(P) <= free
      BY <2>4, <3>1, <3>5, <3>6
    <3> QED BY <3>3, <3>5, <3>6, <3>7 DEF P, K
  <2> HIDE DEF picked
  <2>6. fresh.at = "start" /\ fresh.ticks = 0 /\ fresh.base = 0
    BY DEF Idle
  <2> HIDE DEF fresh
  <2>7. /\ futures'[s] = futures[s] \cup picked
        /\ \A r \in Server : r # s => worker'[r] = worker[r] /\ futures'[r] = futures[r]
        /\ \A t \in Thread : worker'[s][t] = IF t \in picked THEN fresh ELSE worker[s][t]
    BY <1>1, <2>1, <2>2 DEF Shape
  <2>8. Rows' /\ Listed' /\ pending' = pending
    <3>1. backoff' \in [Thread -> {"none", "new", "due"}]
      BY <1>1, <2>1 DEF Rows
    <3> QED BY <1>1, <2>1, <3>1 DEF Rows, Listed, repo
  <2>9. Pool(s)'
    <3>1. futures[s] \cap picked = {}
      BY <2>5
    <3>2. Cardinality(futures[s] \cup picked)
            = Cardinality(futures[s]) + Cardinality(picked) - Cardinality(futures[s] \cap picked)
      BY <1>2, <2>5, FS_Union
    <3>3. Cardinality(futures[s] \cap picked) = 0
      BY <3>1, FS_EmptySet, Zenon
    <3> DEFINE a == Cardinality(futures[s])
               b == Cardinality(picked)
    <3>4. Cardinality(futures'[s]) = a + b - 0
      BY <2>7, <3>2, <3>3, Zenon
    <3>5. a \in Nat /\ b \in Nat /\ Workers \in Nat /\ b <= Workers - a
      BY <1>2, <2>5 DEF free
    <3> HIDE DEF a, b
    <3>6. Cardinality(futures'[s]) <= Workers
      BY <3>4, <3>5
    <3> QED BY <1>1, <2>5, <2>7, <3>6 DEF Pool
  <2>10. ASSUME NEW t \in Thread PROVE Held(s, t)'
    <3>1. CASE t \in picked
      <4>1. worker[s][t].at = "none"
        BY <1>1, <2>5, <3>1 DEF Held
      <4> QED BY <1>1, <2>1, <2>6, <2>7, <3>1, <4>1, PoolAssumption, MainAssumption
          DEF Held, InTick, InGit
    <3>2. CASE t \notin picked
      BY <1>1, <2>1, <2>7, <2>8, <3>2 DEF Held
    <3> QED BY <3>1, <3>2
  <2> QED BY <1>1, <2>1, <2>7, <2>8, <2>9, <2>10, LoopsHold
<1> QED BY <1>3, <1>4, <1>5, <1>6

(* A server that ends has no worker in a tick; one that dies lets go of    *)
(* what its workers held.                                                  *)
LEMMA LeavesHold ==
  ASSUME ServerInv, DispatcherInv', NEW s \in Server, shutdown(s) \/ Crash(s)
  PROVE  ServerInv'
<1>1. /\ DispatcherInv /\ Rows /\ Listed /\ Shape
      /\ \A t \in Thread : Held(s, t) /\ pending[t] \in Nat /\ pending[t] >= pending[t]
      /\ lock \in [Thread -> Server \cup {Cli, NoOne}]
  BY DEF ServerInv, Holding, DispatcherInv, Rows
<1>2. /\ futures' = [futures EXCEPT ![s] = {}]
      /\ worker' = [worker EXCEPT ![s] = [t \in Thread |-> Idle]]
      /\ instance' = NoOne /\ UNCHANGED <<rows, repo>>
  BY DEF shutdown, Crash
<1>3. /\ futures'[s] = {} /\ \A t \in Thread : worker'[s][t] = Idle
      /\ \A r \in Server : r # s => worker'[r] = worker[r] /\ futures'[r] = futures[r]
  BY <1>1, <1>2 DEF Shape
<1>4. /\ \A t \in Thread : lock'[t] # s /\ git' # <<s, t>>
      /\ \A r \in Server, t \in Thread : r # s => /\ lock'[t] = r <=> lock[t] = r
                                                  /\ git' = <<r, t>> <=> git = <<r, t>>
      /\ lock' \in [Thread -> Server \cup {Cli, NoOne}]
      /\ git' \in (Server \X Thread) \cup {Cli, NoOne}
  <2>1. CASE shutdown(s)
    <3>1. UNCHANGED <<lock, git>> /\ \A t \in futures[s] : worker[s][t].at = "done"
      BY <2>1 DEF shutdown
    <3>2. ASSUME NEW t \in Thread PROVE lock[t] # s /\ git # <<s, t>>
      BY <1>1, <3>1 DEF Held, InTick, InGit
    <3> QED BY <1>1, <3>1, <3>2 DEF Rows
  <2>2. CASE Crash(s)
    <3>1. /\ lock' = [t \in Thread |-> IF lock[t] = s THEN NoOne ELSE lock[t]]
          /\ git' = IF git \in {s} \X Thread THEN NoOne ELSE git
      BY <2>2 DEF Crash
    <3>2. \A r \in Server, t \in Thread : NoOne # r /\ NoOne # <<r, t>>
      BY HolderAssumption
    <3>3. \A r \in Server, t \in Thread : r # s => <<r, t>> \notin {s} \X Thread
      OBVIOUS
    <3>4. \A t \in Thread : <<s, t>> \in {s} \X Thread
      OBVIOUS
    <3>5. \A t \in Thread : git' # <<s, t>>
      BY <3>1, <3>2, <3>4
    <3>6. \A r \in Server, t \in Thread : r # s => (git' = <<r, t>> <=> git = <<r, t>>)
      BY <3>1, <3>2, <3>3
    <3>7. git' \in (Server \X Thread) \cup {Cli, NoOne}
      BY <1>1, <3>1 DEF Rows
    <3> QED BY <1>1, <3>1, <3>2, <3>5, <3>6, <3>7
  <2> QED BY <2>1, <2>2
<1>5. Rows' /\ Listed' /\ pending' = pending
  BY <1>1, <1>2, <1>4 DEF Rows, Listed, rows, repo
<1>6. Pool(s)'
  BY <1>3, PoolAssumption, FS_EmptySet DEF Pool
<1>7. ASSUME NEW t \in Thread PROVE Held(s, t)'
  BY <1>3, <1>4, PoolAssumption, MainAssumption DEF Held, Idle, InTick, InGit
<1> QED BY <1>1, <1>3, <1>4, <1>5, <1>6, <1>7, LoopsHold

(* The operator takes a lock that nobody holds, and the clock none.        *)
LEMMA OperatorHolds ==
  ASSUME ServerInv, DispatcherInv', NEW t \in Thread,
         BackoffEnds(t) \/ operator_locks(t) \/ operator_opens(t) \/ operator_unlocks(t)
  PROVE  ServerInv'
<1>1. /\ DispatcherInv /\ Rows /\ Listed
      /\ lock \in [Thread -> Server \cup {Cli, NoOne}]
      /\ backoff \in [Thread -> {"none", "new", "due"}]
      /\ git \in (Server \X Thread) \cup {Cli, NoOne}
  BY DEF ServerInv, Rows
<1>2. UNCHANGED <<pending, jobs, order, failures, failed, repo, instance, futures, worker>>
  BY DEF BackoffEnds, operator_locks, operator_opens, operator_unlocks, rows, procs
<1>3. backoff' \in [Thread -> {"none", "new", "due"}]
  BY <1>1 DEF BackoffEnds, operator_locks, operator_opens, operator_unlocks, rows
<1>4. \A r \in Server, u \in Thread :
        Cli # r /\ NoOne # r /\ Cli # <<r, u>> /\ NoOne # <<r, u>>
  BY HolderAssumption
<1>5. /\ \A r \in Server, u \in Thread : lock'[u] = r <=> lock[u] = r
      /\ lock' \in [Thread -> Server \cup {Cli, NoOne}]
  <2>1. \/ lock' = lock
        \/ lock[t] = NoOne /\ lock' = [lock EXCEPT ![t] = Cli]
        \/ lock[t] = Cli /\ lock' = [lock EXCEPT ![t] = NoOne]
    <3>1. CASE BackoffEnds(t) \/ operator_opens(t)
      BY <3>1 DEF BackoffEnds, operator_opens
    <3>2. CASE operator_locks(t) \/ operator_unlocks(t)
      BY <3>2, Zenon DEF operator_locks, operator_unlocks, Unlock
    <3> QED BY <3>1, <3>2
  <2>2. ASSUME NEW u \in Thread, u # t PROVE lock'[u] = lock[u]
    BY <1>1, <2>1, <2>2
  <2>3. lock'[t] = lock[t] \/ {lock[t], lock'[t]} \subseteq {Cli, NoOne}
    BY <1>1, <2>1
  <2>4. ASSUME NEW r \in Server, NEW u \in Thread PROVE lock'[u] = r <=> lock[u] = r
    <3>1. CASE u # t
      BY <2>2, <3>1
    <3>2. CASE u = t
      BY <1>4, <2>3, <3>2
    <3> QED BY <3>1, <3>2
  <2>5. lock' \in [Thread -> Server \cup {Cli, NoOne}]
    BY <1>1, <2>1
  <2> QED BY <2>4, <2>5
<1>6. /\ \A r \in Server, u \in Thread : git' = <<r, u>> <=> git = <<r, u>>
      /\ git' \in (Server \X Thread) \cup {Cli, NoOne}
  <2>1. \/ git' = git
        \/ git = NoOne /\ git' = Cli
        \/ git = Cli /\ git' = NoOne
    BY DEF BackoffEnds, operator_locks, operator_opens, operator_unlocks
  <2>2. ASSUME NEW r \in Server, NEW u \in Thread PROVE git' = <<r, u>> <=> git = <<r, u>>
    BY <1>4, <2>1
  <2>3. git' \in (Server \X Thread) \cup {Cli, NoOne}
    BY <1>1, <2>1
  <2> QED BY <2>2, <2>3, Zenon
<1>7. Rows' /\ Listed'
  BY <1>1, <1>2, <1>3, <1>5, <1>6 DEF Rows, Listed, repo
<1>8. \A r \in Server : Pool(r)'
  BY <1>2 DEF ServerInv, Pool
<1>9. ASSUME NEW r \in Server, NEW u \in Thread PROVE Held(r, u)'
  BY <1>2, <1>5, <1>6 DEF ServerInv, Holding, Held
<1> QED BY <1>7, <1>8, <1>9 DEF ServerInv, Holding

-----------------------------------------------------------------------------
(* What servers and workers hold, in every reachable state.                *)
THEOREM ServerInductive == Spec => []ServerInv
<1>1. ServerInv /\ DispatcherInv' /\ [Next]_vars => ServerInv'
  <2> SUFFICES ASSUME ServerInv, DispatcherInv', [Next]_vars PROVE ServerInv'
    OBVIOUS
  <2>1. ASSUME NEW s \in Server, acquire_instance(s) \/ Loop(s) \/ stop(s) \/ Crash(s)
        PROVE  ServerInv'
    BY <2>1, PassesHold, LeavesHold DEF Loop
  <2>2. ASSUME NEW s \in Server, NEW t \in Thread,
               Draining(s, t) \/ driver_raises(s, t) \/ worktree_add_fails(s, t)
        PROVE  ServerInv'
    BY <2>2, DrainsHold
  <2>3. ASSUME NEW t \in Thread,
               BackoffEnds(t) \/ operator_locks(t) \/ operator_opens(t) \/ operator_unlocks(t)
        PROVE  ServerInv'
    BY <2>3, OperatorHolds
  <2>4. CASE UNCHANGED vars
    <3>1. UNCHANGED <<rows, repo, procs, lock, git>>
      BY <2>4 DEF vars
    <3>2. Rows' /\ Listed' /\ \A t \in Thread : pending[t] \in Nat /\ pending'[t] >= pending[t]
      BY <3>1 DEF ServerInv, Rows, Listed, rows, repo, procs
    <3>3. UNCHANGED <<futures, worker, lock, git>>
      BY <3>1 DEF procs
    <3> QED BY <3>2, <3>3, StillHolds
  <2> QED BY <2>1, <2>2, <2>3, <2>4 DEF Next
<1> QED BY <1>1, ServerBegins, DispatcherInductive, PTL DEF Spec

(* No more than Workers threads have a worker, and the locks of threads    *)
(* and repository are held exactly by the workers inside a tick and inside *)
(* the creation of a worktree, whatever raises, dies or is stopped.        *)
THEOREM DispatcherTypes == Spec => []TypeOK
<1>1. ServerInv => TypeOK
  <2> SUFFICES ASSUME ServerInv PROVE TypeOK
    OBVIOUS
  <2>1. /\ DispatcherInv /\ Shape /\ Rows /\ Listed /\ MaxMain \in Nat /\ MaxTicks \in Nat
    BY PoolAssumption, MainAssumption DEF ServerInv, DispatcherInv
  <2>2. futures \in [Server -> SUBSET Thread]
    BY <2>1 DEF Shape, ServerInv, Pool
  <2>3. \A s \in Server : Cardinality(futures[s]) <= Workers
    BY DEF ServerInv, Pool
  <2>4. ASSUME NEW s \in Server, NEW t \in Thread
        PROVE  /\ worker[s][t].at \in Step /\ worker[s][t].ticks \in 0 .. MaxTicks
               /\ worker[s][t].base \in 0 .. MaxMain + 1
               /\ worker[s][t].at # "none" <=> t \in futures[s]
               /\ lock[t] = s <=> worker[s][t].at \in InTick
               /\ git = <<s, t>> <=> worker[s][t].at \in {"create", "branch", "attach", "checkout"}
    <3>1. worker[s][t] \in WorkerState /\ Held(s, t)
      BY <2>1 DEF Shape, ServerInv, Holding
    <3> QED BY <2>1, <3>1 DEF WorkerState, Held, InGit
  <2>5. main \in 1 .. MaxMain
    BY <2>1 DEF Shape, Rows
  <2>6. \A t \in Thread : tree[t] # "none" => branch[t] # 0
    BY <2>1 DEF DispatcherInv, Remains
  <2> QED BY <2>1, <2>2, <2>3, <2>4, <2>5, <2>6 DEF TypeOK, Rows, Listed, Shape
<1> QED BY <1>1, ServerInductive, PTL
=============================================================================
