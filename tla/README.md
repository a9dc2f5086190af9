# A TLA+ development of SWEForge

SWEForge turns GitHub issues into agent runs. A poller records GitHub comments in
SQLite, a dispatcher drives one IssueThread at a time per worker, a controller
advances the thread's workflow, an agent plans, executes and validates each task
behind phase gateways, humans approve plans and results by comment, and a publisher
pushes one branch and one pull request. All authority lives in SQLite rows; everything
else may be lost in a crash at any moment.

## Inventory

| Component | State it keeps | Operations | What makes it correct |
|---|---|---|---|
| Task lifecycle (`workflow_runtime.py`) | cycles, task runs, plans, permits, executions, validations, results, result approvals | one transaction per method | one owner at a time; work only under one exact, current permit; a completed cycle is provably accepted; an approval is used once |
| Workflow specification (`workflow_spec.py`) | none (parsed, digested) | parse, derive a revision | dependencies declared and acyclic; a revision has one task |
| Controller, driver, tools (`workflow_controller.py`, `workflow_driver.py`, `workflow_agent_runtime.py`, `workflow_tools.py`) | input consumptions and claims, revision inputs, feedback reviews, agent checkpoint | one tick: route, settle, steer, wait or drive, mark | an input is delivered to the occurrence it was bound to, once, whatever crashes |
| Phase middleware (`workflow_middleware.py`) | none durable | filter and re-check tool calls | no mutation outside an authorized execution |
| Publication (`github_publisher.py`, `github_store.py`) | logical publications, branch, pull request, comment, cycle status, learning jobs | commit, push, create or find the PR, comment, finalize | a crash and a retry reuse the same commit, PR and comment; nothing is published past pending steering |
| Dispatcher (`server.py`, `execution_locks.py`, `workspace.py`) | futures, failure counts, back-off, file locks, worktrees | poll, submit, drain, give up, create or reattach a worktree | one process in a thread at a time; bounded failures, no thread stranded; a worktree stays on the commit it was created at |
| Ingestion and comment outbox (`github_poller.py`, `github_store.py`, `workflow_comment_delivery.py`) | cursors, source events, routing, outbox rows | poll a stream, record a batch, map a pull request, settle, reconcile by marker, retry | each comment recorded once, none lost at a cursor boundary, each answered once |
| Learning (`workflow_learning.py`, `memory_learning.py`, `repo_memory.py`) | learning jobs, candidates, resolution cases, the repository memory | claim, curate, append, settle | bounded attempts, only finalized work, no entry lost or entered by two batches |
| Legacy workflow (`workflow.py`, `execution.py`) | phase row, plan, permits, attempts, repairs, questions | one tick: claim, plan, wait, execute, review, repair | the plan that runs is the one that was approved; accepted work was reviewed; bounded repairs |
| Reviewer (`reviewer.py`) | none durable | contract, inspection, specialists, finalizer, guards | an ACCEPT rests on facts the tools returned, for every requirement |
| Repository configuration (`repo_config.py`), agent construction, transport, command line | see `PROJECT.json` | | |

The hard behaviours are crashes between transactions, comments that arrive while an
occurrence is being replaced, stale occurrence keys, external effects (push, pull
request, comment) performed before they are recorded, steering that arrives while
work is being published, lists that GitHub extends late, and two processes started on one
database. `PROJECT.json` lists them as hazards, each at its line.

How the components meet: ingestion writes the events that the controller and the legacy
workflow consume; the dispatcher decides who ticks which thread, under the IssueThread
lock; the controller calls the task lifecycle; a completed cycle is published; a finalized
publication opens learning jobs, which the dispatcher drains before it ticks again. Each
module models one of these and keeps of its neighbours only the interface it uses, so the
actions that stand for a neighbour (`publisher_completes` in `LegacyWorkflow`, `publish`
in `ThreadController`, `pending` in `Dispatcher`) say no more than the rows they read.

## Modules

### WorkflowRuntime

The rows of the latest cycle of one IssueThread; one action per method of
`WorkflowRuntime`. Each method body is one `BEGIN IMMEDIATE` transaction, so it is one
atomic action, and an exception rolls back, so a raised condition is a guard. Only
`initialize_cycle` commits twice: the model splits it (`initialize_cycle`,
`activate_initial_workflow`) and lets the worker die in between
(`CrashBeforeActivation`).

Data is reduced to what identifies authority. A plan is its version (its digest and its
approval occurrence key are functions of task and version), an execution its attempt, a
validation its round, a result the triple its occurrence key is built from. Tables are
sets of rows; the rows whose `invalidated_at` is set form a companion "revoked" set.
`occurred_at` and `now` are GitHub's timestamps, which the code compares strictly.
Summaries, evidence and prompts are dropped.

The environment is nondeterministic: which verdict the validating agent reports, when it
asks, when the dispatcher gives up, which comment is delivered for which (possibly stale)
occurrence. An operator named in a comment as a *slip* is a plausible mistake in the code
next to it; no specification uses slips. They are substituted for the real definition to
show that a property can fail.

`MCWorkflowRuntime` holds the instances.

### TaskLifecycle

What the rows promise to people, without plans, attempts, rounds or occurrence keys: per
task a stage (`waiting`, `planning`, `offered`, `working`, `delivered`, `done`, `failed`),
who allowed the work, and which comments of the cycle were used. `WorkflowRuntime`
instantiates it as `Lifecycle` with a mapping: `StageOf` folds the phases (a task that
waits for input keeps the stage it asked from; execution, validation and rework are
`working`), the authority of a task is the author of its open permit, the used comments
are those of permits and result approvals. `KeepsLifecycle` is the claim.

### WorkflowRuntimeProofs

The theorems about `WorkflowRuntime`, with no bound on tasks, comments, plans or time.
Its second part proves `KeepsLifecycle`. `LearningProofs`, `DispatcherProofs`,
`IngestionProofs`, `PublicationProofs`, `LegacyWorkflowProofs`, `ThreadControllerProofs`
and `ExecutionReviewProofs` do the same for their modules.

### ThreadController

How comments reach the workflow of one IssueThread in MANUAL mode: `record_batch`'s
classification, the controller's tick, the agent's lifecycle gateways and the
dispatcher's runnable predicate. Where `WorkflowRuntime` asks whether each transaction is
right, this module asks whether their *sequence* is. A tick is a chain of transactions,
GitHub posts and checkpoint writes; each is one action, `pc` says which comes next, and
`Crash` may strike between any two. What a restart loses is exactly `tickVars`; rows, the
conversation and the checkpoint's interrupt survive. People write (`Post`) and the poller
ingests (`record_batch`) at any moment, in any order across surfaces.

The conversation `log` is the clock: an entry's position is its `created_at`, so an event,
a plan and a result are positions, and a plan or result is the occurrence it opens. A
question's occurrence key is a hash of phase and text, so asking the same thing again is
the same occurrence; `MaxTexts` bounds the texts. A cycle has one task, and `EXECUTING`
stands for `EXECUTING` and `VALIDATING`; scheduling and rework inside a task are in
`WorkflowRuntime`. A published cycle is one step here and a module of its own below.
`MAX_DECLARATIVE_DRIVER_FAILURES` is the constant `MaxFailures`; the instances take 2
instead of 3, which keeps "fail, retry, give up". A person's comment is an exact
approval (`approve`) or anything else (`say`); the log keeps a slot free for the comment
the worker is about to post, so the bound stops people and never the worker.

`MCThreadController` holds the instances.

### Publication

`GitHubPublisher`, the `logical_publications` rows, their finalization, the publication
branch of the drain loop, and the operator's retry. Two kinds of process publish: the
server's worker, which finalizes what it published, and `sweforge-github-publish`, which
does not. Both read the row *before* they take the IssueThread lock, and the copy they
read is a variable (`rec`). Each Git, GitHub or database step is an action, so an effect
whose response is lost is the effect followed by `Exception` or `Crash`.
Worktree and commits are their content, the branch is linear, pull requests and comments
are counted. Other people may push to the branch, open a pull request from it, or steer.

`MCPublication` holds the instances.

### LegacyWorkflow

The single-plan engine that threads without a bound workflow specification take:
`WorkflowEngine.advance` as a dispatch on the phase row, one action per transaction, model
run or GitHub post of each branch, `execute_one` and its recovery on restart, reviews and
bounded repairs, questions, deferred follow-ups, the operator's retry, skip and
recover-stale commands. An event is the time its comment was written, so "newer than the plan
comment" is `>`, and `log` has its row once `record_event` recorded it. The poller lists comments
in any order: the streams of an issue and of its pull requests are polled one by one, and
GitHub lists some late. `late`, a history variable, has those that a younger event preceded. A
review may end in three ways: with a verdict, with a `ReviewFinalizationError`, which is
counted, or with any other error, which is not (`review_raises`). The workspace is one bit:
whether what it holds is what the last saved review saw. That is what `_persist_review_result`
compares, and what a later agent run destroys.

### ExecutionReview

`review_execution`: the requirement contract built from issue and plan, up to two
inspections with a limit on reads, two specialists, a finalizer, and the guards that turn
an unearned ACCEPT into BLOCKED. The models' answers are input, any artifact of small sets
given in `MCExecutionReview`: complete and missing coverage, citations of reads that
never happened, line ranges that are absent or wrong, duplicated requirements,
specialist reports that reviewed too little, finalizers that accept everything. Texts are
literals whose classification by the code's regular expressions is a constant. A document is
its requirement items, how many of them fit in the characters the code reads (4,000 of the
issue, 12,000 of the plan, `MAX_REQUIREMENT_SOURCE_CHARS` and `MAX_REQUIREMENT_PLAN_CHARS`),
and what is left of the one the cut falls into; `Bounded` is what the extraction sees.

### Dispatcher

`SWEForgeServer.run` of several server processes on one database, worker slots, futures,
back-off, failure counts, giving up, stopping and dying; the instance lock, the IssueThread
locks and the repository Git lock; and `ensure_thread_workspace` step by step with what a
death in the middle leaves behind. What a tick does is `ThreadController`'s concern, so a
thread's work is a number of ticks. The one real-time fact used is that the shortest
back-off (5 seconds) outlasts one pass of the loop (0.25 seconds).

### Ingestion

`poll`: read the cursor, fetch, record the batch, move the cursor, stream by stream, while
GitHub lists comments late, people edit the issue and its label, and any request, write or
process fails; the mapping of the pull request to its thread and the routing of events that
came before it; and `deliver_pending_workflow_comments`, which posts each answer behind a
marker, looks for the marker first, and leaves an ambiguous row (somebody quoted the
marker) to an operator.

### Learning

The jobs that finalization opens, `publication_generation`, the claim that counts an
attempt before the model is called, curation, the append under the memory lock, the
settlement of each candidate, the resolution case, and deaths between any two writes. A batch
has a candidate for each proposal of the generation and each time the curator names a fact
(`Batch`, at most `MaxCurated` times), so it may name one twice; the memory counts the entries
of a fact.
`OperatorSpec` adds `sweforge-repo-memory`, which appends outside that lock.

## Runs

| Run | Checks | Why this instance |
|---|---|---|
| `runtime_manual` | `SerialOwnership`, `ExactAuthority`, `CompletedCycleProven`, `SingleUseApproval`, `DoneIsFinal`, `KeepsLifecycle` | two tasks, the first declared depends on the second; two plans and two attempts each; four comments, the number two tasks need, and five clock values, so that equal timestamps occur |
| `runtime_auto` | `CycleSettles` under `FairSpec` | AUTO removes human approval, so only the system's own steps are left to be fair |
| `runtime_revision` | `IInvTimed` | a second, REVISION cycle and steering replans, both modes; `IInvTimed` is the invariant the proofs use, with `TypeOK` and the safety properties among its parts |
| `controller_restart` | `ClaimsTruthful`, `UsedOnce`, `AuthorityFromItsConversation`, `PlanCoversInputs` | a thread whose initial workflow is complete, published or not, being revised; two surfaces, three comments and one death of the worker: enough for a claim to be left behind, for two comments to compete for it, and for steering between plan and result |
| `controller_live` | `ClaimsReconciled`, `ApprovalDelivered` under `FairSpec` | an initial workflow, two comments, one death: the approval is bound, the worker dies before or after it is applied, the claim is replayed or settled |
| `controller_lost_interrupt` | `AnswersSurviveRestart` under `FairSpec`, violated | one comment and one death; see Findings |
| `publication` | `OneOutput`, `PublishedIsAccepted`, `PublicationSettles` under `FairSpec` | server and operator, two cycles, so that a branch and a pull request already exist, one fault anywhere and one retry |
| `legacy` | `RunsTheApprovedPlan`, `AcceptedWorkIsReviewed`, `NoInputLost`, `RepairsBounded`, `SuccessIsFinal`, `ReviewSettles` under `AnsweredSpec` | two events recorded in either order, two plan versions, one repair, one question, one operator command and two deaths: a replan, a repair that is itself killed until its bound, and a late comment during either. One surface, as no property mentions one; with two, the safety properties hold of 1.7 million states under `Spec` |
| `review` | `NothingIsLeftOut`, `AcceptIsEarned`, `DoubtsPreventAcceptance`, `ReviewAdvances` | four files, one large, one without a diff section, a directory; two requirements of each kind of proof; issues and plans that end before the cut, at it and past it; two reads per inspection, a catalog that overflows at two |
| `dispatcher` | `TypeOK`, `OneDrainer`, `FrozenBase`, `WorkIsServed` under `FairSpec` | two servers, one worker slot, two threads of which one cannot be loaded, one death and two failures: a slot that fails over and over beside a thread that waits for it |
| `ingestion` | `NothingSkipped`, `NoReplay`, `AnsweredOnce`, `InputsSettle` under `FairSpec` | two comments, one on the pull request, three clock values, a listing delay equal to the overlap, two edits, one fault |
| `learning` | `GenerationsExact`, `AcceptedIsRemembered`, `EntriesStay`, `CallsBounded`, `LearningAdvances` | two threads that learn the same fact, two publications, a generation of two cycles, two attempts (the code allows three, which keeps "fail, retry, give up"), a curator that names the fact beside a proposal, one death; threads are symmetric |

Every module has a type invariant; where no run lists it, a proof's invariant or the other
properties contain what it says, and it holds under the run's instance. The three
invariants of `review` are conjunctions of named parts, each broken by a slip of its own
(also `contract_counts_repeats`, `coverage_of_returned_checks`, `absence_needs_no_scope`,
`unavailable_only_listed`).

`CHECK_DEADLOCK FALSE` everywhere but `review`: a thread whose cycle awaits publication,
failed or waits for a person who never answers has nothing left to do, and the bounds stop
counters. A review never waits for anybody, so there deadlock is checked.

Fairness. In `WorkflowRuntime`, `FairSpec` makes scheduler and driver steps weakly fair:
the dispatcher re-submits a runnable thread until it waits or stops, and an agent run that
ends without a gateway call counts as a failure, after three of which `fail_active_task`
runs. Answers to clarifications are the person's promise and are assumed fair only there.
Nothing is assumed about crashes, feedback or giving up. Repair and replan budgets are
bounded by `MaxPlans` and `MaxAttempts`, which the code does not bound for declarative
tasks: the liveness run shows that no *finite* amount of rework strands a cycle.

In `ThreadController`, the worker and ingestion are weakly fair: the dispatcher ticks a
thread again as long as the runnable predicate holds (the guard of the first step of a
tick), and the poller keeps polling. In `Publication`, the server's `next_publication` and
the steps of a publication under way are weakly fair, for the same reason; a tool that the
operator started runs on, and that it is started is not assumed. In `LegacyWorkflow`, the
worker's ticks are. That is not enough for `ReviewSettles`: an error that is not counted may
end every review (Findings). `AnsweredSpec` adds `ProviderAnswers`, strong fairness of "a
review comes to a verdict or fails to finalize". It is an assumption about the provider, not
about the code, and strong because each error takes the worker out of the review. In
`Dispatcher`, some server runs its loop, a drain that has started goes on, a back-off ends, and the operator's command ends and drops its
lock; nothing makes a server fail or succeed. In `Ingestion`, GitHub lists what was written,
the server polls and the thread is ticked. The last is optimistic in one state: a thread whose
cycle awaits a publication that `FAILED` is not runnable (`github_store.py:8275`-`8289`) until
somebody retries it or a revision is pending, so its inputs settle when that happens. Elsewhere
weak fairness is enough because nothing that is assumed fair is disabled again and again by
somebody else's steps, except a worker slot in `Dispatcher`: there the property is about the loop's own back-off, which
keeps a failing thread out of the slot.

`ReviewAdvances` and `LearningAdvances` are progress without fairness: action properties
that say each step lowers a measure, so that no run of steps is endless.

## Proofs

`Inductive` proves `Spec => []IInv`. None of the safety properties is inductive alone:
that a completed task is provable needs to know that rounds and attempts advance in
lockstep, that each attempt has one decision, and that the newest result is the current
attempt's, and these need to know which plan an open permit covers. `IInv` states this per
table (`PlanLedger`, `PermitLedger`, `WorkLedger`, `ResultLedger`, `WaitLedger`,
`AuthorityLedger`), plus `SerialOwnership` and `CycleLedger`. The proof has one lemma per
action. From it follow `TypeCorrect`, `OwnershipIsSerial`, `AuthorityIsExact`,
`CompletedIsProven` and, as an action property, `DoneStaysDone`. `ApprovalIsSingleUse`
adds `TimeInv`: nothing is dated in the future, and no comment already used is newer than
the occurrence that now waits, so the strict comparison rejects it. `TimedInductive` is the
conjunction of the two, the invariant `runtime_revision` checks.

`RuntimeKeepsLifecycle` proves that `WorkflowRuntime` implements `TaskLifecycle`. Again
each action has its lemma, which says which abstract step it is, or that it is none
(`Invisible`). Three facts carry it: the owner is the only task under way (`Start` is
allowed), an open permit belongs to a task past planning and is one (`authority` is a
function of the rows), and a comment newer than the waiting occurrence was not used before
(`Fresh`), which needs `TimeInv`.

`LearningInductive` (`LearningProofs`) has four ideas. Only the holder of the memory lock
is about to write, and its copy holds all that the memory holds and all that it validated
(`Writer`): that is why the write loses nothing. What a worker believes to be supported is
validated before the append and in the memory after it (`Evidence`). The row counts the
attempt before the model is called, so the calls never outnumber the attempts
(`Attempts`). `AcceptedStaysRemembered` and `CallsStayBounded` follow, and the action property
`EntriesAreKept`, because an append adds what its copy lacks and the copy is the memory; `GenerationsStayExact` is a
fact about `publication_generation` alone, with the oldest publication as the witness.
`LearningGoesOn` is the action property: a claim takes an attempt from a finite set, the row
stays open until the attempt is saved with the same count, so the save gives nothing back,
and every other step, and the death, lowers the worker's position, which weighs less than
one attempt however many records there are to settle (`Nearer`, `NearerIsLess`).

`DispatcherInductive` (`DispatcherProofs`) rests on two. A server that runs has the
instance lock and one that does not has no workers (`Exclusive`), so a worker's step
concerns its own thread only (`WorkerSteps`), and `ServersStayExclusive` follows. As long
as no base is recorded, nothing was committed on the branch, so its HEAD is the commit it
was created at (`Remains`); a worker in the middle of creation relies on no more
(`Creating`), whoever left what it found. `BaseStaysFrozen` follows. `ServerInductive` adds
what is held: a worker inside a tick has the thread's lock, a tick left and something to do,
and nobody else takes any of them (`Held`); a submission fills the free slots and no more
(`FirstOfFits`, which bounds the first n of a set of positions by its last one), so a pool
never outgrows `Workers` (`Pool`). `DispatcherTypes` follows.

`IngestionInductive` (`IngestionProofs`) has one idea for each of the two things that
can be late. GitHub may list a comment after it moved on, so what it does not list yet was
written within the overlap (`Listing`). A batch may be recorded after another process moved
the cursor, so what a batch does not bring and nobody recorded is ahead of the cursor the
batch will write (`Ahead`); that makes `NothingIsSkipped` hold with any number of pollers.
`Answers` relates the outbox to what is on GitHub: a row that says DELIVERED is right, and
a marker that was quoted was posted, from which `AnswersAreSingle` follows.
`BodiesAreNotReplayed` assumes one process that polls: then bodies are observed in the
order of the edits (`Bodies`). With two it does not hold (Findings).

`PublicationInductive` (`PublicationProofs`) says that the worktree holds the latest
cycle's accepted work (`Cycles`), that what a row says is so, whatever became of the process
that wrote it (`RowHolds`), and what each process relies on at each of its steps (`Held`).
The last is the point of the proof: the row is read before the lock is taken, so a process
works from an old copy, and the copy says less than the row, never something else. Hence
repeating a step is harmless. `OutputStaysSingle` and `PublishedStaysAccepted` follow.

`LegacyInductive` (`LegacyWorkflowProofs`) has a part for each thing that moves on its own.
A permit that is not void is of the current version, and the phase says whether there is one
(`Authority`). Attempt, execution and verdict agree, so a verdict belongs to the work it
judged (`Work`). Each repair round is run once, and once more for every death that was
counted (`Rounds`). What a step of the tick relies on survives what people, the operator and
the publisher do meanwhile (`Volatile`). What was not recorded late and nobody disposed of lies
after the cycle's root and, while a plan runs, after what is queued, so that opening the next
cycle skips nothing (`Inputs`); of what was recorded late nothing is claimed.
`PlanStaysApproved`, `ReviewedIsPublished`, `InputsAreKept`, `RepairsStayBounded` and `SuccessStaysFinal` follow.

`ControllerInductive` (`ThreadControllerProofs`) follows a comment to its use. A disposition
is of an ingested comment and there is only one (`Disposed`); a claim is bound to what it
answers, in the same conversation and later (`Bound`). Plans and results of a cycle only move
forward in the log, so a decided occurrence is never open again (`Decided`, `Shown`). The
tick remembers what it found in earlier steps, and each step says what of that still holds
(`Underway`). Unless a worker died, the last plan comment of a cycle is its plan, and what
the revision batched lies before it (`Covered`). In the initial workflow at most one claim is
unsettled (`Single`). `ClaimsStayTruthful`, `CommentsAreUsedOnce`,
`AuthorityStaysInConversation`, `PlansCoverInputs` and `ClaimsStayReconciled` follow. The
last is about an active cycle: a task that fails keeps its claim, which the runs' bounds on
the log are too small to show and the attempt to prove it did show.

`ReviewInductive` (`ExecutionReviewProofs`) is an invariant of what was made out of the
models' answers, which may be anything `ArtifactAssumption` admits. The request, the
changes and the contract stay as they were (`Frozen`), reads and attempts are counted
(`Counted`), the guarded report keeps open what could not be inspected (`Reported`), and a
specialist's stage says of its answer what a blocker needs to be heard (`Heard`). An ACCEPT
has passed the guard on the very evidence that is there when it leaves (`Guarded`): the
evidence is settled before the finalizer is asked, so the guard's questions keep their
answers, and a verdict that the code rewrites after the guard is no longer an ACCEPT. That the
contract asks for every requirement it read, once, is a fact about its construction alone, by
lemmas on what is read of a document, on first occurrences in a list and on the counter of each
prefix. `NothingStaysOut`,
`AcceptStaysEarned` and `DoubtsPrevent` follow, and `ReviewEnds`, an action property: the
measure of `ReviewAdvances` falls with every step, so a review ends without any fairness.

The assumptions are those named in the modules: at least one task, dependencies among
the tasks, one task in a revision, AUTO's identity is not a comment; at least one cycle,
attempt and commit; finitely many facts to learn; nobody is not a thread, a server, a
worker or a publisher; a pool has a slot, a drain a tick and a thread a failure to spend;
GitHub's delay is within the overlap, and the issue's body is not a comment; the reviewer's
files have a role, and its models return what pydantic admits: lists of records with the
declared fields (`ArtifactAssumption`). Acyclicity of the dependencies is not needed for
safety.

Only model-checked: the liveness properties, which are outside the prover, and the violation.
Every invariant and every action property of a passing run is stated by a theorem.
`MappedIsRouted` is proved and in no run: a mapping that routes nothing (`map_without_routing`)
also breaks `InputsSettle`.

## Findings

The run `controller_lost_interrupt` keeps one disagreement between the code and what the
repository says of it: the waiting phase is committed before the interrupt reaches the
checkpoint. If the worker dies in between, later ticks find a wait without an interrupt
and return; no approval or answer is ever delivered, where `README.md:724` says that nobody
should have to repeat one because a worker restarted.

Others were met while modelling. Those with a property are reproduced by changing an
instance as stated.

| Behaviour of the code | What says otherwise | To reproduce |
|---|---|---|
| `initialize_cycle` commits the cycle and activates the lifecycle row in a second transaction (`workflow_runtime.py:277`); after a crash in between, the cycle completes and nothing can follow it | `README.md:637` "later independent steering is handled by a derived" revision | `RuntimeManual.cfg` with `NumTasks = 1`, `Deps <- NoDeps`, `MaxPlans = 1`, `MaxAttempts = 1`, `MaxTime = 3`, `Event = {e1, e2}`, `INVARIANT CompletionUnlocksRevision` |
| Steering after feedback was deferred sends the task to `PLANNING` but leaves the review in `DEFERRED_WAITING` (`workflow_runtime.py:765`), for which `allowed_tools` authorizes only the deferral gateway: no plan can be submitted | `README.md:665` "batched into that same revision and triggers a replan" | `ControllerRestart.cfg` with `Surface = {issue}`, `MaxHuman = 4`, `MaxCrashes = 0`, `INVARIANT PlanningHasItsGateway` |
| Steering is batched and the revision replanned in two transactions (`workflow_controller.py:476`, `:483`); after a death in between, the plan never sees the input and the revision still consumes it | `README.md:665` | `ControllerRestart.cfg`, `PlanCoversInputs` without its conjunct `crashes = 0` |
| A claim without a decision is kept (`workflow_controller.py:1069`); if steering replaced its plan after a death, nothing ever decides it, and it hides later claims | `workflow_controller.py:123` | `ControllerRestart.cfg`, `INVARIANT ClaimsReconciled` without its conjunct `cycle = 1` |
| The pause is stamped before the question is posted (`workflow_runtime.py:1314`), so a comment written in between is taken as its answer | `README.md:713` "only because SWEForge asked first" | `ControllerLive.cfg`, `INVARIANT AskedFirst` |
| A question asked again has the key of its first posting and is not posted (`workflow_driver.py:492`) | `README.md:697` "posts the question back" | `ControllerLive.cfg` with `MaxTexts = 2`, `MaxCrashes = 0`, `INVARIANT QuestionIsAsked` |
| A comment recorded before the cycle exists is older than the plan, so the runnable predicate ignores it (`github_store.py:8334`) until another one wakes the thread | `README.md:618` "Every unsolicited actionable input is durably queued" | `ControllerLive.cfg` with `MaxCrashes = 0`, `PROPERTY InputSettled` |
| An outcome is recorded in one call and finalized in a later one (`server.py:476`); after a death in between `next_publication` refuses the row (`github_store.py:926`), and the operator's tool leaves every publication so | `github_publisher.py:1` "Crash-safe publication" | `Publication.cfg` with `Proc = {server}`, `Content = {base, t1, t2}`, `MaxCycles = 1`, `MaxRetries = 0`, `PROPERTY OutcomeIsFinalized` |
| A second publisher with a stale copy of the row marks a finalized publication `FAILED` (`github_publisher.py:75`), and it no longer closes its generation (`github_store.py:5602`) | `github_store.py:5579` "exact cycle membership" | `Publication.cfg` with the invariant that a cycle with a learning job has no `FAILED` publication |
| A revision that restores the base tree is `NO_CHANGES` (`github_publisher.py:166`), and the branch keeps the work it reverted | `README.md:791` "a single cumulative output" | `Publication.cfg` with `Proc = {server}`, `MaxCycles = 3`, `INVARIANT BranchShowsPublished` |
| A death while a plan executes leaves the legacy phase at `EXECUTING` when the attempt is exhausted; no later tick leaves it | `workflow.py:2531` "a later tick can safely recover after a process crash" | `Legacy.cfg`, `PROPERTY ExecutingIsLeft` |
| Events are ordered by `source_updated_at`, and `unconsumed_inputs` reads what lies after the latest root (`github_store.py:8087`): a comment that is recorded when a younger one is already the root is neither consumed nor deferred nor acknowledged. `NoInputLost` is therefore about events that no younger one preceded | `README.md:618` "Every unsolicited actionable input is durably queued for a safe boundary" | `Legacy.cfg` with `SPECIFICATION Spec`, `MaxCycles = 1`, `MaxVersion = 1`, the other bounds but `MaxEvents` 0, `INVARIANT IdleHasTakenUpAll` |
| `advance` counts a failed review only when it is a `ReviewFinalizationError` (`workflow.py:2751`); a provider, transport or structured-output error of the inspection (`reviewer.py:4063` catches the call limits only) leaves the tick uncounted and is retried without a bound. A death during a review is not counted either, whatever `github_store.py:4545` says of "a hard crash": the counter is written after the failure | `github_store.py:901` "Review-infrastructure failures (provider/structured-output) previously retried forever", `workflow.py:2754` "at the bound the thread fails closed instead of retrying forever" | `Legacy.cfg` with `SPECIFICATION FairSpec`, `MaxEvents = 1`, `MaxCycles = 1`, `MaxVersion = 1`, `MaxRecoveries = 1`, the other bounds 0, `PROPERTY ReviewFailsClosed` |
| A code observation about a file that did not change is accepted on a read of other lines when it names no range (`reviewer.py:3035`) | `reviewer.py:2973` "Grounding on the path alone would let an observation" rest on another read | `Review.cfg`, `INVARIANT ObservedLinesWereRead` |
| A requirement that named code stays unchanged is accepted although a file of that name changed, when the finalizer cites something else (`reviewer.py:730`) | the finalizer's own prompt: "any textual diff to that named code" contradicts it | `Review.cfg`, `INVARIANT UnchangedMeansUnchanged` |
| A death inside `git worktree add` leaves a directory that later calls accept as the worktree (`workspace.py:96`) | `README.md` "A crash mid-`worktree add` is recovered by reattaching the orphaned branch" | `Dispatcher.cfg` with `SPECIFICATION Spec`, `INVARIANT WorktreeIsWhole` |
| Two pollers both read the issue's old body, and the second records the edit again with the older body's timestamp (`github_store.py:2841`) | the observation row exists so that unchanged bodies are not replayed | `Ingestion.cfg` with `Poller = {server, cli}`, `MaxExtra = 1`, `NoReplay` |
| The operator's append reads, edits and writes `AGENTS.md` outside the memory lock (`repo_memory_cli.py:57`), and a learned entry is lost | `README.md:808` "the repository memory lock (one read-modify-write of `AGENTS.md`)" | `Learning.cfg` with `SPECIFICATION OperatorSpec`, `Thread = {t1}`, `Fact = {f1, f2}`, all bounds 1, `MaxCrashes = 0`, no symmetry: `AcceptedIsRemembered` |
| Issue and plan are cut at 4,000 and 12,000 characters before their items are extracted (`reviewer.py:772`, `:822`): a requirement past the cut is in no contract although there is room, and an ACCEPT says nothing of it | `reviewer.py:821` "deterministic, bounded contract" gives the bound and no warning | `Review.cfg`, `INVARIANT RequirementsPastTheCut` |
| `apply_memory_candidates` compares a batch with the memory before it (`memory_learning.py:351`), so two equal candidates of one batch, a proposal and the curator's own, both become entries | `README.md:846` "the same validator, deduplication and repository lock", `memory_learning.py:325` "append novel candidates" | `Learning.cfg` with `SPECIFICATION Spec`, `Thread = {t1}`, all bounds 1, `MaxCrashes = 0`, no symmetry, `INVARIANT RememberedOnce` |
| A failed learning attempt rejects the candidates it read although the job is retried (`workflow_learning.py:364`) | a rejection means that the evidence did not hold | `Learning.cfg`, `PROPERTY FailureRejectsNothing` |

Smaller ones, met while reading and without a property. Publication: a pull request that
somebody merged or closed is found by head and base and reused for a later cycle
(`github_publisher.py:218`). Controller: a plan comment whose worker dies before the row is
written is posted again, and an approval recorded in between goes unused
(`workflow_driver.py:391`); a deferral gateway whose worker dies before the checkpoint is
called again and finds its review closed (`workflow_tools.py:368`). Legacy: a death while a deferred
root is planned leaves it claimed; a follow-up deferred during a repair invalidates the
repair permit and is used twice; an exact approval by somebody without permission stays at
the head of the queue and raises in every tick; a comment written before a question can be
taken as its answer. Dispatcher: a drain that ends `BUSY` clears the failure count
(`server.py:410`), and a fixed order of threads is served where the docstring says "fairly"
(`server.py:185`); the legacy planner creates the worktree outside the thread lock
(`workflow.py:406`). Reviewer: a changed file without a diff section reaches no
specialist, which `ChangesReachSpecialists` therefore leaves out; the items of a document
are cut at `MAX_REVIEW_REQUIREMENTS` (`reviewer.py:815`) before repeats are removed
(`reviewer.py:836`), so a long document that repeats itself loses requirements there was
room for, which `ContractIsComplete` therefore leaves out.

## Not modelled

Prompt assembly, model configuration, tracing, HTTP and credentials, argument parsing and
review fixtures have no control state of their own; their failures are the nondeterminism
of the modules above. Parsing and validation of workflow specifications and of repository
configuration are text processing: what the modules need of them is an assumption on the
constants (`Deps`, `Kinds`, `Broken`). Left out of modelled components: the publisher's
error for several comments with one marker (`github_publisher.py:267`), a state that `OneOutput`
shows no run of the code reaches, as nobody but the publisher writes the marker in the model;
`--once`, the
look-back of the first poll and the repair of event rows written by old versions in
ingestion; the throw-away workspaces of the one-shot command line; `execute_one` without a
workflow row and the revise command of the legacy workflow; the older challenger path of
the reviewer. The modules are checked side by side and not as one product: their product is
far beyond TLC, and the interfaces between them are the rows named above.
`PROJECT.json` says for each component what is left out.
