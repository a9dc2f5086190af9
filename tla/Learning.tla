------------------------------- MODULE Learning -------------------------------
(***************************************************************************)
(* What SWEForge learns after a publication: WorkflowLearningService       *)
(* (workflow_learning.py), the curated repository memory                   *)
(* (memory_learning.py, repo_memory.py) and the job and proposal rows      *)
(* (github_store.py), for the threads of one repository, which share its   *)
(* memory.  One worker drains a thread and learns before it advances; the  *)
(* server may die between any two writes.  The operator's                  *)
(* sweforge-repo-memory works on the same memory beside it.                *)
(*                                                                         *)
(* Data abstraction: a candidate is its fact; whether its evidence still   *)
(* holds in the worktree, and what the curating model adds, is chosen anew *)
(* in every attempt.  A batch of candidates is the number of times each    *)
(* fact is in it: nothing keeps the model, or two cycles, from saying the  *)
(* same.  Material, prompts and the case text are left out.                *)
(***************************************************************************)
EXTENDS Integers, FiniteSets

CONSTANTS
  Thread, Fact,
  NoThread,       \* nobody holds the memory lock
  MaxAttempts,    \* MAX_MEMORY_LEARNING_ATTEMPTS, MAX_ISSUE_RESOLUTION_ATTEMPTS
  MaxCycles,      \* bound: cycles of a thread
  MaxPublished,   \* bound: publications of all threads
  MaxProposals,   \* bound: proposals of all threads
  MaxCurated,     \* bound: times the model proposes a fact in one answer
  MaxCrashes      \* bound: deaths of the server

ASSUME AttemptsAssumption == MaxAttempts \in Nat \ {0}
ASSUME CyclesAssumption == MaxCycles \in Nat \ {0}
ASSUME CuratedAssumption == MaxCurated \in Nat
ASSUME HolderAssumption == NoThread \notin Thread
ASSUME FactAssumption == IsFiniteSet(Fact)

Cycle == 1 .. MaxCycles

VARIABLES
  (* the database *)
  cycle,        \* cycle[t]: the thread's current cycle
  outcome,      \* outcome[t][c]: status of the cycle's publication, once finalized
  proposal,     \* proposal[t][c][f]: status of a repo_memory_candidates row
  learning,     \* learning[t][c]: [status, attempts] of its repo_memory_learning row
  resolution,   \* resolution[t][c]: the same of its issue_resolution_memory row
  (* the memory store *)
  memory,       \* memory[f]: entries for f in AGENTS.md
  (* processes *)
  lock,         \* holder of the repository memory lock
  worker,       \* worker[t]: where the thread's worker is, and its locals
  operator,     \* the operator's append: [at, fact, copy]
  (* ghosts *)
  calls,        \* calls[t][c]: curations of a job, up to one too many
  crashes

rows == <<cycle, outcome, proposal, learning, resolution>>
vars == <<rows, memory, lock, worker, operator, calls, crashes>>

NoJob == [status |-> "NONE", attempts |-> 0]
NewJob == [status |-> "PENDING", attempts |-> 0]

Nothing == [f \in Fact |-> 0]

Idle == [at |-> "idle", job |-> 0, attempt |-> 0, records |-> {}, held |-> {},
         validated |-> Nothing, copy |-> Nothing, status |-> "NONE"]

NoOperator == [at |-> "idle", fact |-> "NONE", copy |-> Nothing]

Init ==
  /\ cycle = [t \in Thread |-> 1]
  /\ outcome = [t \in Thread |-> [c \in Cycle |-> "NONE"]]
  /\ proposal = [t \in Thread |-> [c \in Cycle |-> [f \in Fact |-> "NONE"]]]
  /\ learning = [t \in Thread |-> [c \in Cycle |-> NoJob]]
  /\ resolution = [t \in Thread |-> [c \in Cycle |-> NoJob]]
  /\ memory = Nothing
  /\ lock = NoThread
  /\ worker = [t \in Thread |-> Idle]
  /\ operator = NoOperator
  /\ calls = [t \in Thread |-> [c \in Cycle |-> 0]]
  /\ crashes = 0

-----------------------------------------------------------------------------
(* Jobs.                                                                   *)

Due(job) == job.status \in {"PENDING", "FAILED"} /\ job.attempts < MaxAttempts

pending_memory_learning(t) == {c \in Cycle : Due(learning[t][c])}

pending_issue_resolution(t) == {c \in Cycle : Due(resolution[t][c])}

Oldest(cycles) == CHOOSE c \in cycles : \A d \in cycles : c <= d

(* A thread advances only in a tick that finds nothing to learn.           *)
MayAdvance(t) ==
  /\ worker[t].at = "idle"
  /\ pending_memory_learning(t) = {} /\ pending_issue_resolution(t) = {}

(* Slip: an outcome without changes does not close a generation.           *)
closes_with_commit(t, c) == outcome[t][c] = "COMPLETED"

ClosesGeneration(t, c) == outcome[t][c] # "NONE"

(* The cycles after the last finalized publication before c.               *)
publication_generation(t, c) ==
  {d \in Cycle : d <= c /\ \A b \in Cycle : b < c /\ ClosesGeneration(t, b) => b < d}

-----------------------------------------------------------------------------
(* What the cycles of a thread leave behind.                               *)

Proposals == {x \in Thread \X Cycle \X Fact : proposal[x[1]][x[2]][x[3]] # "NONE"}

Published == {x \in Thread \X Cycle : outcome[x[1]][x[2]] # "NONE"}

propose_repo_memory(t, f) ==
  LET c == cycle[t] IN
  /\ MayAdvance(t) /\ outcome[t][c] = "NONE"
  /\ proposal[t][c][f] = "NONE" /\ Cardinality(Proposals) < MaxProposals
  /\ proposal' = [proposal EXCEPT ![t][c][f] = "PROPOSED"]
  /\ UNCHANGED <<cycle, outcome, learning, resolution, memory, lock, worker, operator, calls,
                 crashes>>

(* The publication's outcome is final and both jobs exist.                 *)
finalize_publication(t, status) ==
  LET c == cycle[t] IN
  /\ MayAdvance(t) /\ outcome[t][c] = "NONE" /\ Cardinality(Published) < MaxPublished
  /\ outcome' = [outcome EXCEPT ![t][c] = status]
  /\ learning' = [learning EXCEPT ![t][c] = NewJob]
  /\ resolution' = [resolution EXCEPT ![t][c] = NewJob]
  /\ UNCHANGED <<cycle, proposal, memory, lock, worker, operator, calls, crashes>>

(* Steering begins a revision, before the publication or after it.         *)
begin_revision_cycle(t) ==
  /\ MayAdvance(t) /\ cycle[t] < MaxCycles
  /\ cycle' = [cycle EXCEPT ![t] = @ + 1]
  /\ UNCHANGED <<outcome, proposal, learning, resolution, memory, lock, worker, operator,
                 calls, crashes>>

-----------------------------------------------------------------------------
(* _learn_repository, step by step.                                        *)

Update(t, w) == worker' = [worker EXCEPT ![t] = w]

(* Slip: a killed attempt does not count.                                  *)
read_attempt(job) == job

(* The attempt is spent before the model is called.                        *)
_claim_attempt(job) == [job EXCEPT !.attempts = @ + 1]

claim_memory_learning_attempt(t) ==
  LET c == Oldest(pending_memory_learning(t))
      claimed == _claim_attempt(learning[t][c]) IN
  /\ worker[t].at = "idle" /\ pending_memory_learning(t) # {}
  /\ learning' = [learning EXCEPT ![t][c] = claimed]
  /\ Update(t, [Idle EXCEPT !.at = "curate", !.job = c, !.attempt = claimed.attempts])
  /\ UNCHANGED <<cycle, outcome, proposal, resolution, memory, lock, operator, calls, crashes>>

(* The unsettled proposals of the generation.                              *)
repo_memory_candidates_for_generation(t, c) ==
  {x \in publication_generation(t, c) \X Fact : proposal[t][x[1]][x[2]] = "PROPOSED"}

(* A candidate for each proposal, and for each time the model says a fact. *)
Batch(held, curated) ==
  [f \in Fact |-> Cardinality({x \in held : x[2] = f}) + curated[f]]

(* The proposals whose evidence holds, and what the model proposes; or     *)
(* something raises, before the proposals are read or after.               *)
curate_repository_memory(t) ==
  LET w == [worker[t] EXCEPT
              !.records = repo_memory_candidates_for_generation(t, worker[t].job)] IN
  /\ w.at = "curate"
  /\ calls' = [calls EXCEPT ![t][w.job] = IF @ > MaxAttempts THEN @ ELSE @ + 1]
  /\ \/ \E held \in SUBSET w.records, curated \in [Fact -> 0 .. MaxCurated] :
          Update(t, IF Batch(held, curated) = Nothing
                    THEN [w EXCEPT !.at = "settle", !.status = "NO_UPDATE"]
                    ELSE [w EXCEPT !.at = "apply", !.held = held,
                                   !.validated = Batch(held, curated)])
     \/ \E records \in {{}, w.records} :
          Update(t, [w EXCEPT !.at = "settle", !.status = "FAILED", !.records = records])
  /\ UNCHANGED <<rows, memory, lock, operator, crashes>>

(* Slip: whatever validates is new.                                        *)
everything_is_novel(t) == {f \in Fact : worker[t].validated[f] > 0}

(* What the memory does not hold yet.                                      *)
novel(t) == {f \in Fact : worker[t].validated[f] > 0 /\ memory[f] = 0}

(* Under the lock the memory is read and compared, then written whole.     *)
(* Candidates are compared with the memory and not with each other.        *)
apply_memory_candidates(t) ==
  LET w == worker[t] IN
  /\ w.at = "apply" /\ lock = NoThread
  /\ IF novel(t) = {}
     THEN /\ Update(t, [w EXCEPT !.at = "settle", !.status = "NO_UPDATE",
                                 !.validated = Nothing])
          /\ UNCHANGED lock
     ELSE /\ Update(t, [w EXCEPT !.at = "write", !.status = "UPDATED",
                                 !.copy = [f \in Fact |-> IF f \in novel(t)
                                                          THEN memory[f] + w.validated[f]
                                                          ELSE memory[f]]])
          /\ lock' = t
  /\ UNCHANGED <<rows, memory, operator, calls, crashes>>

append_repo_memory(t) ==
  LET w == worker[t] IN
  /\ w.at = "write"
  /\ memory' = w.copy
  /\ lock' = NoThread
  /\ Update(t, [w EXCEPT !.at = "settle", !.validated = Nothing, !.copy = Nothing])
  /\ UNCHANGED <<rows, operator, calls, crashes>>

(* Slip: a job that succeeded accepts all it was offered.                  *)
accept_all_proposals(w, x) ==
  IF w.status \in {"UPDATED", "NO_UPDATE"} THEN "ACCEPTED" ELSE "REJECTED"

(* A job that failed has validated nothing.                                *)
settled_status(w, x) ==
  IF w.status \in {"UPDATED", "NO_UPDATE"} /\ x \in w.held THEN "ACCEPTED"
  ELSE "REJECTED"

(* One transaction for each proposal.                                      *)
_settle_memory_proposals(t, x) ==
  LET w == worker[t] IN
  /\ w.at = "settle" /\ x \in w.records
  /\ proposal' = [proposal EXCEPT ![t][x[1]][x[2]] = settled_status(w, x)]
  /\ Update(t, [w EXCEPT !.records = @ \ {x}])
  /\ UNCHANGED <<cycle, outcome, learning, resolution, memory, lock, operator, calls, crashes>>

(* Slip: the row is written back as it was before the attempt.             *)
save_unclaimed(w) == [status |-> w.status, attempts |-> w.attempt - 1]

Saved(w) == [status |-> w.status, attempts |-> w.attempt]

save_repo_memory_learning(t) ==
  LET w == worker[t] IN
  /\ w.at = "settle" /\ w.records = {}
  /\ learning' = [learning EXCEPT ![t][w.job] = Saved(w)]
  /\ Update(t, Idle)
  /\ UNCHANGED <<cycle, outcome, proposal, resolution, memory, lock, operator, calls, crashes>>

-----------------------------------------------------------------------------
(* _learn_resolution, when there is no memory job left.                    *)

claim_issue_resolution_attempt(t) ==
  LET c == Oldest(pending_issue_resolution(t))
      claimed == _claim_attempt(resolution[t][c]) IN
  /\ worker[t].at = "idle"
  /\ pending_memory_learning(t) = {} /\ pending_issue_resolution(t) # {}
  /\ resolution' = [resolution EXCEPT ![t][c] = claimed]
  /\ Update(t, [Idle EXCEPT !.at = "case", !.job = c, !.attempt = claimed.attempts])
  /\ UNCHANGED <<cycle, outcome, proposal, learning, memory, lock, operator, calls, crashes>>

(* NO_CASE ends a job as COMPLETED does.                                   *)
save_issue_resolution(t, status) ==
  LET w == worker[t] IN
  /\ w.at = "case"
  /\ resolution' = [resolution EXCEPT ![t][w.job] = [status |-> status, attempts |-> w.attempt]]
  /\ Update(t, Idle)
  /\ UNCHANGED <<cycle, outcome, proposal, learning, memory, lock, operator, calls, crashes>>

-----------------------------------------------------------------------------
(* The server dies: its workers and its lock are gone.                     *)
Crash ==
  /\ crashes < MaxCrashes
  /\ \E t \in Thread : worker[t] # Idle
  /\ worker' = [t \in Thread |-> Idle] /\ lock' = NoThread
  /\ crashes' = crashes + 1
  /\ UNCHANGED <<rows, memory, operator, calls>>

(* sweforge-repo-memory append: a read and a write, without the lock.      *)
operator_reads(f) ==
  /\ operator = NoOperator /\ memory[f] = 0
  /\ operator' = [at |-> "write", fact |-> f, copy |-> [memory EXCEPT ![f] = 1]]
  /\ UNCHANGED <<rows, memory, lock, worker, calls, crashes>>

operator_writes ==
  /\ operator.at = "write"
  /\ memory' = operator.copy
  /\ operator' = [NoOperator EXCEPT !.at = "done"]
  /\ UNCHANGED <<rows, lock, worker, calls, crashes>>

-----------------------------------------------------------------------------
process_one(t) ==
  \/ claim_memory_learning_attempt(t) \/ curate_repository_memory(t)
  \/ apply_memory_candidates(t) \/ append_repo_memory(t)
  \/ \E x \in worker[t].records : _settle_memory_proposals(t, x)
  \/ save_repo_memory_learning(t)
  \/ claim_issue_resolution_attempt(t)
  \/ \E status \in {"COMPLETED", "FAILED"} : save_issue_resolution(t, status)

Next ==
  \/ \E t \in Thread :
       \/ process_one(t) \/ begin_revision_cycle(t)
       \/ \E f \in Fact : propose_repo_memory(t, f)
       \/ \E status \in {"COMPLETED", "NO_CHANGES"} : finalize_publication(t, status)
  \/ Crash

Spec == Init /\ [][Next]_vars

(* With the operator's tool beside the server.                             *)
OperatorNext == Next \/ (\E f \in Fact : operator_reads(f)) \/ operator_writes

OperatorSpec == Init /\ [][OperatorNext]_vars

-----------------------------------------------------------------------------
Job == [status : {"NONE", "PENDING", "FAILED", "UPDATED", "NO_UPDATE", "COMPLETED"},
        attempts : 0 .. MaxAttempts]

(* Rows have their shape, the lock is the writer's, and no job has been    *)
(* tried more often than it may be.                                        *)
TypeOK ==
  /\ \A t \in Thread : /\ cycle[t] \in Cycle
                       /\ learning[t] \in [Cycle -> Job]
                       /\ resolution[t] \in [Cycle -> Job]
                       /\ proposal[t] \in [Cycle -> [Fact -> {"NONE", "PROPOSED", "ACCEPTED",
                                                              "REJECTED"}]]
                       /\ worker[t].at = "write" <=> lock = t
  /\ memory \in [Fact -> Nat]

(* "Derive exact cycle membership": every cycle up to a finalized one is   *)
(* learned from in exactly one publication's generation, whether the       *)
(* publications between had changes or not.                                *)
GenerationsExact ==
  \A t \in Thread, d, last \in Cycle : d <= last /\ outcome[t][last] # "NONE" =>
    LET closing == {c \in Cycle : outcome[t][c] # "NONE" /\ d \in publication_generation(t, c)}
    IN Cardinality(closing) = 1

(* What the memory holds is neither lost nor entered again, however often  *)
(* jobs are killed and retried, and whichever threads learn the same.      *)
EntriesStay == [][\A f \in Fact : memory[f] > 0 => memory'[f] = memory[f]]_vars

(* A proposal recorded as accepted is in the memory.                       *)
AcceptedIsRemembered ==
  \A t \in Thread, c \in Cycle, f \in Fact :
    proposal[t][c][f] = "ACCEPTED" => memory[f] > 0

(* "Candidates are ... put through the same validator, deduplication":     *)
(* the memory says a fact once.  The code does not keep this: candidates   *)
(* of one batch are not compared with each other.                          *)
RememberedOnce == \A f \in Fact : memory[f] <= 1

(* "a hard crash mid-call cannot reset the budget and retry forever"       *)
CallsBounded == \A t \in Thread, c \in Cycle : calls[t][c] <= MaxAttempts

(* What a thread's worker can still do: the attempts left to its jobs, and *)
(* the steps of the one that is under way.                                 *)
AttemptsLeft(job) ==
  {x \in Cycle \X (1 .. MaxAttempts) : Due(job[x[1]]) /\ x[2] > job[x[1]].attempts}

Remaining(t) == Cardinality(AttemptsLeft(learning[t])) + Cardinality(AttemptsLeft(resolution[t]))

MostRecords == Cardinality(Cycle \X Fact)

Position(w) ==
  CASE w.at = "idle" -> 0
    [] w.at = "case" -> 1
    [] w.at = "settle" -> 1 + Cardinality(w.records)
    [] w.at = "write" -> MostRecords + 2
    [] w.at = "apply" -> MostRecords + 3
    [] w.at = "curate" -> MostRecords + 4

Budget(t) == (MostRecords + 5) * Remaining(t) + Position(worker[t])

(* "A curator that keeps failing must not hold an IssueThread at IDLE      *)
(* forever": whatever a worker does, its death included, brings the thread *)
(* nearer to the tick in which it advances.                                *)
LearningAdvances ==
  [][\A t \in Thread : worker'[t] # worker[t] => Budget(t)' < Budget(t)]_vars

(* A proposal is rejected only when its own evidence does not hold.  The   *)
(* code does not keep this: an attempt that fails rejects what it read.    *)
FailureRejectsNothing ==
  [][\A t \in Thread, c \in Cycle, f \in Fact :
       worker[t].status = "FAILED" => proposal'[t][c][f] = proposal[t][c][f]]_vars
=============================================================================
