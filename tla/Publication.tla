------------------------------ MODULE Publication ------------------------------
(***************************************************************************)
(* Publication of one IssueThread: GitHubPublisher (github_publisher.py),  *)
(* the logical_publications rows and their finalization (github_store.py), *)
(* and the publication branch of the server's drain loop (server.py).      *)
(*                                                                         *)
(* Two kinds of process publish: the server's worker, which finalizes what *)
(* it published, and the operator's sweforge-github-publish, which does    *)
(* not.  Both read the publication row BEFORE they take the IssueThread    *)
(* lock.  Every step that touches Git, GitHub or the database is an action *)
(* of its own, so a process may die, or raise, between any two: an effect  *)
(* whose response is lost is an effect followed by an exception.           *)
(*                                                                         *)
(* Data abstraction: the worktree and each commit are their content; the   *)
(* thread's branch is a linear history, and a commit is its position in it *)
(* (1 is the base commit).  A pull request or comment is counted.  How a   *)
(* cycle is planned, executed and accepted is WorkflowRuntime's concern.   *)
(***************************************************************************)
EXTENDS Integers, Sequences

CONSTANTS
  Proc,        \* publishing processes
  Server,      \* the server's worker for this thread
  NoProc,
  Content,     \* trees the worktree can hold
  Base,        \* the tree of workspace.base_commit
  MaxCycles,   \* bound: cycles of the thread
  MaxFaults,   \* bound: crashes and exceptions
  MaxRetries   \* bound: operator retries

ASSUME ProcAssumption == Server \in Proc /\ NoProc \notin Proc
ASSUME ContentAssumption == Base \in Content
ASSUME PublicationBounds ==
  MaxCycles \in Nat \ {0} /\ MaxFaults \in Nat /\ MaxRetries \in Nat

VARIABLES
  cycle,         \* the latest cycle of the thread
  cycle_status,  \* per cycle
  steering,      \* a revision input is PENDING
  accepted,      \* per cycle: the tree its accepted result left behind
  pub,           \* logical_publications, one row per cycle
  learning,      \* repo_memory_learning and issue_resolution_memory rows
  tree,          \* content of the worktree
  commits,       \* local branch: content of each commit
  remote,        \* remote branch: position it points at, 0 is absent
  foreign,       \* someone else moved the remote branch
  prs,           \* pull requests from the branch, open or not
  opened,        \* how many of them SWEForge opened
  mapped,        \* pr_thread_mappings has the pull request
  comments,      \* per cycle: issue comments with its publication marker
  lock,          \* holder of the IssueThread lock
  pc, target, rec,   \* volatile: step, cycle and row copy of each process
  faults, retries

cycleVars  == <<cycle, cycle_status, steering, accepted>>
gitVars    == <<tree, commits, remote, foreign>>
githubVars == <<prs, opened, mapped, comments>>
procVars   == <<lock, pc, target, rec>>
boundVars  == <<faults, retries>>
vars == <<cycleVars, pub, learning, gitVars, githubVars, procVars, boundVars>>

-----------------------------------------------------------------------------
Cycle == 1 .. MaxCycles
CycleStatus == {"NONE", "ACTIVE", "AWAITING_PUBLICATION", "PUBLISHED"}
PublicationStatus == {"NONE", "PENDING", "COMMITTED", "PUSHED", "PR_CREATED",
                      "COMMENTED", "COMPLETED", "NO_CHANGES", "FAILED"}
ResumableStatuses == {"PENDING", "COMMITTED", "PUSHED", "PR_CREATED", "COMMENTED"}
Outcome == {"COMPLETED", "NO_CHANGES"}

(* A publication row; local, pr and comment are 0 while NULL.              *)
NoRow == [status |-> "NONE", local |-> 0, pr |-> 0, comment |-> 0]
LockedSteps == {"check", "commit", "committed", "push", "pushed", "pr", "pr_made",
                "map", "comment", "commented", "complete"}
Step == LockedSteps \cup {"idle", "lock", "finalize"}

head == Len(commits)
dirty == tree # commits[head]

(* _declarative_publication_target: the latest cycle awaits publication    *)
(* and nothing is pending against it.                                      *)
Eligible(c) == c = cycle /\ cycle_status[c] = "AWAITING_PUBLICATION" /\ ~steering

Init ==
  /\ cycle = 1
  /\ cycle_status = [c \in Cycle |-> IF c = 1 THEN "ACTIVE" ELSE "NONE"]
  /\ steering = FALSE
  /\ accepted = [c \in Cycle |-> Base]
  /\ pub = [c \in Cycle |-> NoRow]
  /\ learning = [c \in Cycle |-> "NONE"]
  /\ tree = Base /\ commits = <<Base>> /\ remote = 0 /\ foreign = FALSE
  /\ prs = 0 /\ opened = 0 /\ mapped = FALSE /\ comments = [c \in Cycle |-> 0]
  /\ lock = NoProc
  /\ pc = [p \in Proc |-> "idle"]
  /\ target = [p \in Proc |-> 0]
  /\ rec = [p \in Proc |-> NoRow]
  /\ faults = 0 /\ retries = 0

-----------------------------------------------------------------------------
(* The poller queues unsolicited steering; it can come at any moment.      *)
QueueSteering ==
  /\ ~steering /\ cycle < MaxCycles
  /\ steering' = TRUE
  /\ UNCHANGED <<cycle, cycle_status, accepted, pub, learning, gitVars, githubVars,
                 procVars, boundVars>>

(* The active cycle runs to acceptance; its work is the tree it leaves.    *)
CompleteCycle(content) ==
  /\ cycle_status[cycle] = "ACTIVE"
  /\ lock = NoProc /\ pc[Server] = "idle"
  /\ tree' = content
  /\ accepted' = [accepted EXCEPT ![cycle] = content]
  /\ cycle_status' = [cycle_status EXCEPT ![cycle] = "AWAITING_PUBLICATION"]
  /\ UNCHANGED <<cycle, steering, pub, learning, commits, remote, foreign, githubVars,
                 procVars, boundVars>>

(* The controller starts a revision with everything pending in it.         *)
BeginRevision ==
  /\ steering
  /\ cycle_status[cycle] \in {"AWAITING_PUBLICATION", "PUBLISHED"}
  /\ lock = NoProc /\ pc[Server] = "idle"
  /\ cycle < MaxCycles
  /\ cycle' = cycle + 1
  /\ cycle_status' = [cycle_status EXCEPT ![cycle + 1] = "ACTIVE"]
  /\ steering' = FALSE
  /\ UNCHANGED <<accepted, pub, learning, gitVars, githubVars, procVars, boundVars>>

-----------------------------------------------------------------------------
(* p continues at a step.                                                  *)
Goto(p, step) == pc' = [pc EXCEPT ![p] = step]

(* p forgets its publication and gives up the lock if it has it.           *)
Leave(p) ==
  /\ pc' = [pc EXCEPT ![p] = "idle"]
  /\ target' = [target EXCEPT ![p] = 0]
  /\ rec' = [rec EXCEPT ![p] = NoRow]
  /\ lock' = IF lock = p THEN NoProc ELSE lock

(* Slip: a publication that got as far as its pull request is not resumed. *)
next_unless_pr_created(p) ==
  /\ pc[p] = "idle"
  /\ Eligible(cycle)
  /\ pub[cycle].status \in {"NONE", "PENDING", "COMMITTED", "PUSHED", "COMMENTED"}
  /\ pub' = IF pub[cycle].status = "NONE"
            THEN [pub EXCEPT ![cycle].status = "PENDING"] ELSE pub
  /\ target' = [target EXCEPT ![p] = cycle]
  /\ rec' = [rec EXCEPT ![p] = pub'[cycle]]
  /\ Goto(p, "lock")
  /\ UNCHANGED <<cycleVars, learning, gitVars, githubVars, lock, boundVars>>

(* next_publication and ensure_publication: the row of the current target  *)
(* is created or resumed, and copied, without the IssueThread lock.        *)
next_publication(p) ==
  /\ pc[p] = "idle"
  /\ Eligible(cycle)
  /\ pub[cycle].status \in ResumableStatuses \cup {"NONE"}
  /\ pub' = IF pub[cycle].status = "NONE"
            THEN [pub EXCEPT ![cycle].status = "PENDING"] ELSE pub
  /\ target' = [target EXCEPT ![p] = cycle]
  /\ rec' = [rec EXCEPT ![p] = pub'[cycle]]
  /\ Goto(p, "lock")
  /\ UNCHANGED <<cycleVars, learning, gitVars, githubVars, lock, boundVars>>

acquire_thread_lock(p) ==
  /\ pc[p] = "lock" /\ lock = NoProc
  /\ lock' = p
  /\ Goto(p, "check")
  /\ UNCHANGED <<cycleVars, pub, learning, gitVars, githubVars, target, rec, boundVars>>

(* ThreadLockUnavailable: the result is BUSY and nothing is recorded.      *)
thread_lock_busy(p) ==
  /\ pc[p] = "lock" /\ lock # NoProc
  /\ Leave(p)
  /\ UNCHANGED <<cycleVars, pub, learning, gitVars, githubVars, boundVars>>

(* publish_one's except clause: FAILED, whatever the row says by now.      *)
Fail(p) ==
  /\ pub' = [pub EXCEPT ![target[p]].status = "FAILED"]
  /\ Leave(p)
  /\ UNCHANGED <<cycleVars, learning, gitVars, githubVars, retries>>

(* update_publication, and the copy the process goes on with.              *)
Update(p, row) ==
  /\ pub' = [pub EXCEPT ![target[p]] = row]
  /\ rec' = [rec EXCEPT ![p] = row]
  /\ UNCHANGED <<target, lock>>

(* After an outcome the server finalizes; the operator's tool just exits.  *)
Settle(p, row) ==
  /\ pub' = [pub EXCEPT ![target[p]] = row]
  /\ lock' = NoProc
  /\ pc' = [pc EXCEPT ![p] = IF p = Server THEN "finalize" ELSE "idle"]
  /\ target' = [target EXCEPT ![p] = IF p = Server THEN @ ELSE 0]
  /\ rec' = [rec EXCEPT ![p] = NoRow]

-----------------------------------------------------------------------------
(* _publish re-checks eligibility, then looks for changes against the base *)
(* commit: the diff of the worktree with it, and untracked files.          *)
check_ineligible(p) ==
  /\ pc[p] = "check" /\ ~Eligible(target[p])
  /\ Fail(p) /\ UNCHANGED faults

check_no_changes(p) ==
  /\ pc[p] = "check" /\ Eligible(target[p])
  /\ tree = Base
  /\ Settle(p, [pub[target[p]] EXCEPT !.status = "NO_CHANGES"])
  /\ UNCHANGED <<cycleVars, learning, gitVars, githubVars, boundVars>>

(* Slip: eligibility is not re-checked under the lock.                     *)
check_changes_only(p) ==
  /\ pc[p] = "check"
  /\ tree # Base
  /\ Goto(p, IF rec[p].local = 0 THEN "commit" ELSE "push")
  /\ UNCHANGED <<cycleVars, pub, learning, gitVars, githubVars, lock, target, rec, boundVars>>

(* A recorded commit is only checked to be an ancestor of HEAD.            *)
check_changes(p) ==
  /\ pc[p] = "check" /\ Eligible(target[p])
  /\ tree # Base
  /\ Goto(p, IF rec[p].local = 0 THEN "commit" ELSE "push")
  /\ UNCHANGED <<cycleVars, pub, learning, gitVars, githubVars, lock, target, rec, boundVars>>

git_commit(p) ==
  /\ pc[p] = "commit"
  /\ commits' = IF dirty THEN Append(commits, tree) ELSE commits
  /\ Goto(p, "committed")
  /\ UNCHANGED <<cycleVars, pub, learning, tree, remote, foreign, githubVars, lock, target,
                 rec, boundVars>>

record_commit(p) ==
  /\ pc[p] = "committed"
  /\ Update(p, [pub[target[p]] EXCEPT !.status = "COMMITTED", !.local = head])
  /\ Goto(p, "push")
  /\ UNCHANGED <<cycleVars, learning, gitVars, githubVars, boundVars>>

(* The remote branch must be absent or an ancestor of the commit; then the *)
(* local branch, not the commit, is pushed.                                *)
PushAccepted(p) == ~foreign /\ remote <= rec[p].local

push(p) ==
  /\ pc[p] = "push" /\ PushAccepted(p)
  /\ remote' = IF remote = rec[p].local THEN remote ELSE head
  /\ Goto(p, "pushed")
  /\ UNCHANGED <<cycleVars, pub, learning, tree, commits, foreign, githubVars, lock, target,
                 rec, boundVars>>

push_refused(p) ==
  /\ pc[p] = "push" /\ ~PushAccepted(p)
  /\ Fail(p) /\ UNCHANGED faults

(* The workspace must be clean after the push; only cycles write to it, and *)
(* none runs meanwhile.                                                    *)
record_push(p) ==
  /\ pc[p] = "pushed" /\ ~dirty
  /\ Update(p, [pub[target[p]] EXCEPT !.status = "PUSHED"])
  /\ Goto(p, IF pub[target[p]].pr = 0 THEN "pr" ELSE "map")
  /\ UNCHANGED <<cycleVars, learning, gitVars, githubVars, boundVars>>

(* A pull request is reused whether open or closed; two are ambiguous.     *)
find_or_create_pr(p) ==
  /\ pc[p] = "pr" /\ prs <= 1
  /\ prs' = 1
  /\ opened' = IF prs = 0 THEN opened + 1 ELSE opened
  /\ Goto(p, "pr_made")
  /\ UNCHANGED <<cycleVars, pub, learning, gitVars, mapped, comments, lock, target, rec,
                 boundVars>>

pr_ambiguous(p) ==
  /\ pc[p] = "pr" /\ prs > 1
  /\ Fail(p) /\ UNCHANGED faults

record_pr(p) ==
  /\ pc[p] = "pr_made"
  /\ Update(p, [pub[target[p]] EXCEPT !.status = "PR_CREATED", !.pr = 1])
  /\ Goto(p, "map")
  /\ UNCHANGED <<cycleVars, learning, gitVars, githubVars, boundVars>>

register_pr_mapping(p) ==
  /\ pc[p] = "map"
  /\ mapped' = TRUE
  /\ Goto(p, "comment")
  /\ UNCHANGED <<cycleVars, pub, learning, gitVars, prs, opened, comments, lock, target, rec,
                 boundVars>>

(* Slip: the comment is written without looking for the marker.            *)
create_comment_blindly(p) ==
  /\ pc[p] = "comment"
  /\ comments' = [comments EXCEPT ![target[p]] = IF rec[p].comment = 1 THEN @ ELSE @ + 1]
  /\ Goto(p, "commented")
  /\ UNCHANGED <<cycleVars, pub, learning, gitVars, prs, opened, mapped, lock, target, rec,
                 boundVars>>

(* Reuse the recorded comment, or the one that carries the marker, or      *)
(* write it.  Two would be ambiguous: OneOutput says that never happens.   *)
find_or_create_comment(p) ==
  /\ pc[p] = "comment"
  /\ rec[p].comment = 0 => comments[target[p]] <= 1
  /\ comments' = [comments EXCEPT ![target[p]] = IF rec[p].comment = 1 THEN @ ELSE 1]
  /\ Goto(p, "commented")
  /\ UNCHANGED <<cycleVars, pub, learning, gitVars, prs, opened, mapped, lock, target, rec,
                 boundVars>>

record_comment(p) ==
  /\ pc[p] = "commented"
  /\ Update(p, [pub[target[p]] EXCEPT !.status = "COMMENTED", !.comment = 1])
  /\ Goto(p, "complete")
  /\ UNCHANGED <<cycleVars, learning, gitVars, githubVars, boundVars>>

record_completed(p) ==
  /\ pc[p] = "complete"
  /\ Settle(p, [pub[target[p]] EXCEPT !.status = "COMPLETED"])
  /\ UNCHANGED <<cycleVars, learning, gitVars, githubVars, boundVars>>

-----------------------------------------------------------------------------
(* finalize_publication closes the lifecycle of every cycle the            *)
(* publication accumulates and creates both learning jobs, in one          *)
(* transaction.                                                            *)
finalize_publication ==
  LET c == target[Server] IN
  /\ pc[Server] = "finalize"
  /\ pub[c].status \in Outcome /\ Eligible(c)
  /\ cycle_status' = [d \in Cycle |->
       IF d <= c /\ cycle_status[d] = "AWAITING_PUBLICATION" THEN "PUBLISHED"
       ELSE cycle_status[d]]
  /\ learning' = [learning EXCEPT ![c] = "PENDING"]
  /\ Leave(Server)
  /\ UNCHANGED <<cycle, steering, accepted, pub, gitVars, githubVars, boundVars>>

(* It raises when the row or the thread has moved on.                      *)
finalize_refused ==
  /\ pc[Server] = "finalize"
  /\ ~(pub[target[Server]].status \in Outcome /\ Eligible(target[Server]))
  /\ Leave(Server)
  /\ UNCHANGED <<cycleVars, pub, learning, gitVars, githubVars, boundVars>>

-----------------------------------------------------------------------------
(* The operator's retry_publication; the same command then publishes.      *)
retry_publication(c) ==
  /\ pub[c].status = "FAILED"
  /\ retries < MaxRetries
  /\ retries' = retries + 1
  /\ pub' = [pub EXCEPT ![c].status = "PENDING"]
  /\ UNCHANGED <<cycleVars, learning, gitVars, githubVars, procVars, faults>>

(* Any Git or GitHub call raises, before or after its effect.              *)
Exception(p) ==
  /\ pc[p] \in LockedSteps
  /\ faults < MaxFaults
  /\ faults' = faults + 1
  /\ Fail(p)

(* The process is killed; the operating system releases its lock.          *)
Crash(p) ==
  /\ pc[p] # "idle"
  /\ faults < MaxFaults
  /\ faults' = faults + 1
  /\ Leave(p)
  /\ UNCHANGED <<cycleVars, pub, learning, gitVars, githubVars, retries>>

(* Other people: push to the branch, open another pull request from it.    *)
OutsiderPush ==
  /\ remote # 0 /\ ~foreign
  /\ foreign' = TRUE
  /\ UNCHANGED <<cycleVars, pub, learning, tree, commits, remote, githubVars, procVars,
                 boundVars>>

OutsiderOpensPR ==
  /\ prs = 1
  /\ prs' = 2
  /\ UNCHANGED <<cycleVars, pub, learning, gitVars, opened, mapped, comments, procVars,
                 boundVars>>

-----------------------------------------------------------------------------
(* The steps of publish_one under way in p, and the server's finalization. *)
Publishing(p) ==
  \/ acquire_thread_lock(p) \/ thread_lock_busy(p)
  \/ check_ineligible(p) \/ check_no_changes(p) \/ check_changes(p)
  \/ git_commit(p) \/ record_commit(p)
  \/ push(p) \/ push_refused(p) \/ record_push(p)
  \/ find_or_create_pr(p) \/ pr_ambiguous(p) \/ record_pr(p)
  \/ register_pr_mapping(p) \/ find_or_create_comment(p)
  \/ record_comment(p) \/ record_completed(p)
  \/ p = Server /\ (finalize_publication \/ finalize_refused)

Environment ==
  \/ QueueSteering \/ BeginRevision
  \/ \E content \in Content : CompleteCycle(content)
  \/ OutsiderPush \/ OutsiderOpensPR

Next ==
  \/ \E p \in Proc : next_publication(p) \/ Publishing(p) \/ Exception(p) \/ Crash(p)
  \/ \E c \in Cycle : retry_publication(c)
  \/ Environment

Spec == Init /\ [][Next]_vars

(***************************************************************************)
(* The dispatcher keeps submitting a thread whose publication is resumable *)
(* and a running process goes on to its end, so both are weakly fair.      *)
(* Nothing is assumed of operators, people or further cycles.              *)
(***************************************************************************)
FairSpec ==
  /\ Spec
  /\ WF_vars(next_publication(Server))
  /\ \A p \in Proc : WF_vars(Publishing(p))

-----------------------------------------------------------------------------
PublicationRow ==
  [status : PublicationStatus, local : 0 .. MaxCycles + 1, pr : 0 .. 1, comment : 0 .. 1]

(* Rows, branch positions and process copies have their declared shape,    *)
(* and exactly the process inside _publish holds the IssueThread lock.     *)
TypeOK ==
  /\ cycle \in Cycle /\ cycle_status \in [Cycle -> CycleStatus]
  /\ steering \in BOOLEAN /\ accepted \in [Cycle -> Content]
  /\ pub \in [Cycle -> PublicationRow]
  /\ learning \in [Cycle -> {"NONE", "PENDING"}]
  /\ tree \in Content /\ commits \in Seq(Content) /\ Len(commits) >= 1
  /\ remote \in 0 .. Len(commits) /\ foreign \in BOOLEAN
  /\ prs \in 0 .. 2 /\ opened \in Nat /\ mapped \in BOOLEAN
  /\ comments \in [Cycle -> Nat]
  /\ lock \in Proc \cup {NoProc}
  /\ pc \in [Proc -> Step] /\ target \in [Proc -> Cycle \cup {0}]
  /\ rec \in [Proc -> PublicationRow]
  /\ faults \in 0 .. MaxFaults /\ retries \in 0 .. MaxRetries
  /\ \A p \in Proc : /\ pc[p] \in LockedSteps <=> lock = p
                     /\ pc[p] # "idle" => target[p] # 0

(* However often a publication is killed, fails, is retried or is raced by *)
(* the operator's tool, SWEForge opens one pull request for the thread and *)
(* writes one comment per publication.                                     *)
OneOutput == opened <= 1 /\ \A c \in Cycle : comments[c] <= 1

(* What was finalized with a commit is really out: the recorded commit     *)
(* holds exactly the tree that cycle's result was accepted on, it was      *)
(* pushed, and its pull request, mapping and comment exist, although each  *)
(* was done by a process that may have been working from an old copy.      *)
PublishedIsAccepted ==
  \A c \in Cycle : learning[c] # "NONE" /\ pub[c].local # 0 =>
    /\ commits[pub[c].local] = accepted[c]
    /\ remote >= pub[c].local
    /\ prs >= 1 /\ mapped /\ comments[c] = 1

(* A publication that is killed anywhere is taken up again until it has an *)
(* outcome or has failed for good, unless a revision overtakes it.         *)
PublicationSettles ==
  \A c \in Cycle :
    cycle_status[c] = "AWAITING_PUBLICATION" ~>
      \/ pub[c].status \in Outcome \cup {"FAILED"}
      \/ steering \/ cycle > c

(* A published thread is finalized: the cycle is closed and its learning   *)
(* jobs exist, unless steering arrives first.                              *)
OutcomeIsFinalized ==
  \A c \in Cycle :
    pub[c].status \in Outcome /\ c = cycle ~>
      \/ cycle_status[c] = "PUBLISHED" \/ pub[c].status = "FAILED"
      \/ steering \/ cycle > c

(* The branch on GitHub shows the accepted work of the newest published    *)
(* cycle.                                                                  *)
BranchShowsPublished ==
  cycle_status[cycle] = "PUBLISHED" /\ remote # 0 /\ ~foreign =>
    commits[remote] = accepted[cycle]
=============================================================================
