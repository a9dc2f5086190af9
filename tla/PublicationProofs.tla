--------------------------- MODULE PublicationProofs ---------------------------
(* What Publication promises, for every number of publishing processes,    *)
(* cycles, crashes, exceptions and retries.                                *)
EXTENDS Publication, TLAPS

Closed == {"AWAITING_PUBLICATION", "PUBLISHED"}

PubRow == [status : PublicationStatus, local : Nat, pr : 0 .. 1, comment : 0 .. 1]

Shape ==
  /\ cycle \in Cycle /\ cycle_status \in [Cycle -> CycleStatus]
  /\ accepted \in [Cycle -> Content] /\ pub \in [Cycle -> PubRow]
  /\ learning \in [Cycle -> {"NONE", "PENDING"}]
  /\ commits \in Seq(Content) /\ Len(commits) \in Nat \ {0} /\ remote \in Nat
  /\ remote <= Len(commits)
  /\ prs \in Nat /\ opened \in 0 .. 1 /\ opened <= prs
  /\ comments \in [Cycle -> 0 .. 1]
  /\ lock \in Proc \cup {NoProc} /\ pc \in [Proc -> Step]
  /\ target \in [Proc -> 0 .. MaxCycles] /\ rec \in [Proc -> PubRow]

(* The worktree holds the latest cycle's accepted work, and a cycle that   *)
(* has none yet has no publication.                                        *)
Cycles ==
  /\ cycle_status[cycle] # "ACTIVE" => tree = accepted[cycle]
  /\ \A c \in Cycle :
       /\ c < cycle => cycle_status[c] \in Closed
       /\ c > cycle => cycle_status[c] = "NONE"
       /\ c = cycle => cycle_status[c] # "NONE"
       /\ cycle_status[c] \notin Closed => pub[c] = NoRow /\ learning[c] = "NONE"

(* All that a publication with a commit does is done.                      *)
Out(c) ==
  /\ pub[c].local # 0 /\ remote >= pub[c].local
  /\ prs >= 1 /\ mapped /\ comments[c] = 1

(* What a row says is so, whatever became of the process that wrote it.    *)
RowHolds(c) ==
  /\ pub[c].local # 0 => /\ pub[c].local <= Len(commits)
                         /\ commits[pub[c].local] = accepted[c] /\ accepted[c] # Base
                         /\ c = cycle => pub[c].local = Len(commits)
  /\ pub[c].comment = 1 => comments[c] = 1
  /\ pub[c].pr = 1 => prs >= 1
  /\ pub[c].status = "NO_CHANGES" => accepted[c] = Base
  /\ pub[c].status = "COMPLETED" => Out(c)
  /\ learning[c] # "NONE" => accepted[c] = Base \/ Out(c)

Commented == {"commented", "complete"}
Mapped == {"comment"} \cup Commented
Made == {"pr_made", "map"} \cup Mapped
Pushed == {"pushed", "pr"} \cup Made

(* What a process relies on at each step, its copy of the row included: it *)
(* may be old, and then it says less than the row, never something else.   *)
Held(p) ==
  /\ pc[p] \in LockedSteps <=> lock = p
  /\ pc[p] # "idle" => target[p] # 0
  /\ target[p] # 0 => /\ cycle_status[target[p]] \in Closed
                      /\ rec[p].local \in {0, pub[target[p]].local}
                      /\ rec[p].comment = 1 => pub[target[p]].comment = 1
  /\ pc[p] \in LockedSteps \ {"check"} => target[p] = cycle /\ accepted[cycle] # Base
  /\ pc[p] = "committed" => commits[Len(commits)] = accepted[cycle]
  /\ pc[p] \in {"push"} \cup Pushed => rec[p].local # 0
  /\ pc[p] \in Pushed => remote = Len(commits)
  /\ pc[p] \in Made => prs >= 1
  /\ pc[p] \in Mapped => mapped
  /\ pc[p] \in Commented => comments[target[p]] = 1

PublicationInv ==
  /\ Shape /\ Cycles
  /\ \A c \in Cycle : RowHolds(c)
  /\ \A p \in Proc : Held(p)

-----------------------------------------------------------------------------
(* Before the first cycle is complete.                                     *)
LEMMA InitHolds == Init => PublicationInv
<1> SUFFICES ASSUME Init PROVE PublicationInv
  OBVIOUS
<1> USE PublicationBounds DEF Cycle
<1>1. NoRow \in PubRow /\ NoRow.local = 0 /\ NoRow.pr = 0 /\ NoRow.comment = 0
        /\ NoRow.status = "NONE"
  BY DEF NoRow, PubRow, PublicationStatus
<1>2. commits \in Seq(Content) /\ Len(commits) = 1
  BY ContentAssumption DEF Init
<1> HIDE DEF NoRow
<1>3. Shape
  BY <1>1, <1>2, ContentAssumption DEF Init, Shape, CycleStatus, Step
<1>4. Cycles
  BY DEF Init, Cycles, Closed
<1>5. \A c \in Cycle : RowHolds(c)
  BY <1>1 DEF Init, RowHolds
<1>6. \A p \in Proc : Held(p)
  BY <1>1, ProcAssumption DEF Init, Held, LockedSteps, Pushed, Made, Mapped, Commented
<1> QED BY <1>3, <1>4, <1>5, <1>6 DEF PublicationInv

(* Two processes are not in _publish together.                             *)
LEMMA OneHolds ==
  ASSUME PublicationInv, NEW p \in Proc, NEW q \in Proc, q # p, pc[p] \in LockedSteps
  PROVE  pc[q] \notin LockedSteps
  BY DEF PublicationInv, Held

(* The steps past the check are steps under the lock.                      *)
LEMMA Steps ==
  /\ "committed" \in LockedSteps \ {"check"} /\ "push" \in LockedSteps \ {"check"}
  /\ Pushed \subseteq LockedSteps \ {"check"} /\ Made \subseteq Pushed
  /\ Mapped \subseteq Made /\ Commented \subseteq Mapped
  BY DEF LockedSteps, Pushed, Made, Mapped, Commented

(* A row changes, and says no less: what others know of it stays true.     *)
LEMMA RowChanges ==
  ASSUME PublicationInv, NEW c \in Cycle, NEW row \in PubRow,
         pub' = [pub EXCEPT ![c] = row], cycle_status[c] \in Closed, RowHolds(c)',
         UNCHANGED <<cycleVars, learning, gitVars, githubVars>>,
         pub[c].local \in {0, row.local}, pub[c].comment = 1 => row.comment = 1
  PROVE  /\ Cycles' /\ \A d \in Cycle : RowHolds(d)'
         /\ pub' \in [Cycle -> PubRow]
         /\ \A d \in Cycle : /\ pub[d].local \in {0, pub'[d].local}
                             /\ pub[d].comment = 1 => pub'[d].comment = 1
<1>1. /\ UNCHANGED <<cycle, cycle_status, steering, accepted, tree, commits, remote, foreign>>
      /\ UNCHANGED <<prs, opened, mapped, comments, learning>>
  BY DEF cycleVars, gitVars, githubVars
<1>2. pub' \in [Cycle -> PubRow] /\ \A d \in Cycle : pub'[d] = IF d = c THEN row ELSE pub[d]
  BY DEF PublicationInv, Shape
<1>3. Cycles'
  BY <1>1, <1>2 DEF PublicationInv, Cycles
<1>4. \A d \in Cycle : RowHolds(d)'
  BY <1>1, <1>2 DEF PublicationInv, RowHolds, Out
<1> QED BY <1>2, <1>3, <1>4

(* A process that does nothing keeps what it relies on.                    *)
LEMMA OthersKeep ==
  ASSUME PublicationInv, NEW q \in Proc,
         pc'[q] = pc[q], target'[q] = target[q], rec'[q] = rec[q], (lock' = q) <=> (lock = q),
         UNCHANGED <<cycleVars, gitVars, githubVars>>,
         \A d \in Cycle : /\ pub[d].local \in {0, pub'[d].local}
                          /\ pub[d].comment = 1 => pub'[d].comment = 1
  PROVE  Held(q)'
<1>1. UNCHANGED <<cycle, cycle_status, accepted, commits, remote, prs, mapped, comments>>
  BY DEF cycleVars, gitVars, githubVars
<1>2. Held(q) /\ (target[q] # 0 => target[q] \in Cycle)
  BY PublicationBounds DEF PublicationInv, Shape, Cycle
<1> QED BY <1>1, <1>2 DEF Held

(* A process outside _publish relies on no more than the row.              *)
LEMMA OthersWait ==
  ASSUME PublicationInv, NEW q \in Proc, pc[q] \notin LockedSteps, lock' # q,
         pc'[q] = pc[q], target'[q] = target[q], rec'[q] = rec[q],
         UNCHANGED <<cycle_status>>,
         \A d \in Cycle : /\ pub[d].local \in {0, pub'[d].local}
                          /\ pub[d].comment = 1 => pub'[d].comment = 1
  PROVE  Held(q)'
<1>1. Held(q) /\ (target[q] # 0 => target[q] \in Cycle)
  BY PublicationBounds DEF PublicationInv, Shape, Cycle
<1> QED BY <1>1, Steps DEF Held

(* A process whose step is over, with or without an outcome.               *)
LEMMA Leaves ==
  ASSUME PublicationInv, NEW p \in Proc, Leave(p),
         UNCHANGED <<cycleVars, gitVars, githubVars>>, Cycles', \A d \in Cycle : RowHolds(d)',
         learning' \in [Cycle -> {"NONE", "PENDING"}], pub' \in [Cycle -> PubRow],
         \A d \in Cycle : /\ pub[d].local \in {0, pub'[d].local}
                          /\ pub[d].comment = 1 => pub'[d].comment = 1
  PROVE  PublicationInv'
<1>1. /\ UNCHANGED <<cycle, cycle_status, accepted, commits, remote, prs, opened, comments>>
  BY DEF cycleVars, gitVars, githubVars
<1>2. NoRow \in PubRow /\ NoRow.local = 0 /\ NoRow.comment = 0
  BY DEF NoRow, PubRow, PublicationStatus
<1>3. /\ pc' \in [Proc -> Step] /\ pc'[p] = "idle"
      /\ target' \in [Proc -> 0 .. MaxCycles] /\ target'[p] = 0
      /\ \A q \in Proc : q # p => pc'[q] = pc[q] /\ target'[q] = target[q]
  BY PublicationBounds DEF PublicationInv, Shape, Leave, Step
<1>4. /\ rec' \in [Proc -> PubRow] /\ rec'[p] = NoRow
      /\ \A q \in Proc : q # p => rec'[q] = rec[q]
  BY <1>2 DEF PublicationInv, Shape, Leave
<1>5. /\ lock' \in Proc \cup {NoProc} /\ lock' # p
      /\ \A q \in Proc : q # p => (lock' = q <=> lock = q)
  BY ProcAssumption DEF PublicationInv, Shape, Leave
<1>6. Shape'
  BY <1>1, <1>3, <1>4, <1>5 DEF PublicationInv, Shape
<1>7. Held(p)'
  BY <1>3, <1>5 DEF Held, LockedSteps, Pushed, Made, Mapped, Commented
<1>8. \A q \in Proc : q # p => Held(q)'
  BY <1>3, <1>4, <1>5, OthersKeep
<1> QED BY <1>6, <1>7, <1>8 DEF PublicationInv

(* The process loses the race for the lock, is killed, or finds that it    *)
(* has nothing to finalize.                                                *)
LEMMA Abandons ==
  ASSUME PublicationInv, NEW p \in Proc, Leave(p),
         UNCHANGED <<cycleVars, pub, learning, gitVars, githubVars>>
  PROVE  PublicationInv'
<1>1. UNCHANGED <<cycle, cycle_status, accepted, tree, commits, remote, prs, mapped, comments>>
  BY DEF cycleVars, gitVars, githubVars
<1>2. Cycles' /\ \A d \in Cycle : RowHolds(d)'
  BY <1>1 DEF PublicationInv, Cycles, RowHolds, Out
<1>3. learning' \in [Cycle -> {"NONE", "PENDING"}] /\ pub' \in [Cycle -> PubRow]
  BY DEF PublicationInv, Shape
<1>4. \A d \in Cycle : /\ pub[d].local \in {0, pub'[d].local}
                       /\ pub[d].comment = 1 => pub'[d].comment = 1
  OBVIOUS
<1> QED BY <1>2, <1>3, <1>4, Leaves

(* A status that is no outcome may be written at any time.                 *)
LEMMA StatusChanges ==
  ASSUME PublicationInv, NEW c \in Cycle, NEW status \in {"PENDING", "FAILED"},
         pub' = [pub EXCEPT ![c].status = status], cycle_status[c] \in Closed,
         UNCHANGED <<cycleVars, learning, gitVars, githubVars>>
  PROVE  /\ Cycles' /\ \A d \in Cycle : RowHolds(d)'
         /\ pub' \in [Cycle -> PubRow]
         /\ \A d \in Cycle : /\ pub[d].local \in {0, pub'[d].local}
                             /\ pub[d].comment = 1 => pub'[d].comment = 1
<1> DEFINE row == [pub[c] EXCEPT !.status = status]
<1>1. pub[c] \in PubRow /\ pub' = [pub EXCEPT ![c] = row]
  BY DEF PublicationInv, Shape
<1>2. /\ row \in PubRow /\ row.status = status /\ row.local = pub[c].local
      /\ row.pr = pub[c].pr /\ row.comment = pub[c].comment
  BY <1>1 DEF PubRow, PublicationStatus
<1> HIDE DEF row
<1>3. UNCHANGED <<cycle, accepted, commits, remote, prs, mapped, comments>>
  BY DEF cycleVars, gitVars, githubVars
<1>4. pub'[c] = row
  BY <1>1 DEF PublicationInv, Shape
<1>5. RowHolds(c)'
  BY <1>2, <1>3, <1>4 DEF PublicationInv, RowHolds, Out
<1> QED BY <1>1, <1>2, <1>5, RowChanges

(* publish_one's except clause.                                            *)
LEMMA Fails ==
  ASSUME PublicationInv, NEW p \in Proc, pc[p] # "idle", Fail(p)
  PROVE  PublicationInv'
<1>1. target[p] \in Cycle /\ cycle_status[target[p]] \in Closed
  BY PublicationBounds DEF PublicationInv, Shape, Held, Cycle
<1>2. /\ Cycles' /\ \A d \in Cycle : RowHolds(d)'
      /\ pub' \in [Cycle -> PubRow]
      /\ \A d \in Cycle : /\ pub[d].local \in {0, pub'[d].local}
                          /\ pub[d].comment = 1 => pub'[d].comment = 1
  <2>1. pub' = [pub EXCEPT ![target[p]].status = "FAILED"]
          /\ UNCHANGED <<cycleVars, learning, gitVars, githubVars>>
    BY DEF Fail
  <2> QED BY <1>1, <2>1, StatusChanges
<1>3. /\ Leave(p) /\ UNCHANGED <<cycleVars, gitVars, githubVars>>
      /\ learning' \in [Cycle -> {"NONE", "PENDING"}]
  BY DEF Fail, PublicationInv, Shape
<1> QED BY <1>2, <1>3, Leaves

(* The operator's retry.                                                   *)
LEMMA Retries ==
  ASSUME PublicationInv, NEW c \in Cycle, retry_publication(c)
  PROVE  PublicationInv'
<1>1. /\ pub[c].status = "FAILED" /\ pub' = [pub EXCEPT ![c].status = "PENDING"]
      /\ UNCHANGED <<cycleVars, learning, gitVars, githubVars, procVars>>
  BY DEF retry_publication
<1>2. cycle_status[c] \in Closed
  BY <1>1 DEF PublicationInv, Cycles, NoRow
<1>3. /\ Cycles' /\ \A d \in Cycle : RowHolds(d)'
      /\ pub' \in [Cycle -> PubRow]
      /\ \A d \in Cycle : /\ pub[d].local \in {0, pub'[d].local}
                          /\ pub[d].comment = 1 => pub'[d].comment = 1
  BY <1>1, <1>2, StatusChanges
<1>4. /\ UNCHANGED <<cycle, cycle_status, accepted, learning, commits, remote>>
      /\ UNCHANGED <<prs, opened, comments, lock, pc, target, rec>>
  BY <1>1 DEF cycleVars, gitVars, githubVars, procVars
<1>5. Shape'
  BY <1>3, <1>4 DEF PublicationInv, Shape
<1>6. \A q \in Proc : Held(q)'
  BY <1>1, <1>3, <1>4, OthersKeep
<1> QED BY <1>3, <1>5, <1>6 DEF PublicationInv

(* A publication is created or resumed, and its row copied.                *)
LEMMA Resumes ==
  ASSUME PublicationInv, NEW p \in Proc, next_publication(p)
  PROVE  PublicationInv'
<1>1. /\ pc[p] = "idle" /\ cycle_status[cycle] \in Closed /\ cycle \in Cycle
      /\ pub' = IF pub[cycle].status = "NONE" THEN [pub EXCEPT ![cycle].status = "PENDING"] ELSE pub
      /\ target' = [target EXCEPT ![p] = cycle] /\ rec' = [rec EXCEPT ![p] = pub'[cycle]]
      /\ pc' = [pc EXCEPT ![p] = "lock"]
      /\ UNCHANGED <<cycleVars, learning, gitVars, githubVars, lock>>
  BY DEF next_publication, Eligible, Closed, Goto, PublicationInv, Shape
<1>2. /\ UNCHANGED <<cycle, cycle_status, accepted, learning, tree, commits, remote>>
      /\ UNCHANGED <<prs, opened, mapped, comments, lock>>
  BY <1>1 DEF cycleVars, gitVars, githubVars
<1>3. /\ Cycles' /\ \A d \in Cycle : RowHolds(d)'
      /\ pub' \in [Cycle -> PubRow]
      /\ \A d \in Cycle : /\ pub[d].local \in {0, pub'[d].local}
                          /\ pub[d].comment = 1 => pub'[d].comment = 1
  <2>1. CASE pub[cycle].status = "NONE"
    <3>1. pub' = [pub EXCEPT ![cycle].status = "PENDING"]
      BY <1>1, <2>1
    <3> QED BY <1>1, <3>1, StatusChanges
  <2>2. CASE pub[cycle].status # "NONE"
    <3>1. pub' = pub
      BY <1>1, <2>2
    <3> QED BY <1>2, <3>1 DEF PublicationInv, Shape, Cycles, RowHolds, Out
  <2> QED BY <2>1, <2>2
<1>4. /\ pc' \in [Proc -> Step] /\ pc'[p] = "lock"
      /\ target' \in [Proc -> 0 .. MaxCycles] /\ target'[p] = cycle
      /\ \A q \in Proc : q # p => pc'[q] = pc[q] /\ target'[q] = target[q]
  BY <1>1, PublicationBounds DEF PublicationInv, Shape, Step, Cycle
<1>5. /\ rec' \in [Proc -> PubRow] /\ rec'[p] = pub'[cycle]
      /\ \A q \in Proc : q # p => rec'[q] = rec[q]
  BY <1>1, <1>3 DEF PublicationInv, Shape
<1>6. Shape'
  BY <1>2, <1>3, <1>4, <1>5 DEF PublicationInv, Shape
<1>7. Held(p)'
  <2>1. lock' # p
    BY <1>1, <1>2 DEF PublicationInv, Held, LockedSteps
  <2>2. cycle' # 0 /\ cycle_status'[target'[p]] \in Closed
    BY <1>1, <1>2, <1>4, PublicationBounds DEF Cycle
  <2> QED BY <1>2, <1>4, <1>5, <2>1, <2>2 DEF Held, LockedSteps, Pushed, Made, Mapped, Commented
<1>8. \A q \in Proc : q # p => Held(q)'
  BY <1>1, <1>2, <1>3, <1>4, <1>5, OthersKeep
<1> QED BY <1>3, <1>6, <1>7, <1>8 DEF PublicationInv

-----------------------------------------------------------------------------
(* Inside _publish, past the check: the process works on the latest cycle, *)
(* whose accepted work is in the worktree.                                 *)
LEMMA Inside ==
  ASSUME PublicationInv, NEW p \in Proc, pc[p] \in LockedSteps \ {"check"}
  PROVE  /\ target[p] = cycle /\ cycle \in Cycle /\ cycle # 0 /\ lock = p
         /\ cycle_status[cycle] \in Closed /\ tree = accepted[cycle] /\ accepted[cycle] # Base
         /\ pub[cycle] \in PubRow /\ rec[p] \in PubRow
         /\ rec[p].local \in {0, pub[cycle].local}
         /\ rec[p].comment = 1 => pub[cycle].comment = 1
         /\ pub[cycle].local # 0 => /\ pub[cycle].local = Len(commits)
                                    /\ commits[Len(commits)] = accepted[cycle]
<1>1. Shape /\ Held(p) /\ Cycles
  BY DEF PublicationInv
<1>2. target[p] = cycle /\ cycle \in Cycle /\ accepted[cycle] # Base /\ lock = p
  BY <1>1 DEF Held, Shape
<1>3. cycle # 0
  BY <1>2, PublicationBounds DEF Cycle
<1>4. cycle_status[cycle] \in Closed /\ tree = accepted[cycle]
  BY <1>1, <1>2, <1>3 DEF Held, Cycles, Closed
<1>5. RowHolds(cycle)
  BY <1>2 DEF PublicationInv
<1> QED BY <1>1, <1>2, <1>3, <1>4, <1>5 DEF Held, Shape, RowHolds

World ==
  /\ commits \in Seq(Content) /\ Len(commits) \in Nat \ {0} /\ remote \in Nat
  /\ remote <= Len(commits)
  /\ prs \in Nat /\ opened \in 0 .. 1 /\ opened <= prs
  /\ comments \in [Cycle -> 0 .. 1]

(* A step that leaves the rows alone.                                      *)
LEMMA Proceeds ==
  ASSUME PublicationInv, NEW p \in Proc, NEW step \in LockedSteps,
         pc[p] \in LockedSteps \/ (pc[p] = "lock" /\ lock = NoProc), lock' = p,
         Goto(p, step), UNCHANGED <<cycleVars, pub, learning, tree, target, rec>>,
         World', \A d \in Cycle : RowHolds(d)', Held(p)'
  PROVE  PublicationInv'
<1>1. UNCHANGED <<cycle, cycle_status, accepted>>
  BY DEF cycleVars
<1>2. /\ pc' \in [Proc -> Step] /\ \A q \in Proc : q # p => pc'[q] = pc[q]
  BY DEF PublicationInv, Shape, Goto, Step
<1>3. Shape'
  BY <1>1, <1>2 DEF PublicationInv, Shape, World
<1>4. Cycles'
  BY <1>1 DEF PublicationInv, Cycles
<1>5. \A q \in Proc : q # p => pc[q] \notin LockedSteps
  BY ProcAssumption DEF PublicationInv, Held
<1>6. ASSUME NEW q \in Proc, q # p PROVE Held(q)'
  BY <1>1, <1>2, <1>5, <1>6, OthersWait
<1> QED BY <1>3, <1>4, <1>6 DEF PublicationInv

(* The lock is taken, and eligibility re-checked under it.                  *)
LEMMA Starts ==
  ASSUME PublicationInv, NEW p \in Proc, acquire_thread_lock(p) \/ check_changes(p)
  PROVE  PublicationInv'
<1>0. Shape /\ Cycles /\ Held(p) /\ pc[p] # "idle"
  BY DEF PublicationInv, acquire_thread_lock, check_changes
<1>1. /\ UNCHANGED <<cycleVars, pub, learning, tree, target, rec>>
      /\ UNCHANGED <<cycle, cycle_status, accepted, commits, remote, prs, opened, mapped, comments>>
  BY DEF acquire_thread_lock, check_changes, cycleVars, gitVars, githubVars
<1>2. World' /\ \A d \in Cycle : RowHolds(d)'
  BY <1>1 DEF PublicationInv, Shape, World, RowHolds, Out
<1>3. CASE acquire_thread_lock(p)
  <2>1. pc[p] = "lock" /\ lock = NoProc /\ lock' = p /\ Goto(p, "check")
    BY <1>3 DEF acquire_thread_lock
  <2>2. pc'[p] = "check"
    BY <1>0, <2>1 DEF Goto, Shape
  <2>3. Held(p)'
    BY <1>0, <1>1, <2>1, <2>2 DEF Held, LockedSteps, Pushed, Made, Mapped, Commented
  <2>4. "check" \in LockedSteps
    BY DEF LockedSteps
  <2> QED BY <1>1, <1>2, <2>1, <2>3, <2>4, Proceeds
<1>4. CASE check_changes(p)
  <2> DEFINE step == IF rec[p].local = 0 THEN "commit" ELSE "push"
  <2>1. pc[p] = "check" /\ Eligible(target[p]) /\ tree # Base /\ lock' = lock /\ Goto(p, step)
    BY <1>4 DEF check_changes
  <2>2. step \in LockedSteps /\ pc[p] \in LockedSteps /\ lock = p
    BY <1>0, <2>1 DEF LockedSteps, Held
  <2>3. target[p] = cycle /\ tree = accepted[cycle]
    BY <1>0, <2>1 DEF Eligible, Cycles
  <2>4. pc'[p] = step
    BY <1>0, <2>1, <2>2 DEF Goto, Shape
  <2>5. Held(p)'
    BY <1>0, <1>1, <2>1, <2>2, <2>3, <2>4 DEF Held, LockedSteps, Pushed, Made, Mapped, Commented
  <2> HIDE DEF step
  <2> QED BY <1>1, <1>2, <2>1, <2>2, <2>5, Proceeds
<1> QED BY <1>3, <1>4

(* A commit is made only for work that no row of this cycle records.       *)
LEMMA CommitsWork ==
  ASSUME PublicationInv, NEW p \in Proc, git_commit(p)
  PROVE  PublicationInv'
<1>0. /\ Shape /\ Held(p) /\ pc[p] = "commit" /\ pc[p] \in LockedSteps \ {"check"}
      /\ "committed" \in LockedSteps
  BY DEF PublicationInv, git_commit, LockedSteps
<1>1. /\ UNCHANGED <<cycleVars, pub, learning, tree, target, rec, lock>> /\ Goto(p, "committed")
      /\ UNCHANGED <<cycle, cycle_status, accepted, remote, prs, opened, mapped, comments>>
      /\ commits' = IF dirty THEN Append(commits, tree) ELSE commits
  BY DEF git_commit, cycleVars, githubVars
<1>2. /\ lock = p /\ tree = accepted[cycle] /\ target[p] = cycle /\ cycle \in Cycle
      /\ pub[cycle].local # 0 => commits[Len(commits)] = accepted[cycle]
  BY <1>0, Inside
<1>3. /\ commits' \in Seq(Content) /\ Len(commits') \in Nat \ {0} /\ Len(commits) <= Len(commits')
      /\ \A i \in 1 .. Len(commits) : commits'[i] = commits[i]
      /\ commits'[Len(commits')] = tree
  <2>1. accepted[cycle] \in Content /\ commits \in Seq(Content) /\ Len(commits) \in Nat \ {0}
    BY <1>0, <1>2 DEF Shape
  <2>2. CASE dirty
    BY <1>1, <1>2, <2>1, <2>2
  <2>3. CASE ~dirty
    BY <1>1, <1>2, <2>1, <2>3 DEF dirty, head
  <2> QED BY <2>2, <2>3
<1>4. pub[cycle].local # 0 => commits' = commits
  BY <1>1, <1>2 DEF dirty, head
<1>5. World'
  BY <1>0, <1>1, <1>3 DEF Shape, World
<1>6. ASSUME NEW d \in Cycle PROVE RowHolds(d)'
  <2>1. RowHolds(d) /\ pub[d].local \in Nat /\ remote \in Nat
    BY <1>0 DEF PublicationInv, Shape, PubRow
  <2>2. pub[d].local # 0 => /\ pub[d].local <= Len(commits')
                            /\ commits'[pub[d].local] = commits[pub[d].local]
    <3> SUFFICES ASSUME pub[d].local # 0
                 PROVE  /\ pub[d].local <= Len(commits')
                        /\ commits'[pub[d].local] = commits[pub[d].local]
      OBVIOUS
    <3> DEFINE i == pub[d].local
    <3>1. i \in Nat /\ i # 0 /\ i <= Len(commits) /\ Len(commits) \in Nat
      BY <1>0, <2>1 DEF RowHolds, Shape
    <3> HIDE DEF i
    <3>2. i <= Len(commits') /\ commits'[i] = commits[i]
      BY <1>3, <3>1
    <3> QED BY <3>2 DEF i
  <2>3. d = cycle /\ pub[d].local # 0 => Len(commits') = Len(commits)
    BY <1>4
  <2> QED BY <1>1, <2>1, <2>2, <2>3 DEF RowHolds, Out
<1>7. pc'[p] = "committed"
  BY <1>0, <1>1 DEF Shape, Goto
<1>8. Held(p)'
  BY <1>0, <1>1, <1>2, <1>3, <1>7 DEF Held, LockedSteps, Pushed, Made, Mapped, Commented
<1> QED BY <1>0, <1>1, <1>2, <1>5, <1>6, <1>8, Proceeds

(* The push, which leaves the remote branch where the local one is.        *)
LEMMA Pushes ==
  ASSUME PublicationInv, NEW p \in Proc, push(p)
  PROVE  PublicationInv'
<1>0. /\ Shape /\ Held(p) /\ pc[p] = "push" /\ pc[p] \in LockedSteps \ {"check"}
      /\ "pushed" \in LockedSteps
  BY DEF PublicationInv, push, LockedSteps
<1>1. /\ UNCHANGED <<cycleVars, pub, learning, tree, target, rec, lock>> /\ Goto(p, "pushed")
      /\ UNCHANGED <<cycle, cycle_status, accepted, commits, prs, opened, mapped, comments>>
      /\ remote' = IF remote = rec[p].local THEN remote ELSE Len(commits)
  BY DEF push, cycleVars, githubVars, head
<1>2. /\ lock = p /\ target[p] = cycle /\ rec[p].local # 0
      /\ rec[p].local = Len(commits)
  BY <1>0, Inside DEF Held
<1>3. remote' = Len(commits) /\ remote <= remote'
  BY <1>0, <1>1, <1>2 DEF Shape
<1>4. World'
  BY <1>0, <1>1, <1>3 DEF Shape, World
<1>5. ASSUME NEW d \in Cycle PROVE RowHolds(d)'
  <2>1. RowHolds(d) /\ pub[d].local \in Nat /\ remote \in Nat /\ remote' \in Nat
    BY <1>0, <1>3 DEF PublicationInv, Shape, PubRow
  <2>2. Out(d) => Out(d)'
    BY <1>1, <1>3, <2>1 DEF Out
  <2> QED BY <1>1, <2>1, <2>2 DEF RowHolds
<1>6. pc'[p] = "pushed"
  BY <1>0, <1>1 DEF Shape, Goto
<1>7. Held(p)'
  BY <1>0, <1>1, <1>2, <1>3, <1>6 DEF Held, LockedSteps, Pushed, Made, Mapped, Commented
<1> QED BY <1>0, <1>1, <1>2, <1>4, <1>5, <1>7, Proceeds

(* The pull request, its mapping and the comment.                          *)
LEMMA Announces ==
  ASSUME PublicationInv, NEW p \in Proc,
         find_or_create_pr(p) \/ register_pr_mapping(p) \/ find_or_create_comment(p)
  PROVE  PublicationInv'
<1> DEFINE step == IF find_or_create_pr(p) THEN "pr_made"
                   ELSE IF register_pr_mapping(p) THEN "comment" ELSE "commented"
<1>0. Shape /\ Held(p) /\ pc[p] \in LockedSteps \ {"check"} /\ step \in LockedSteps
  BY DEF PublicationInv, find_or_create_pr, register_pr_mapping, find_or_create_comment, LockedSteps
<1>1. /\ UNCHANGED <<cycleVars, pub, learning, tree, target, rec, lock>> /\ Goto(p, step)
      /\ UNCHANGED <<cycle, cycle_status, accepted, commits, remote>>
  BY DEF find_or_create_pr, register_pr_mapping, find_or_create_comment, cycleVars, gitVars
<1>2. /\ lock = p /\ target[p] = cycle /\ cycle \in Cycle
      /\ rec[p].comment = 1 => pub[cycle].comment = 1
      /\ rec[p].comment \in 0 .. 1 /\ RowHolds(cycle)
  BY <1>0, Inside DEF PubRow, PublicationInv
<1>3. /\ prs' \in Nat /\ prs <= prs' /\ opened' \in 0 .. 1 /\ opened' <= prs'
      /\ find_or_create_pr(p) => prs' >= 1
  BY <1>0 DEF Shape, find_or_create_pr, register_pr_mapping, find_or_create_comment
<1>4. (mapped => mapped') /\ (register_pr_mapping(p) => mapped')
  BY DEF find_or_create_pr, register_pr_mapping, find_or_create_comment
<1>5. /\ comments' \in [Cycle -> 0 .. 1]
      /\ \A d \in Cycle : comments[d] = 1 => comments'[d] = 1
      /\ find_or_create_comment(p) => comments'[cycle] = 1
  <2>1. CASE find_or_create_comment(p)
    <3>1. comments' = [comments EXCEPT ![cycle] = IF rec[p].comment = 1 THEN @ ELSE 1]
      BY <1>2, <2>1 DEF find_or_create_comment
    <3>2. rec[p].comment = 1 => comments[cycle] = 1
      BY <1>2 DEF RowHolds
    <3> QED BY <1>0, <1>2, <3>1, <3>2 DEF Shape
  <2>2. CASE ~find_or_create_comment(p)
    <3>1. comments' = comments
      BY <2>2 DEF find_or_create_pr, register_pr_mapping
    <3> QED BY <1>0, <2>2, <3>1 DEF Shape
  <2> QED BY <2>1, <2>2
<1>6. World'
  BY <1>0, <1>1, <1>3, <1>5 DEF Shape, World
<1>7. ASSUME NEW d \in Cycle PROVE RowHolds(d)'
  <2>1. RowHolds(d) /\ prs \in Nat
    BY <1>0 DEF PublicationInv, Shape
  <2>2. prs >= 1 => prs' >= 1
    BY <1>3, <2>1
  <2> QED BY <1>1, <1>4, <1>5, <2>1, <2>2 DEF RowHolds, Out
<1>8. pc'[p] = step
  BY <1>0, <1>1 DEF Shape, Goto
<1>9. Held(p)'
  <2>1. prs >= 1 => prs' >= 1
    BY <1>0, <1>3 DEF Shape
  <2>2. CASE find_or_create_pr(p)
    <3>1. pc[p] = "pr" /\ step = "pr_made"
      BY <2>2 DEF find_or_create_pr
    <3> QED BY <1>0, <1>1, <1>2, <1>3, <1>8, <2>2, <3>1
            DEF Held, LockedSteps, Pushed, Made, Mapped, Commented
  <2>3. CASE register_pr_mapping(p)
    <3>1. pc[p] = "map" /\ step = "comment"
      BY <2>3 DEF register_pr_mapping, find_or_create_pr
    <3> QED BY <1>0, <1>1, <1>2, <1>4, <1>8, <2>1, <2>3, <3>1
            DEF Held, LockedSteps, Pushed, Made, Mapped, Commented
  <2>4. CASE find_or_create_comment(p)
    <3>1. pc[p] = "comment" /\ step = "commented"
      BY <2>4 DEF register_pr_mapping, find_or_create_pr, find_or_create_comment
    <3> QED BY <1>0, <1>1, <1>2, <1>4, <1>5, <1>8, <2>1, <2>4, <3>1
            DEF Held, LockedSteps, Pushed, Made, Mapped, Commented
  <2> QED BY <2>2, <2>3, <2>4
<1> HIDE DEF step
<1> QED BY <1>0, <1>1, <1>2, <1>6, <1>7, <1>9, Proceeds

-----------------------------------------------------------------------------
(* update_publication inside _publish.                                     *)
LEMMA Updates ==
  ASSUME PublicationInv, NEW p \in Proc, NEW row \in PubRow, NEW step \in Pushed \cup {"push"},
         pc[p] \in LockedSteps \ {"check"}, Update(p, row), Goto(p, step),
         UNCHANGED <<cycleVars, learning, gitVars, githubVars>>,
         pub[cycle].local \in {0, row.local}, pub[cycle].comment = 1 => row.comment = 1,
         row.local = Len(commits), commits[Len(commits)] = accepted[cycle],
         row.comment = 1 => comments[cycle] = 1, row.pr = 1 => prs >= 1,
         row.status \notin {"NO_CHANGES", "COMPLETED"},
         step \in Pushed => remote = Len(commits), step \in Made => prs >= 1,
         step \in Mapped => mapped, step \in Commented => comments[cycle] = 1
  PROVE  PublicationInv'
<1>1. /\ target[p] = cycle /\ cycle \in Cycle /\ cycle # 0 /\ lock = p
      /\ cycle_status[cycle] \in Closed /\ accepted[cycle] # Base /\ Shape /\ RowHolds(cycle)
  BY Inside DEF PublicationInv
<1>2. /\ UNCHANGED <<cycle, cycle_status, accepted, commits, remote, prs, opened, mapped, comments>>
      /\ UNCHANGED <<target, lock, learning>>
      /\ pub' = [pub EXCEPT ![cycle] = row] /\ rec' = [rec EXCEPT ![p] = row]
      /\ pc' = [pc EXCEPT ![p] = step]
  BY <1>1 DEF Update, Goto, cycleVars, gitVars, githubVars
<1>3. pub'[cycle] = row
  BY <1>1, <1>2 DEF Shape
<1>4. RowHolds(cycle)'
  <2>1. Out(cycle) => Out(cycle)'
    BY <1>2, <1>3 DEF Out
  <2>2. row.local \in Nat /\ row.local <= Len(commits)
    BY <1>1 DEF Shape
  <2> QED BY <1>1, <1>2, <1>3, <2>1, <2>2 DEF RowHolds
<1>5. /\ Cycles' /\ \A d \in Cycle : RowHolds(d)'
      /\ pub' \in [Cycle -> PubRow]
      /\ \A d \in Cycle : /\ pub[d].local \in {0, pub'[d].local}
                          /\ pub[d].comment = 1 => pub'[d].comment = 1
  BY <1>1, <1>2, <1>4, RowChanges
<1>6. step \in LockedSteps \ {"check", "committed"} /\ step # "idle"
  BY DEF LockedSteps, Pushed, Made, Mapped, Commented
<1>7. /\ pc' \in [Proc -> Step] /\ pc'[p] = step /\ rec' \in [Proc -> PubRow] /\ rec'[p] = row
      /\ \A q \in Proc : q # p => pc'[q] = pc[q] /\ rec'[q] = rec[q]
  BY <1>1, <1>2, <1>6 DEF Shape, Step
<1>8. Shape'
  BY <1>1, <1>2, <1>5, <1>7 DEF Shape
<1>9. Held(p)'
  <2>1. row.local # 0
    BY <1>1 DEF Shape
  <2> QED BY <1>1, <1>2, <1>3, <1>6, <1>7, <2>1, Steps DEF Held
<1>10. \A q \in Proc : q # p => Held(q)'
  BY <1>2, <1>5, <1>7, OthersKeep
<1> QED BY <1>5, <1>8, <1>9, <1>10 DEF PublicationInv

(* The four rows written on the way to an outcome.                         *)
LEMMA RecordsProgress ==
  ASSUME PublicationInv, NEW p \in Proc,
         record_commit(p) \/ record_push(p) \/ record_pr(p) \/ record_comment(p)
  PROVE  PublicationInv'
<1>0. /\ pc[p] \in LockedSteps \ {"check"} /\ Held(p) /\ Shape /\ RowHolds(cycle)
      /\ UNCHANGED <<cycleVars, learning, gitVars, githubVars>>
  BY DEF PublicationInv, Shape, record_commit, record_push, record_pr, record_comment, LockedSteps
<1>1. /\ target[p] = cycle /\ cycle \in Cycle /\ pub[cycle] \in PubRow
      /\ rec[p].local \in {0, pub[cycle].local}
      /\ pub[cycle].local # 0 => /\ pub[cycle].local = Len(commits)
                                 /\ commits[Len(commits)] = accepted[cycle]
  BY <1>0, Inside
<1>2. Len(commits) \in Nat /\ Len(commits) # 0
  BY <1>0 DEF Shape
<1>3. CASE record_commit(p)
  <2> DEFINE row == [pub[cycle] EXCEPT !.status = "COMMITTED", !.local = Len(commits)]
  <2>1. Update(p, row) /\ Goto(p, "push") /\ pc[p] = "committed"
    BY <1>1, <1>3 DEF record_commit, head
  <2>2. /\ row \in PubRow /\ row.local = Len(commits) /\ row.pr = pub[cycle].pr
        /\ row.comment = pub[cycle].comment /\ row.status = "COMMITTED"
    BY <1>1, <1>2 DEF PubRow, PublicationStatus
  <2> HIDE DEF row
  <2>3. commits[Len(commits)] = accepted[cycle]
    BY <1>0, <2>1 DEF Held
  <2>4. /\ row.comment = 1 => comments[cycle] = 1
        /\ row.pr = 1 => prs >= 1
        /\ pub[cycle].local \in {0, row.local}
    BY <1>0, <1>1, <2>2 DEF RowHolds
  <2>5. "push" \in Pushed \cup {"push"} /\ "push" \notin Pushed
    BY DEF Pushed, Made, Mapped, Commented
  <2> QED BY <1>0, <2>1, <2>2, <2>3, <2>4, <2>5, Steps, Updates
<1>4. CASE record_push(p) \/ record_pr(p) \/ record_comment(p)
  <2>1. /\ pc[p] \in Pushed /\ pub[cycle].local # 0 /\ remote = Len(commits)
        /\ pub[cycle].local = Len(commits) /\ commits[Len(commits)] = accepted[cycle]
    <3>1. pc[p] \in Pushed
      BY <1>4 DEF record_push, record_pr, record_comment, Pushed, Made, Mapped, Commented
    <3> QED BY <1>0, <1>1, <3>1 DEF Held
  <2>2. CASE record_push(p)
    <3> DEFINE row == [pub[cycle] EXCEPT !.status = "PUSHED"]
               step == IF pub[cycle].pr = 0 THEN "pr" ELSE "map"
    <3>1. Update(p, row) /\ Goto(p, step)
      BY <1>1, <2>2 DEF record_push
    <3>2. /\ row \in PubRow /\ row.local = pub[cycle].local /\ row.pr = pub[cycle].pr
          /\ row.comment = pub[cycle].comment /\ row.status = "PUSHED"
      BY <1>1 DEF PubRow, PublicationStatus
    <3>3. /\ step \in Pushed /\ step \notin Mapped
          /\ step \in Made => prs >= 1
      BY <1>0, <1>1 DEF RowHolds, PubRow, Pushed, Made, Mapped, Commented
    <3>4. /\ row.comment = 1 => comments[cycle] = 1
          /\ row.pr = 1 => prs >= 1
      BY <1>0, <3>2 DEF RowHolds
    <3> HIDE DEF row, step
    <3> QED BY <1>0, <2>1, <3>1, <3>2, <3>3, <3>4, Steps, Updates
  <2>3. CASE record_pr(p)
    <3> DEFINE row == [pub[cycle] EXCEPT !.status = "PR_CREATED", !.pr = 1]
    <3>1. Update(p, row) /\ Goto(p, "map") /\ pc[p] = "pr_made"
      BY <1>1, <2>3 DEF record_pr
    <3>0. 1 \in 0 .. 1 /\ "PR_CREATED" \in PublicationStatus
      BY DEF PublicationStatus
    <3>2. /\ row \in PubRow /\ row.local = pub[cycle].local
          /\ row.comment = pub[cycle].comment /\ row.status = "PR_CREATED"
      BY <1>1, <3>0 DEF PubRow
    <3>3. prs >= 1
      BY <1>0, <3>1 DEF Held, Made
    <3>4. "map" \in Pushed /\ "map" \notin Mapped
      BY DEF Pushed, Made, Mapped, Commented
    <3>5. row.comment = 1 => comments[cycle] = 1
      BY <1>0, <3>2 DEF RowHolds
    <3> HIDE DEF row
    <3> QED BY <1>0, <2>1, <3>1, <3>2, <3>3, <3>4, <3>5, Steps, Updates
  <2>4. CASE record_comment(p)
    <3> DEFINE row == [pub[cycle] EXCEPT !.status = "COMMENTED", !.comment = 1]
    <3>1. Update(p, row) /\ Goto(p, "complete") /\ pc[p] = "commented"
      BY <1>1, <2>4 DEF record_comment
    <3>0. 1 \in 0 .. 1 /\ "COMMENTED" \in PublicationStatus
      BY DEF PublicationStatus
    <3>2. /\ row \in PubRow /\ row.local = pub[cycle].local
          /\ row.pr = pub[cycle].pr /\ row.status = "COMMENTED" /\ row.comment = 1
      BY <1>1, <3>0 DEF PubRow
    <3>3. prs >= 1 /\ mapped /\ comments[cycle] = 1
      BY <1>0, <1>1, <3>1 DEF Held, Made, Mapped, Commented
    <3>4. "complete" \in Pushed
      BY DEF Pushed, Made, Mapped, Commented
    <3> HIDE DEF row
    <3> QED BY <1>0, <2>1, <3>1, <3>2, <3>3, <3>4, Updates
  <2> QED BY <1>4, <2>2, <2>3, <2>4
<1> QED BY <1>3, <1>4

(* An outcome: the lock goes, and the server goes on to finalize it.       *)
LEMMA Outcomes ==
  ASSUME PublicationInv, NEW p \in Proc, NEW c \in Cycle, c = target[p],
         check_no_changes(p) \/ record_completed(p)
  PROVE  PublicationInv'
<1> DEFINE status == IF check_no_changes(p) THEN "NO_CHANGES" ELSE "COMPLETED"
           row == [pub[c] EXCEPT !.status = status]
<1>1. /\ pc[p] \in LockedSteps /\ Held(p) /\ Shape /\ Cycles /\ Settle(p, row)
      /\ UNCHANGED <<cycleVars, learning, gitVars, githubVars>>
  BY DEF PublicationInv, check_no_changes, record_completed, LockedSteps
<1>2. /\ UNCHANGED <<cycle, cycle_status, accepted, commits, remote, prs, opened, mapped, comments>>
      /\ UNCHANGED learning
  BY <1>1 DEF cycleVars, gitVars, githubVars
<1>3. c \in Cycle /\ c # 0 /\ cycle_status[c] \in Closed /\ lock = p /\ RowHolds(c)
  BY <1>1, PublicationBounds DEF PublicationInv, Shape, Held, LockedSteps, Cycle
<1>4. pub[c] \in PubRow
  BY <1>1, <1>3 DEF Shape
<1>5. /\ row \in PubRow /\ row.local = pub[c].local /\ row.pr = pub[c].pr
      /\ row.comment = pub[c].comment /\ row.status = status
  <2>1. status \in PublicationStatus
    BY DEF PublicationStatus
  <2> HIDE DEF status
  <2> QED BY <1>4, <2>1 DEF PubRow
<1>6. status = "NO_CHANGES" => accepted[c] = Base
  <2> SUFFICES ASSUME check_no_changes(p) PROVE accepted[c] = Base
    OBVIOUS
  <2>1. Eligible(c) /\ tree = Base
    BY DEF check_no_changes
  <2> QED BY <1>1, <2>1 DEF Eligible, Cycles
<1>7. status = "COMPLETED" => Out(c)
  <2> SUFFICES ASSUME ~check_no_changes(p) PROVE Out(c)
    OBVIOUS
  <2>1. pc[p] = "complete"
    BY DEF record_completed
  <2>2. pc[p] \in LockedSteps \ {"check"} /\ pc[p] \in Commented
    BY <2>1 DEF LockedSteps, Commented
  <2>3. /\ rec[p].local # 0 /\ remote = Len(commits) /\ prs >= 1 /\ mapped /\ comments[c] = 1
    BY <1>1, <2>2, Steps DEF Held
  <2>4. c = cycle /\ pub[c].local = rec[p].local /\ pub[c].local = Len(commits)
    BY <2>2, <2>3, Inside
  <2> QED BY <1>1, <2>3, <2>4 DEF Out, Shape
<1>8. /\ pub' = [pub EXCEPT ![c] = row] /\ lock' = NoProc
      /\ pc' = [pc EXCEPT ![p] = IF p = Server THEN "finalize" ELSE "idle"]
      /\ target' = [target EXCEPT ![p] = IF p = Server THEN target[p] ELSE 0]
      /\ rec' = [rec EXCEPT ![p] = NoRow]
  BY <1>1 DEF Settle
<1> HIDE DEF row, status
<1>9. pub'[c] = row
  BY <1>1, <1>3, <1>8 DEF Shape
<1>10. RowHolds(c)'
  <2>1. Out(c) => Out(c)'
    BY <1>2, <1>5, <1>9 DEF Out
  <2> QED BY <1>2, <1>3, <1>5, <1>6, <1>7, <1>9, <2>1 DEF RowHolds
<1>11. /\ Cycles' /\ \A d \in Cycle : RowHolds(d)'
       /\ pub' \in [Cycle -> PubRow]
       /\ \A d \in Cycle : /\ pub[d].local \in {0, pub'[d].local}
                           /\ pub[d].comment = 1 => pub'[d].comment = 1
  BY <1>1, <1>3, <1>5, <1>8, <1>10, RowChanges
<1>12. NoRow \in PubRow /\ NoRow.local = 0 /\ NoRow.comment = 0
  BY DEF NoRow, PubRow, PublicationStatus
<1>13. /\ pc' \in [Proc -> Step] /\ pc'[p] \in {"finalize", "idle"}
       /\ target' \in [Proc -> 0 .. MaxCycles] /\ target'[p] \in {0, c}
       /\ pc'[p] = "finalize" => target'[p] = c
       /\ \A q \in Proc : q # p => pc'[q] = pc[q] /\ target'[q] = target[q]
  <2>1. /\ pc' \in [Proc -> Step] /\ pc'[p] = IF p = Server THEN "finalize" ELSE "idle"
        /\ \A q \in Proc : q # p => pc'[q] = pc[q]
    BY <1>1, <1>8 DEF Shape, Step
  <2>2. /\ target' \in [Proc -> 0 .. MaxCycles]
        /\ target'[p] = IF p = Server THEN target[p] ELSE 0
        /\ \A q \in Proc : q # p => target'[q] = target[q]
    BY <1>1, <1>8, PublicationBounds DEF Shape
  <2> QED BY <2>1, <2>2
<1>14. /\ rec' \in [Proc -> PubRow] /\ rec'[p] = NoRow
       /\ \A q \in Proc : q # p => rec'[q] = rec[q]
  BY <1>1, <1>8, <1>12 DEF Shape
<1>15. Shape'
  BY <1>1, <1>2, <1>8, <1>11, <1>13, <1>14 DEF Shape
<1>16. Held(p)'
  <2>1. lock' # p /\ pc'[p] \notin LockedSteps
    BY <1>8, <1>13, ProcAssumption DEF LockedSteps
  <2>2. rec'[p].local = 0 /\ rec'[p].comment = 0
    BY <1>12, <1>14
  <2>3. target'[p] # 0 => cycle_status'[target'[p]] \in Closed
    BY <1>2, <1>3, <1>13
  <2> QED BY <1>3, <1>13, <2>1, <2>2, <2>3, Steps DEF Held
<1>17. ASSUME NEW q \in Proc, q # p PROVE Held(q)'
  <2>1. pc[q] \notin LockedSteps /\ lock' # q
    BY <1>1, <1>8, <1>17, OneHolds, ProcAssumption
  <2> QED BY <1>2, <1>11, <1>13, <1>14, <1>17, <2>1, OthersWait
<1> QED BY <1>11, <1>15, <1>16, <1>17 DEF PublicationInv

-----------------------------------------------------------------------------
(* finalize_publication: the row has an outcome, so what it says is so.    *)
LEMMA Finalizes ==
  ASSUME PublicationInv, NEW c \in Cycle, c = target[Server], finalize_publication
  PROVE  PublicationInv'
<1>1. /\ pub[c].status \in {"COMPLETED", "NO_CHANGES"} /\ c = cycle
      /\ cycle_status[c] = "AWAITING_PUBLICATION"
      /\ cycle_status' = [d \in Cycle |->
           IF d <= c /\ cycle_status[d] = "AWAITING_PUBLICATION" THEN "PUBLISHED"
           ELSE cycle_status[d]]
      /\ learning' = [learning EXCEPT ![c] = "PENDING"] /\ Leave(Server)
      /\ UNCHANGED <<cycle, accepted, pub>>
      /\ Shape /\ Server \in Proc
  BY ProcAssumption DEF finalize_publication, Outcome, Eligible, PublicationInv
<1>2. UNCHANGED <<tree, commits, remote, prs, opened, mapped, comments>>
  BY DEF finalize_publication, gitVars, githubVars
<1>3. /\ cycle_status' \in [Cycle -> CycleStatus]
      /\ \A d \in Cycle : /\ cycle_status[d] \in Closed <=> cycle_status'[d] \in Closed
                          /\ cycle_status'[d] \notin Closed => cycle_status'[d] = cycle_status[d]
  <2>1. \A d \in Cycle : cycle_status[d] \in CycleStatus
    BY <1>1 DEF Shape
  <2>2. \A d \in Cycle : cycle_status'[d] \in {cycle_status[d], "PUBLISHED"}
          /\ (cycle_status'[d] # cycle_status[d] => cycle_status[d] = "AWAITING_PUBLICATION")
    BY <1>1
  <2>3. cycle_status' = [d \in Cycle |-> cycle_status'[d]]
    BY <1>1
  <2>4. \A d \in Cycle : cycle_status'[d] \in CycleStatus
    BY <2>1, <2>2 DEF CycleStatus
  <2>5. cycle_status' \in [Cycle -> CycleStatus]
    BY <2>3, <2>4
  <2> QED BY <2>2, <2>5 DEF Closed
<1>4. /\ learning' \in [Cycle -> {"NONE", "PENDING"}]
      /\ \A d \in Cycle : d # c => learning'[d] = learning[d]
  BY <1>1 DEF Shape
<1>5. Cycles'
  <2>1. Cycles /\ cycle_status[c] \in Closed
    BY <1>1 DEF PublicationInv, Closed
  <2>2. \A d \in Cycle : cycle_status'[d] = "NONE" <=> cycle_status[d] = "NONE"
    BY <1>3 DEF Closed
  <2>3. tree = accepted[cycle]
    BY <1>1, <2>1 DEF Cycles
  <2>4. \A d \in Cycle : cycle_status'[d] \notin Closed => d # c
    BY <1>3, <2>1
  <2> QED BY <1>1, <1>2, <1>3, <1>4, <2>1, <2>2, <2>3, <2>4 DEF Cycles
<1>6. \A d \in Cycle : RowHolds(d)'
  <2>1. RowHolds(c) /\ (accepted[c] = Base \/ Out(c))
    BY <1>1 DEF PublicationInv, RowHolds
  <2>2. \A d \in Cycle : Out(d) => Out(d)'
    BY <1>1, <1>2 DEF Out
  <2> QED BY <1>1, <1>2, <1>4, <2>1, <2>2 DEF PublicationInv, RowHolds
<1>7. NoRow \in PubRow
  BY DEF NoRow, PubRow, PublicationStatus
<1>8. /\ pc' \in [Proc -> Step] /\ pc'[Server] = "idle"
      /\ target' \in [Proc -> 0 .. MaxCycles] /\ target'[Server] = 0
      /\ rec' \in [Proc -> PubRow]
      /\ \A q \in Proc : q # Server => pc'[q] = pc[q] /\ target'[q] = target[q] /\ rec'[q] = rec[q]
  BY <1>1, <1>7, PublicationBounds DEF Shape, Leave, Step
<1>9. /\ lock' \in Proc \cup {NoProc} /\ lock' # Server
      /\ \A q \in Proc : q # Server => (lock' = q <=> lock = q)
  BY <1>1, ProcAssumption DEF Shape, Leave
<1>10. Shape'
  BY <1>1, <1>2, <1>3, <1>4, <1>8, <1>9 DEF Shape
<1>11. Held(Server)'
  BY <1>8, <1>9 DEF Held, LockedSteps, Pushed, Made, Mapped, Commented
<1>12. ASSUME NEW q \in Proc, q # Server PROVE Held(q)'
  <2>1. Held(q) /\ (target[q] # 0 => target[q] \in Cycle)
    BY <1>1, PublicationBounds DEF PublicationInv, Shape, Cycle
  <2>2. target[q] # 0 => cycle_status'[target[q]] \in Closed
    BY <1>3, <2>1 DEF Held
  <2>3. /\ pc'[q] = pc[q] /\ target'[q] = target[q] /\ rec'[q] = rec[q]
        /\ lock' = q <=> lock = q
    BY <1>8, <1>9, <1>12
  <2> QED BY <1>1, <1>2, <2>1, <2>2, <2>3 DEF Held
<1> QED BY <1>5, <1>6, <1>10, <1>11, <1>12 DEF PublicationInv

(* Steering and outsiders: nothing relies on what they change.             *)
LEMMA Ignored ==
  ASSUME PublicationInv,
         UNCHANGED <<cycle, cycle_status, accepted, pub, learning, tree, commits, remote>>,
         UNCHANGED <<opened, mapped, comments, lock, pc, target, rec>>,
         prs' \in Nat, prs' >= prs
  PROVE  PublicationInv'
<1>0. Shape /\ prs \in Nat /\ (prs >= 1 => prs' >= 1)
  BY DEF PublicationInv, Shape
<1>1. Shape'
  <2>1. opened <= prs'
    BY <1>0 DEF Shape
  <2> QED BY <1>0, <2>1 DEF Shape
<1>2. Cycles' /\ (\A c \in Cycle : RowHolds(c)')
  BY <1>0 DEF PublicationInv, Cycles, RowHolds, Out
<1>3. \A p \in Proc : Held(p)'
  BY <1>0 DEF PublicationInv, Held
<1> QED BY <1>1, <1>2, <1>3 DEF PublicationInv

(* A cycle begins or is accepted only when nobody is in _publish.          *)
LEMMA CyclesMove ==
  ASSUME PublicationInv, BeginRevision \/ \E content \in Content : CompleteCycle(content)
  PROVE  PublicationInv'
<1>0. Shape /\ Cycles
  BY DEF PublicationInv
<1>1. \A q \in Proc : pc[q] \notin LockedSteps /\ lock # q
  BY ProcAssumption DEF PublicationInv, Held, BeginRevision, CompleteCycle
<1>2. /\ UNCHANGED <<pub, learning, commits, remote, prs, opened, mapped, comments>>
      /\ UNCHANGED <<lock, pc, target, rec>>
  BY DEF BeginRevision, CompleteCycle, gitVars, githubVars, procVars
<1>3. NoRow.local = 0 /\ NoRow.comment = 0 /\ NoRow.pr = 0 /\ NoRow.status = "NONE"
  BY DEF NoRow
<1>4. ASSUME \A d \in Cycle : cycle_status[d] \in Closed => cycle_status'[d] \in Closed,
             NEW q \in Proc
      PROVE  Held(q)'
  <2>1. Held(q) /\ (target[q] # 0 => target[q] \in Cycle)
    BY PublicationBounds DEF PublicationInv, Shape, Cycle
  <2>2. target[q] # 0 => cycle_status'[target[q]] \in Closed
    BY <1>4, <2>1 DEF Held
  <2> QED BY <1>1, <1>2, <2>1, <2>2, Steps DEF Held
<1>5. CASE BeginRevision
  <2>1. /\ cycle_status[cycle] \in Closed /\ cycle < MaxCycles /\ cycle' = cycle + 1
        /\ cycle_status' = [cycle_status EXCEPT ![cycle + 1] = "ACTIVE"]
        /\ UNCHANGED <<accepted, tree>>
    BY <1>5 DEF BeginRevision, gitVars, Closed
  <2>2. cycle \in Cycle /\ cycle + 1 \in Cycle /\ \A d \in Cycle : d \in Nat
    BY <1>0, <2>1, PublicationBounds DEF Shape, Cycle
  <2>3. /\ cycle_status' \in [Cycle -> CycleStatus]
        /\ \A d \in Cycle : cycle_status'[d] = IF d = cycle + 1 THEN "ACTIVE" ELSE cycle_status[d]
    BY <1>0, <2>1, <2>2 DEF Shape, CycleStatus
  <2>4. cycle_status[cycle + 1] = "NONE" /\ pub[cycle + 1] = NoRow /\ learning[cycle + 1] = "NONE"
    <3>1. cycle + 1 > cycle
      BY <2>2
    <3> QED BY <1>0, <2>2, <3>1 DEF Cycles, Closed
  <2>5. Shape'
    BY <1>0, <1>2, <2>1, <2>2, <2>3 DEF Shape
  <2>6. Cycles'
    <3>1. ASSUME NEW d \in Cycle
          PROVE  /\ d < cycle' => cycle_status'[d] \in Closed
                 /\ d > cycle' => cycle_status'[d] = "NONE"
                 /\ d = cycle' => cycle_status'[d] # "NONE"
                 /\ cycle_status'[d] \notin Closed => pub[d] = NoRow /\ learning[d] = "NONE"
      <4>1. CASE d = cycle + 1
        BY <2>1, <2>2, <2>3, <2>4, <4>1
      <4>2. CASE d # cycle + 1
        <5>1. cycle_status'[d] = cycle_status[d]
          BY <2>3, <4>2
        <5>2. (d < cycle' => d <= cycle) /\ (d > cycle' => d > cycle) /\ d # cycle'
          BY <2>1, <2>2, <4>2
        <5>3. d <= cycle => d < cycle \/ d = cycle
          BY <2>2
        <5> QED BY <1>0, <2>1, <5>1, <5>2, <5>3 DEF Cycles
      <4> QED BY <4>1, <4>2
    <3>2. cycle_status'[cycle'] = "ACTIVE"
      BY <2>1, <2>2, <2>3
    <3> QED BY <1>2, <3>1, <3>2 DEF Cycles
  <2>7. \A d \in Cycle : RowHolds(d)'
    <3>1. \A d \in Cycle : pub[d].local # 0 => d # cycle'
      BY <1>3, <2>1, <2>4
    <3> QED BY <1>2, <2>1, <3>1 DEF PublicationInv, RowHolds, Out
  <2>8. \A d \in Cycle : cycle_status[d] \in Closed => cycle_status'[d] \in Closed
    BY <2>3, <2>4 DEF Closed
  <2> QED BY <1>4, <2>5, <2>6, <2>7, <2>8 DEF PublicationInv
<1>6. ASSUME NEW content \in Content, CompleteCycle(content) PROVE PublicationInv'
  <2>1. /\ cycle_status[cycle] = "ACTIVE" /\ cycle' = cycle /\ cycle \in Cycle
        /\ cycle_status' = [cycle_status EXCEPT ![cycle] = "AWAITING_PUBLICATION"]
        /\ accepted' = [accepted EXCEPT ![cycle] = content] /\ tree' = content
    BY <1>0, <1>6 DEF CompleteCycle, Shape
  <2>2. /\ cycle_status' \in [Cycle -> CycleStatus] /\ accepted' \in [Cycle -> Content]
        /\ \A d \in Cycle : cycle_status'[d] = IF d = cycle THEN "AWAITING_PUBLICATION"
                                               ELSE cycle_status[d]
        /\ \A d \in Cycle : accepted'[d] = IF d = cycle THEN content ELSE accepted[d]
    BY <1>0, <2>1 DEF Shape, CycleStatus
  <2>3. pub[cycle] = NoRow /\ learning[cycle] = "NONE"
    BY <1>0, <2>1 DEF Cycles, Closed
  <2>4. Shape'
    BY <1>0, <1>2, <2>1, <2>2 DEF Shape
  <2>5. Cycles'
    BY <1>0, <1>2, <2>1, <2>2 DEF Cycles, Closed
  <2>6. \A d \in Cycle : RowHolds(d)'
    <3>1. RowHolds(cycle)'
      BY <1>2, <1>3, <2>1, <2>3 DEF RowHolds
    <3>2. \A d \in Cycle : d # cycle => RowHolds(d)'
      BY <1>2, <2>1, <2>2 DEF PublicationInv, RowHolds, Out
    <3> QED BY <2>1, <3>1, <3>2
  <2>7. \A d \in Cycle : cycle_status[d] \in Closed => cycle_status'[d] \in Closed
    BY <2>2 DEF Closed
  <2> QED BY <1>4, <2>4, <2>5, <2>6, <2>7 DEF PublicationInv
<1> QED BY <1>5, <1>6

-----------------------------------------------------------------------------
(* Every step of publishers, operators, cycles and outsiders keeps it.     *)
THEOREM PublicationInductive == Spec => []PublicationInv
<1>1. PublicationInv /\ [Next]_vars => PublicationInv'
  <2> SUFFICES ASSUME PublicationInv, [Next]_vars PROVE PublicationInv'
    OBVIOUS
  <2>0. prs \in Nat
    BY DEF PublicationInv, Shape
  <2>1. ASSUME NEW p \in Proc, Exception(p) \/ Crash(p) PROVE PublicationInv'
    <3>1. CASE Exception(p)
      <4>1. pc[p] # "idle" /\ Fail(p)
        BY <3>1 DEF Exception, LockedSteps
      <4> QED BY <4>1, Fails
    <3>2. CASE Crash(p)
      BY <3>2, Abandons DEF Crash
    <3> QED BY <2>1, <3>1, <3>2
  <2>2. ASSUME NEW p \in Proc, Publishing(p) PROVE PublicationInv'
    <3>1. CASE thread_lock_busy(p)
      BY <3>1, Abandons DEF thread_lock_busy
    <3>2. CASE check_ineligible(p) \/ push_refused(p) \/ pr_ambiguous(p)
      BY <3>2, Fails DEF check_ineligible, push_refused, pr_ambiguous
    <3>3. CASE check_no_changes(p) \/ record_completed(p)
      <4>1. pc[p] # "idle"
        BY <3>3 DEF check_no_changes, record_completed
      <4>2. target[p] \in Cycle
        BY <4>1, PublicationBounds DEF PublicationInv, Shape, Held, Cycle
      <4> QED BY <3>3, <4>2, Outcomes
    <3>4. CASE p = Server /\ finalize_publication
      <4>1. target[Server] \in Cycle
        BY <3>4, PublicationBounds DEF PublicationInv, Shape, Held, Cycle, finalize_publication
      <4> QED BY <3>4, <4>1, Finalizes
    <3>5. CASE p = Server /\ finalize_refused
      BY <3>5, Abandons DEF finalize_refused
    <3> QED BY <2>2, <3>1, <3>2, <3>3, <3>4, <3>5, Starts, CommitsWork, Pushes, Announces,
               RecordsProgress DEF Publishing
  <2>3. ASSUME NEW p \in Proc, next_publication(p) PROVE PublicationInv'
    BY <2>3, Resumes
  <2>4. ASSUME NEW c \in Cycle, retry_publication(c) PROVE PublicationInv'
    BY <2>4, Retries
  <2>5. CASE Environment
    <3>1. CASE QueueSteering
      <4>1. /\ UNCHANGED <<cycle, cycle_status, accepted, pub, learning, tree, commits, remote>>
            /\ UNCHANGED <<prs, opened, mapped, comments, lock, pc, target, rec>>
        BY <3>1 DEF QueueSteering, gitVars, githubVars, procVars
      <4> QED BY <2>0, <4>1, Ignored
    <3>2. CASE OutsiderPush
      <4>1. /\ UNCHANGED <<cycle, cycle_status, accepted, pub, learning, tree, commits, remote>>
            /\ UNCHANGED <<prs, opened, mapped, comments, lock, pc, target, rec>>
        BY <3>2 DEF OutsiderPush, cycleVars, githubVars, procVars
      <4> QED BY <2>0, <4>1, Ignored
    <3>3. CASE OutsiderOpensPR
      <4>1. /\ UNCHANGED <<cycle, cycle_status, accepted, pub, learning, tree, commits, remote>>
            /\ UNCHANGED <<opened, mapped, comments, lock, pc, target, rec>>
            /\ prs' \in Nat /\ prs' >= prs
        BY <3>3 DEF OutsiderOpensPR, cycleVars, gitVars, procVars
      <4> QED BY <4>1, Ignored
    <3> QED BY <2>5, <3>1, <3>2, <3>3, CyclesMove DEF Environment
  <2>6. CASE UNCHANGED vars
    <3>1. /\ UNCHANGED <<cycle, cycle_status, accepted, pub, learning, tree, commits, remote>>
          /\ UNCHANGED <<prs, opened, mapped, comments, lock, pc, target, rec>>
      BY <2>6 DEF vars, cycleVars, gitVars, githubVars, procVars
    <3> QED BY <2>0, <3>1, Ignored
  <2> QED BY <2>1, <2>2, <2>3, <2>4, <2>5, <2>6 DEF Next
<1> QED BY <1>1, InitHolds, PTL DEF Spec

(* "Crash-safe publication": however often it is killed, fails, is retried *)
(* or is raced by the operator's tool, one pull request is opened for the  *)
(* thread and one comment written per publication.                         *)
THEOREM OutputStaysSingle == Spec => []OneOutput
<1>1. PublicationInv => OneOutput
  <2> SUFFICES ASSUME PublicationInv PROVE OneOutput
    OBVIOUS
  <2>1. opened \in 0 .. 1 /\ comments \in [Cycle -> 0 .. 1]
    BY Zenon DEF PublicationInv, Shape
  <2> HIDE DEF Cycle
  <2> QED BY <2>1 DEF OneOutput
<1> QED BY <1>1, PublicationInductive, PTL

(* What is finalized with a commit is out: commit, push, pull request,     *)
(* mapping and comment, although each may be the work of a process with an *)
(* old copy of the row.                                                    *)
THEOREM PublishedStaysAccepted == Spec => []PublishedIsAccepted
<1>1. PublicationInv => PublishedIsAccepted
  <2> SUFFICES ASSUME PublicationInv, NEW c \in Cycle,
                      learning[c] # "NONE", pub[c].local # 0
               PROVE  /\ commits[pub[c].local] = accepted[c]
                      /\ remote >= pub[c].local
                      /\ prs >= 1 /\ mapped /\ comments[c] = 1
    BY Zenon DEF PublishedIsAccepted
  <2>1. RowHolds(c)
    BY Zenon DEF PublicationInv
  <2>2. commits[pub[c].local] = accepted[c] /\ accepted[c] # Base
    BY <2>1, Zenon DEF RowHolds
  <2>3. Out(c)
    BY <2>1, <2>2, Zenon DEF RowHolds
  <2> QED BY <2>2, <2>3, Zenon DEF Out
<1> QED BY <1>1, PublicationInductive, PTL
=============================================================================
