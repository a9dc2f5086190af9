---------------------------- MODULE LearningProofs ----------------------------
(* What Learning promises, for every number of threads, facts, cycles,     *)
(* attempts and deaths of the server.                                      *)
EXTENDS Learning, FiniteSetTheorems, WellFoundedInduction, TLAPS

Statuses == {"NONE", "PROPOSED", "ACCEPTED", "REJECTED"}

Learns == {"curate", "apply", "write", "settle"}

(* What a worker carries from one step to the next.                        *)
Local ==
  [at : Learns \cup {"idle", "case"}, job : Nat, attempt : Nat,
   records : SUBSET (Cycle \X Fact), held : SUBSET (Cycle \X Fact),
   validated : [Fact -> Nat], copy : [Fact -> Nat],
   status : {"NONE", "UPDATED", "NO_UPDATE", "FAILED"}]

Shape ==
  /\ cycle \in [Thread -> Cycle]
  /\ outcome \in [Thread -> [Cycle -> {"NONE", "COMPLETED", "NO_CHANGES"}]]
  /\ proposal \in [Thread -> [Cycle -> [Fact -> Statuses]]]
  /\ learning \in [Thread -> [Cycle -> Job]]
  /\ resolution \in [Thread -> [Cycle -> Job]]
  /\ worker \in [Thread -> Local]
  /\ memory \in [Fact -> Nat]
  /\ calls \in [Thread -> [Cycle -> Nat]]

(* Only the holder of the lock is about to write, and what it will write   *)
(* is the memory as it is, with what it validated.                         *)
Writer ==
  /\ lock \in Thread \cup {NoThread}
  /\ \A t \in Thread : worker[t].at = "write" <=> lock = t
  /\ \A t \in Thread : worker[t].at = "write" =>
       \A f \in Fact : /\ memory[f] > 0 => worker[t].copy[f] = memory[f]
                       /\ worker[t].validated[f] > 0 => worker[t].copy[f] > 0

(* A proposal whose evidence holds is validated, then remembered; a worker *)
(* that is idle carries nothing.                                           *)
Evidence(t) ==
  /\ worker[t].at = "idle" => worker[t] = Idle
  /\ worker[t].at = "curate" => worker[t].held = {}
  /\ worker[t].at \in {"apply", "write"} => 
       \A x \in worker[t].held : worker[t].validated[x[2]] > 0
  /\ worker[t].at = "settle" /\ worker[t].status \in {"UPDATED", "NO_UPDATE"} =>
       \A x \in worker[t].held : memory[x[2]] > 0

(* The row counts the attempt of the worker and is open while it works, and*)
(* each call is an attempt.                                                *)
Attempts(t) ==
  /\ worker[t].at \in Learns =>
       /\ worker[t].job \in Cycle /\ outcome[t][worker[t].job] # "NONE"
       /\ worker[t].attempt = learning[t][worker[t].job].attempts
       /\ learning[t][worker[t].job].status \in {"PENDING", "FAILED"}
  /\ worker[t].at = "case" =>
       /\ worker[t].job \in Cycle /\ worker[t].attempt = resolution[t][worker[t].job].attempts
       /\ resolution[t][worker[t].job].status \in {"PENDING", "FAILED"}
  /\ \A c \in Cycle : /\ outcome[t][c] = "NONE" => learning[t][c] = NoJob
                      /\ calls[t][c] <= learning[t][c].attempts
  /\ worker[t].at = "curate" => calls[t][worker[t].job] < learning[t][worker[t].job].attempts

LearningInv ==
  /\ Shape /\ Writer /\ AcceptedIsRemembered
  /\ \A t \in Thread : Evidence(t) /\ Attempts(t)

-----------------------------------------------------------------------------
(* The oldest of some cycles is one of them, and none is older.            *)
LEMMA OldestIsOne ==
  ASSUME NEW S, S \subseteq Cycle, S # {}
  PROVE  Oldest(S) \in S /\ \A d \in S : Oldest(S) <= d
<1>1. S \subseteq Nat
  BY CyclesAssumption DEF Cycle
<1> DEFINE R == {p \in Nat \X Nat : p[1] < p[2]}
<1>2. IsWellFoundedOn(R, Nat)
  BY NatLessThanWellFounded DEF OpToRel
<1>3. \A d, c \in Nat : d < c => <<d, c>> \in R
  OBVIOUS
<1> HIDE DEF R
<1>4. PICK c \in S : \A d \in S : ~(<<d, c>> \in R)
  BY <1>1, <1>2, WFMin, Zenon
<1>5. ASSUME NEW d \in S PROVE c <= d
  <2>1. c \in Nat /\ d \in Nat
    BY <1>1
  <2>2. ~(d < c)
    BY <2>1, <1>3, <1>4, Zenon
  <2> QED BY <2>1, <2>2
<1> QED BY <1>5 DEF Oldest

(* Before anything was proposed.                                           *)
LEMMA InitHolds == Init => LearningInv
<1> SUFFICES ASSUME Init PROVE LearningInv
  OBVIOUS
<1> USE AttemptsAssumption, CyclesAssumption, HolderAssumption
<1>1. Shape
  BY DEF Init, Shape, Local, Learns, Idle, Nothing, Job, NoJob, Statuses, Cycle
<1>2. Writer
  BY DEF Init, Writer, Idle
<1>3. AcceptedIsRemembered
  BY DEF Init, AcceptedIsRemembered
<1>4. \A t \in Thread : Evidence(t) /\ Attempts(t)
  BY DEF Init, Evidence, Attempts, Idle, NoJob, Learns
<1> QED BY <1>1, <1>2, <1>3, <1>4 DEF LearningInv

(* What one thread does outside learning touches no worker and no memory.  *)
LEMMA Outside ==
  ASSUME LearningInv, UNCHANGED <<worker, memory, lock>>, Shape', AcceptedIsRemembered',
         \A t \in Thread : Attempts(t)'
  PROVE  LearningInv'
<1>1. Writer'
  BY DEF LearningInv, Writer
<1>2. \A t \in Thread : Evidence(t)'
  BY DEF LearningInv, Evidence
<1> QED BY <1>1, <1>2 DEF LearningInv

(* A proposal is made by the thread that works on its cycle.               *)
LEMMA Proposing ==
  ASSUME LearningInv, NEW t \in Thread, NEW f \in Fact, propose_repo_memory(t, f)
  PROVE  LearningInv'
<1> USE DEF propose_repo_memory
<1>1. Shape'
  BY DEF LearningInv, Shape, Statuses
<1>2. AcceptedIsRemembered'
  BY DEF LearningInv, Shape, AcceptedIsRemembered
<1>3. \A u \in Thread : Attempts(u)'
  BY DEF LearningInv, Attempts
<1> QED BY <1>1, <1>2, <1>3, Outside

(* Publishing a cycle leaves a job for it, in the generation it opens.     *)
LEMMA Finalizing ==
  ASSUME LearningInv, NEW t \in Thread, NEW status \in {"COMPLETED", "NO_CHANGES"},
         finalize_publication(t, status)
  PROVE  LearningInv'
<1> USE DEF finalize_publication
<1>0. NewJob \in Job /\ NewJob.attempts = 0
  BY AttemptsAssumption DEF NewJob, Job
<1>1. Shape'
  BY <1>0 DEF LearningInv, Shape
<1>2. AcceptedIsRemembered'
  BY DEF LearningInv, AcceptedIsRemembered
<1>3. ASSUME NEW u \in Thread PROVE Attempts(u)'
  <2>1. Attempts(u) /\ worker[t].at = "idle"
    BY DEF LearningInv, MayAdvance
  <2>2. CASE u = t
    BY <2>1, <2>2, <1>0 DEF LearningInv, Shape, Attempts, Learns, NoJob
  <2>3. CASE u # t
    BY <2>1, <2>3 DEF LearningInv, Shape, Attempts
  <2> QED BY <2>2, <2>3
<1> QED BY <1>1, <1>2, <1>3, Outside

(* A revision opens the next cycle.                                        *)
LEMMA Revising ==
  ASSUME LearningInv, NEW t \in Thread, begin_revision_cycle(t) PROVE LearningInv'
<1> USE DEF begin_revision_cycle
<1>0. cycle[t] + 1 \in Cycle
  BY CyclesAssumption DEF LearningInv, Shape, Cycle
<1>1. Shape'
  BY <1>0 DEF LearningInv, Shape
<1>2. AcceptedIsRemembered'
  BY DEF LearningInv, AcceptedIsRemembered
<1>3. \A u \in Thread : Attempts(u)'
  BY DEF LearningInv, Attempts
<1> QED BY <1>1, <1>2, <1>3, Outside

-----------------------------------------------------------------------------
(* Learning: the steps of one worker.                                      *)

(* Facts about the others, when one worker goes on and memory is kept.     *)
LEMMA OthersKept ==
  ASSUME LearningInv, NEW t \in Thread, NEW w \in Local, Update(t, w),
         UNCHANGED <<memory, outcome>>, NEW u \in Thread, u # t,
         learning'[u] = learning[u], resolution'[u] = resolution[u], calls'[u] = calls[u]
  PROVE  Evidence(u)' /\ Attempts(u)'
<1>1. worker'[u] = worker[u]
  BY DEF LearningInv, Shape, Update
<1> QED BY <1>1 DEF LearningInv, Evidence, Attempts

(* The lock and the memory stay as they are, and the worker does not write.*)
LEMMA WriterKept ==
  ASSUME LearningInv, NEW t \in Thread, NEW w \in Local, Update(t, w),
         UNCHANGED <<memory, lock>>, worker[t].at # "write", w.at # "write"
  PROVE  Writer'
<1>1. \A u \in Thread : worker'[u] = IF u = t THEN w ELSE worker[u]
  BY DEF LearningInv, Shape, Update
<1> QED BY <1>1 DEF LearningInv, Writer

(* What a worker starts an attempt with.                                   *)
LEMMA Starts ==
  ASSUME NEW step \in Learns \cup {"case"}, NEW c \in Cycle, NEW n \in Nat
  PROVE  LET w == [Idle EXCEPT !.at = step, !.job = c, !.attempt = n]
         IN  w \in Local /\ w.at = step /\ w.job = c /\ w.attempt = n /\ w.held = {}
<1>1. c \in Nat
  BY CyclesAssumption DEF Cycle
<1>2. Idle \in Local
  BY DEF Idle, Nothing, Local
<1>3. Idle.held = {}
  BY DEF Idle
<1> QED BY <1>1, <1>2, <1>3 DEF Local

(* A claim counts its attempt before the model is called.                  *)
LEMMA ClaimingLearning ==
  ASSUME LearningInv, NEW t \in Thread, claim_memory_learning_attempt(t) PROVE LearningInv'
<1> DEFINE c == Oldest(pending_memory_learning(t))
           claimed == _claim_attempt(learning[t][c])
           w == [Idle EXCEPT !.at = "curate", !.job = c, !.attempt = claimed.attempts]
<1>1. c \in Cycle /\ Due(learning[t][c])
  BY OldestIsOne DEF claim_memory_learning_attempt, pending_memory_learning
<1>2. learning[t][c] \in Job
  BY <1>1 DEF LearningInv, Shape
<1>3. /\ claimed \in Job /\ claimed.attempts = learning[t][c].attempts + 1
      /\ claimed.status \in {"PENDING", "FAILED"}
  BY <1>1, <1>2, AttemptsAssumption DEF _claim_attempt, Job, Due
<1> HIDE DEF claimed
<1>4. claimed.attempts \in Nat
  BY <1>3, AttemptsAssumption DEF Job
<1>5. w \in Local /\ w.at = "curate" /\ w.job = c /\ w.attempt = claimed.attempts /\ w.held = {}
  BY <1>1, <1>4, Starts DEF Learns
<1>6. /\ worker[t].at = "idle" /\ Update(t, w)
      /\ learning' = [learning EXCEPT ![t][c] = claimed]
      /\ UNCHANGED <<cycle, outcome, proposal, resolution, memory, lock, calls>>
  BY DEF claim_memory_learning_attempt, claimed
<1> HIDE DEF c, w
<1>7. worker'[t] = w /\ learning'[t] = [learning[t] EXCEPT ![c] = claimed]
  BY <1>6 DEF LearningInv, Shape, Update
<1>8. Shape'
  BY <1>1, <1>3, <1>5, <1>6 DEF LearningInv, Shape, Update
<1>9. Writer'
  BY <1>5, <1>6, WriterKept
<1>10. AcceptedIsRemembered'
  BY <1>6 DEF LearningInv, AcceptedIsRemembered
<1>11. Evidence(t)'
  BY <1>5, <1>7 DEF Evidence
<1>12. Attempts(t)'
  <2>1. Attempts(t) /\ calls[t] \in [Cycle -> Nat] /\ learning[t] \in [Cycle -> Job]
    BY DEF LearningInv, Shape
  <2> QED BY <2>1, <1>1, <1>2, <1>3, <1>5, <1>6, <1>7 DEF Attempts, Learns, Job, Due, NoJob
<1>13. ASSUME NEW u \in Thread, u # t PROVE Evidence(u)' /\ Attempts(u)'
  <2>1. learning'[u] = learning[u]
    BY <1>13, <1>6 DEF LearningInv, Shape
  <2> QED BY <2>1, <1>13, <1>5, <1>6, OthersKept
<1> QED BY <1>8, <1>9, <1>10, <1>11, <1>12, <1>13 DEF LearningInv

(* A step that leaves rows, memory and lock alone and does not start to    *)
(* write.                                                                  *)
LEMMA Steps ==
  ASSUME LearningInv, NEW t \in Thread, NEW w \in Local, Update(t, w),
         UNCHANGED <<cycle, outcome, proposal, learning, resolution, memory, lock>>,
         worker[t].at # "write", w.at # "write", calls' \in [Thread -> [Cycle -> Nat]],
         \A u \in Thread : u # t => calls'[u] = calls[u],
         Evidence(t)', Attempts(t)'
  PROVE  LearningInv'
<1>1. Shape'
  BY DEF LearningInv, Shape, Update
<1>2. Writer'
  BY WriterKept
<1>3. AcceptedIsRemembered'
  BY DEF LearningInv, AcceptedIsRemembered
<1>4. \A u \in Thread : Evidence(u)' /\ Attempts(u)'
  BY OthersKept
<1> QED BY <1>1, <1>2, <1>3, <1>4 DEF LearningInv

(* A batch counts every candidate, and a proposal that holds is one.       *)
LEMMA Batches ==
  ASSUME NEW held \in SUBSET (Cycle \X Fact), NEW curated \in [Fact -> 0 .. MaxCurated]
  PROVE  /\ Batch(held, curated) \in [Fact -> Nat]
         /\ \A x \in held : Batch(held, curated)[x[2]] > 0
<1>0. IsFiniteSet(Cycle)
  BY FS_Interval, CyclesAssumption DEF Cycle
<1>1. IsFiniteSet(Cycle \X Fact)
  BY <1>0, FS_Product, FactAssumption
<1>2. ASSUME NEW f \in Fact
      PROVE  /\ Cardinality({x \in held : x[2] = f}) \in Nat
             /\ \A x \in held : x[2] = f => Cardinality({y \in held : y[2] = f}) > 0
  <2> DEFINE some == {x \in held : x[2] = f}
  <2>1. IsFiniteSet(some)
    BY <1>1, FS_Subset
  <2>2. Cardinality(some) \in Nat /\ (Cardinality(some) = 0 <=> some = {})
    BY <2>1, FS_CardinalityType, FS_EmptySet
  <2>3. ASSUME NEW x \in held, x[2] = f PROVE some # {}
    BY <2>3
  <2> HIDE DEF some
  <2>4. ASSUME NEW x \in held, x[2] = f PROVE Cardinality(some) > 0
    BY <2>2, <2>3, <2>4
  <2> QED BY <2>2, <2>4 DEF some
<1>3. \A f \in Fact : curated[f] \in Nat
  BY CuratedAssumption
<1>4. \A f \in Fact : Batch(held, curated)[f] = Cardinality({x \in held : x[2] = f}) + curated[f]
  BY DEF Batch
<1>5. Batch(held, curated) \in [Fact -> Nat]
  BY <1>2, <1>3 DEF Batch
<1>6. ASSUME NEW x \in held PROVE Batch(held, curated)[x[2]] > 0
  <2> DEFINE f == x[2]
             n == Cardinality({y \in held : y[2] = f})
  <2>1. f \in Fact
    OBVIOUS
  <2>2. n \in Nat /\ n > 0
    BY <1>2, <2>1
  <2>3. Batch(held, curated)[f] = n + curated[f] /\ curated[f] \in Nat
    BY <1>3, <1>4, <2>1
  <2> HIDE DEF f, n
  <2>4. Batch(held, curated)[f] > 0
    BY <2>2, <2>3
  <2> QED BY <2>4 DEF f
<1> QED BY <1>5, <1>6

(* The model's answer is checked against the evidence of the claimed       *)
(* cycles.                                                                 *)
LEMMA Curating ==
  ASSUME LearningInv, NEW t \in Thread, curate_repository_memory(t) PROVE LearningInv'
<1> DEFINE records == repo_memory_candidates_for_generation(t, worker[t].job)
           job == worker[t].job
<1> DEFINE v == [worker[t] EXCEPT !.records = records]
<1>0. /\ worker[t] \in Local
      /\ v.at = worker[t].at /\ v.job = job /\ v.records = records
      /\ v.attempt = worker[t].attempt /\ v.held = worker[t].held
  <2>1. worker[t] \in Local
    BY DEF LearningInv, Shape
  <2> HIDE DEF records
  <2> QED BY <2>1 DEF Local
<1>1. /\ worker[t].at = "curate" /\ worker[t].held = {}
      /\ Attempts(t) /\ job \in Cycle /\ calls[t] \in [Cycle -> Nat]
  <2>1. worker[t].at = "curate"
    BY <1>0 DEF curate_repository_memory
  <2> QED BY <2>1 DEF LearningInv, Shape, Evidence, Attempts, Learns
<1>2. records \in SUBSET (Cycle \X Fact)
  BY DEF repo_memory_candidates_for_generation, publication_generation
<1>3. /\ calls' = [calls EXCEPT ![t][job] = IF @ > MaxAttempts THEN @ ELSE @ + 1]
      /\ UNCHANGED <<cycle, outcome, proposal, learning, resolution, memory, lock>>
  <2>1. calls' = [calls EXCEPT ![t][v.job] = IF @ > MaxAttempts THEN @ ELSE @ + 1]
    BY DEF curate_repository_memory
  <2>2. UNCHANGED <<cycle, outcome, proposal, learning, resolution, memory, lock>>
    BY DEF curate_repository_memory, rows
  <2> QED BY <1>0, <2>1, <2>2
<1>4. /\ calls' \in [Thread -> [Cycle -> Nat]]
      /\ \A u \in Thread : u # t => calls'[u] = calls[u]
      /\ calls'[t] = [calls[t] EXCEPT ![job] = IF @ > MaxAttempts THEN @ ELSE @ + 1]
  BY <1>1, <1>3, AttemptsAssumption DEF LearningInv, Shape
<1>5. PICK w \in Local :
        /\ Update(t, w) /\ w.at \in {"settle", "apply"}
        /\ w.job = job /\ w.attempt = worker[t].attempt
        /\ w.at = "settle" => w.held = {}
        /\ w.at = "apply" => \A x \in w.held : w.validated[x[2]] > 0
  <2>1. v \in Local /\ v.job = job /\ v.attempt = worker[t].attempt /\ v.held = {}
    BY <1>0, <1>1, <1>2 DEF Local
  <2>2. CASE \E held \in SUBSET records, curated \in [Fact -> 0 .. MaxCurated] :
               Update(t, IF Batch(held, curated) = Nothing
                         THEN [v EXCEPT !.at = "settle", !.status = "NO_UPDATE"]
                         ELSE [v EXCEPT !.at = "apply", !.held = held,
                                        !.validated = Batch(held, curated)])
    <3>1. PICK held \in SUBSET records, curated \in [Fact -> 0 .. MaxCurated] :
            Update(t, IF Batch(held, curated) = Nothing
                      THEN [v EXCEPT !.at = "settle", !.status = "NO_UPDATE"]
                      ELSE [v EXCEPT !.at = "apply", !.held = held,
                                     !.validated = Batch(held, curated)])
      BY <2>2
    <3> DEFINE batch == Batch(held, curated)
    <3>2. held \in SUBSET (Cycle \X Fact)
      BY <1>2
    <3>3. batch \in [Fact -> Nat] /\ \A x \in held : batch[x[2]] > 0
      BY <3>2, Batches
    <3> HIDE DEF batch, v, records
    <3>4. CASE batch = Nothing
      <4> DEFINE w == [v EXCEPT !.at = "settle", !.status = "NO_UPDATE"]
      <4>1. w \in Local /\ w.at = "settle" /\ w.job = v.job /\ w.attempt = v.attempt
              /\ w.held = v.held
        BY <2>1 DEF Local, Learns
      <4>2. Update(t, w)
        BY <3>1, <3>4 DEF batch
      <4> QED BY <4>1, <4>2, <2>1
    <3>5. CASE batch # Nothing
      <4> DEFINE w == [v EXCEPT !.at = "apply", !.held = held, !.validated = batch]
      <4>1. w \in Local /\ w.at = "apply" /\ w.job = v.job /\ w.attempt = v.attempt
              /\ w.held = held /\ w.validated = batch
        BY <2>1, <3>2, <3>3 DEF Local, Learns
      <4>2. Update(t, w)
        BY <3>1, <3>5 DEF batch
      <4> HIDE DEF w
      <4> QED BY <4>1, <4>2, <2>1, <3>3
    <3> QED BY <3>4, <3>5
  <2>3. CASE \E rs \in {{}, records} :
               Update(t, [v EXCEPT !.at = "settle", !.status = "FAILED", !.records = rs])
    <3>1. PICK rs \in {{}, records} :
            Update(t, [v EXCEPT !.at = "settle", !.status = "FAILED", !.records = rs])
      BY <2>3
    <3>2. rs \in SUBSET (Cycle \X Fact)
      BY <1>2
    <3> HIDE DEF v, records
    <3> DEFINE w == [v EXCEPT !.at = "settle", !.status = "FAILED", !.records = rs]
    <3>3. w \in Local /\ w.at = "settle" /\ w.job = v.job /\ w.attempt = v.attempt
            /\ w.held = v.held
      BY <2>1, <3>2 DEF Local, Learns
    <3> QED BY <3>1, <3>3, <2>1
  <2> QED BY <1>0, <2>2, <2>3 DEF curate_repository_memory
<1>6. worker'[t] = w
  BY <1>5 DEF LearningInv, Shape, Update
<1>7. Evidence(t)'
  BY <1>5, <1>6 DEF Evidence
<1>8. Attempts(t)'
  BY <1>1, <1>3, <1>4, <1>5, <1>6 DEF LearningInv, Shape, Attempts, Learns, Job
<1>9. worker[t].at # "write" /\ w.at # "write"
  BY <1>1, <1>5
<1> QED BY <1>3, <1>4, <1>5, <1>7, <1>8, <1>9, Steps

(* The memory is read under the lock; what is new is added to the copy.    *)
LEMMA Applying ==
  ASSUME LearningInv, NEW t \in Thread, apply_memory_candidates(t) PROVE LearningInv'
<1>1. /\ worker[t] \in Local /\ worker[t].at = "apply" /\ lock = NoThread
      /\ UNCHANGED <<cycle, outcome, proposal, learning, resolution, memory, calls>>
      /\ Evidence(t) /\ Attempts(t) /\ Shape
  BY DEF LearningInv, Shape, apply_memory_candidates, rows
<1>2. CASE novel(t) = {}
  <2> DEFINE w == [worker[t] EXCEPT !.at = "settle", !.status = "NO_UPDATE",
                                    !.validated = Nothing]
  <2>1. w \in Local /\ w.at = "settle" /\ w.job = worker[t].job
          /\ w.attempt = worker[t].attempt /\ w.held = worker[t].held
    BY <1>1 DEF Local, Learns, Nothing
  <2>2. Update(t, w) /\ UNCHANGED lock
    BY <1>2 DEF apply_memory_candidates
  <2>3. worker'[t] = w
    BY <1>1, <2>2 DEF Shape, Update
  <2> HIDE DEF w
  <2>4. \A x \in worker[t].held : memory[x[2]] > 0
    <3>1. \A f \in Fact : worker[t].validated[f] > 0 => memory[f] > 0
      BY <1>1, <1>2 DEF novel, Shape
    <3>2. \A x \in worker[t].held : x[2] \in Fact
      BY <1>1 DEF Local
    <3> QED BY <3>1, <3>2, <1>1 DEF Evidence
  <2>5. Evidence(t)'
    BY <1>1, <2>1, <2>3, <2>4 DEF Evidence
  <2>6. Attempts(t)'
    BY <1>1, <2>1, <2>3 DEF Attempts, Learns
  <2> QED BY <1>1, <2>1, <2>2, <2>5, <2>6, Steps DEF Shape
<1>3. CASE novel(t) # {}
  <2> DEFINE copy == [f \in Fact |-> IF f \in novel(t)
                                     THEN memory[f] + worker[t].validated[f] ELSE memory[f]]
             w == [worker[t] EXCEPT !.at = "write", !.status = "UPDATED", !.copy = copy]
  <2>1. \A f \in Fact : memory[f] \in Nat /\ worker[t].validated[f] \in Nat
    BY <1>1 DEF Shape, Local
  <2>2. copy \in [Fact -> Nat]
    BY <2>1
  <2>3. \A f \in Fact : /\ memory[f] > 0 => copy[f] = memory[f]
                        /\ worker[t].validated[f] > 0 => copy[f] > 0
    BY <2>1 DEF novel
  <2> HIDE DEF copy
  <2>4. w \in Local /\ w.at = "write" /\ w.job = worker[t].job /\ w.attempt = worker[t].attempt
          /\ w.held = worker[t].held /\ w.validated = worker[t].validated /\ w.copy = copy
    BY <1>1, <2>2 DEF Local, Learns
  <2>5. Update(t, w) /\ lock' = t
    BY <1>3 DEF apply_memory_candidates, copy
  <2> HIDE DEF w
  <2>6. \A u \in Thread : worker'[u] = IF u = t THEN w ELSE worker[u]
    BY <1>1, <2>5 DEF Shape, Update
  <2>7. Shape'
    BY <1>1, <2>4, <2>5 DEF Shape, Update
  <2>8. Writer'
    BY <1>1, <2>3, <2>4, <2>5, <2>6, HolderAssumption DEF LearningInv, Writer
  <2>9. AcceptedIsRemembered'
    BY <1>1 DEF LearningInv, AcceptedIsRemembered
  <2>10. Evidence(t)'
    BY <1>1, <2>4, <2>6 DEF Evidence
  <2>11. Attempts(t)'
    BY <1>1, <2>4, <2>6 DEF Attempts, Learns
  <2>12. \A u \in Thread : u # t => Evidence(u)' /\ Attempts(u)'
    BY <1>1, <2>4, <2>5, OthersKept
  <2> QED BY <2>7, <2>8, <2>9, <2>10, <2>11, <2>12 DEF LearningInv
<1> QED BY <1>2, <1>3

(* Writing the copy loses nothing: nobody else has written since.          *)
LEMMA Appending ==
  ASSUME LearningInv, NEW t \in Thread, append_repo_memory(t) PROVE LearningInv'
<1> DEFINE w == [worker[t] EXCEPT !.at = "settle", !.validated = Nothing, !.copy = Nothing]
<1>1. /\ worker[t] \in Local /\ worker[t].at = "write" /\ lock = t
      /\ UNCHANGED <<cycle, outcome, proposal, learning, resolution, calls>>
      /\ Evidence(t) /\ Attempts(t) /\ Shape /\ Writer
      /\ memory' = worker[t].copy /\ lock' = NoThread /\ Update(t, w)
  BY DEF LearningInv, Shape, Writer, append_repo_memory, rows
<1>2. /\ memory' \in [Fact -> Nat]
      /\ \A f \in Fact : /\ memory[f] > 0 => memory'[f] = memory[f]
                         /\ worker[t].validated[f] > 0 => memory'[f] > 0
  BY <1>1 DEF Writer, Local
<1>3. Nothing \in [Fact -> Nat]
  BY DEF Nothing
<1>4. w \in Local /\ w.at = "settle" /\ w.job = worker[t].job /\ w.attempt = worker[t].attempt
        /\ w.held = worker[t].held
  BY <1>1, <1>3 DEF Local, Learns
<1> HIDE DEF w
<1>5. \A u \in Thread : worker'[u] = IF u = t THEN w ELSE worker[u]
  BY <1>1 DEF Shape, Update
<1>6. Shape'
  BY <1>1, <1>2, <1>4 DEF Shape, Update
<1>7. Writer'
  BY <1>1, <1>4, <1>5, HolderAssumption DEF Writer
<1>8. AcceptedIsRemembered'
  <2>1. ASSUME NEW f \in Fact, memory[f] > 0 PROVE memory'[f] > 0
    BY <2>1, <1>2
  <2> QED BY <1>1, <2>1 DEF LearningInv, AcceptedIsRemembered
<1>9. ASSUME NEW u \in Thread PROVE Evidence(u)'
  <2>1. Evidence(u) /\ worker[u] \in Local
    BY <1>1 DEF LearningInv, Shape
  <2>2. \A x \in worker[u].held : x[2] \in Fact
    BY <2>1 DEF Local
  <2>3. CASE u = t
    BY <1>1, <1>2, <1>4, <1>5, <2>2, <2>3 DEF Evidence
  <2>4. CASE u # t
    <3>1. \A x \in worker[u].held : memory[x[2]] > 0 => memory'[x[2]] > 0
      BY <1>2, <2>2
    <3> QED BY <1>5, <2>1, <2>4, <3>1 DEF Evidence
  <2> QED BY <2>3, <2>4
<1>10. \A u \in Thread : Attempts(u)'
  BY <1>1, <1>4, <1>5 DEF LearningInv, Attempts, Learns
<1> QED BY <1>6, <1>7, <1>8, <1>9, <1>10 DEF LearningInv

(* A proposal is accepted when its evidence holds and the memory has it.   *)
LEMMA Settling ==
  ASSUME LearningInv, NEW t \in Thread, NEW x \in worker[t].records,
         _settle_memory_proposals(t, x)
  PROVE  LearningInv'
<1> DEFINE w == [worker[t] EXCEPT !.records = @ \ {x}]
           status == settled_status(worker[t], x)
<1>1. /\ worker[t] \in Local /\ worker[t].at = "settle"
      /\ UNCHANGED <<cycle, outcome, learning, resolution, memory, lock, calls>>
      /\ Evidence(t) /\ Attempts(t) /\ Shape
      /\ proposal' = [proposal EXCEPT ![t][x[1]][x[2]] = status] /\ Update(t, w)
  BY DEF LearningInv, Shape, _settle_memory_proposals
<1>2. /\ w \in Local /\ w.at = "settle" /\ w.job = worker[t].job
      /\ w.attempt = worker[t].attempt /\ w.held = worker[t].held /\ w.status = worker[t].status
  BY <1>1 DEF Local
<1>3. x[1] \in Cycle /\ x[2] \in Fact
  BY <1>1 DEF Local
<1>4. status \in Statuses /\ (status = "ACCEPTED" => memory[x[2]] > 0)
  BY <1>1 DEF settled_status, Statuses, Evidence
<1> HIDE DEF w, status
<1>5. worker'[t] = w
  BY <1>1 DEF Shape, Update
<1>6. Shape'
  BY <1>1, <1>2, <1>3, <1>4 DEF Shape, Update
<1>7. Writer'
  BY <1>1, <1>2, WriterKept
<1>8. ASSUME NEW u \in Thread, NEW c \in Cycle, NEW f \in Fact, proposal'[u][c][f] = "ACCEPTED"
      PROVE  memory[f] > 0
  <2>1. CASE u = t /\ c = x[1] /\ f = x[2]
    <3>1. proposal'[u][c][f] = status
      BY <1>1, <1>3, <2>1 DEF Shape
    <3> QED BY <1>4, <1>8, <2>1, <3>1
  <2>2. CASE ~(u = t /\ c = x[1] /\ f = x[2])
    <3>1. proposal'[u][c][f] = proposal[u][c][f]
      BY <1>1, <1>3, <2>2 DEF Shape
    <3> QED BY <1>8, <3>1 DEF LearningInv, AcceptedIsRemembered
  <2> QED BY <2>1, <2>2
<1>9. AcceptedIsRemembered'
  BY <1>1, <1>8 DEF AcceptedIsRemembered
<1>10. Evidence(t)' /\ Attempts(t)'
  BY <1>1, <1>2, <1>5 DEF Evidence, Attempts, Learns
<1>11. \A u \in Thread : u # t => Evidence(u)' /\ Attempts(u)'
  BY <1>1, <1>2, OthersKept
<1> QED BY <1>6, <1>7, <1>9, <1>10, <1>11 DEF LearningInv

(* The row keeps the attempt it was claimed with.                          *)
LEMMA Saving ==
  ASSUME LearningInv, NEW t \in Thread, save_repo_memory_learning(t) PROVE LearningInv'
<1> DEFINE job == worker[t].job
           saved == Saved(worker[t])
<1>1. /\ worker[t] \in Local /\ worker[t].at = "settle" /\ job \in Cycle
      /\ UNCHANGED <<cycle, outcome, proposal, resolution, memory, lock, calls>>
      /\ Attempts(t) /\ Shape /\ Update(t, Idle) /\ outcome[t][job] # "NONE"
      /\ learning' = [learning EXCEPT ![t][job] = saved]
  BY DEF LearningInv, Shape, Attempts, Learns, save_repo_memory_learning
<1>2. saved \in Job /\ saved.attempts = learning[t][job].attempts
  <2>1. worker[t].attempt = learning[t][job].attempts /\ learning[t][job] \in Job
    BY <1>1 DEF Attempts, Learns, Shape
  <2> QED BY <1>1, <2>1 DEF Saved, Local, Job
<1>3. Idle \in Local /\ Idle.at = "idle"
  BY DEF Idle, Nothing, Local
<1> HIDE DEF job, saved
<1>4. worker'[t] = Idle /\ learning'[t] = [learning[t] EXCEPT ![job] = saved]
  BY <1>1 DEF Shape, Update
<1>5. Shape'
  BY <1>1, <1>2, <1>3 DEF Shape, Update
<1>6. Writer'
  BY <1>1, <1>3, WriterKept
<1>7. AcceptedIsRemembered'
  BY <1>1 DEF LearningInv, AcceptedIsRemembered
<1>8. Evidence(t)'
  BY <1>3, <1>4 DEF Evidence
<1>9. Attempts(t)'
  BY <1>1, <1>2, <1>3, <1>4 DEF Shape, Attempts, Learns
<1>10. ASSUME NEW u \in Thread, u # t PROVE Evidence(u)' /\ Attempts(u)'
  <2>1. learning'[u] = learning[u]
    BY <1>1, <1>10 DEF Shape
  <2> QED BY <2>1, <1>1, <1>3, <1>10, OthersKept
<1> QED BY <1>5, <1>6, <1>7, <1>8, <1>9, <1>10 DEF LearningInv

-----------------------------------------------------------------------------
(* The resolution case, and the death of the server.                       *)

(* Claiming a resolution case counts its attempt too.                      *)
LEMMA ClaimingCase ==
  ASSUME LearningInv, NEW t \in Thread, claim_issue_resolution_attempt(t) PROVE LearningInv'
<1> DEFINE c == Oldest(pending_issue_resolution(t))
           claimed == _claim_attempt(resolution[t][c])
           w == [Idle EXCEPT !.at = "case", !.job = c, !.attempt = claimed.attempts]
<1>1. c \in Cycle /\ Due(resolution[t][c])
  BY OldestIsOne DEF claim_issue_resolution_attempt, pending_issue_resolution
<1>2. resolution[t][c] \in Job
  BY <1>1 DEF LearningInv, Shape
<1>3. claimed \in Job /\ claimed.attempts \in Nat /\ claimed.status \in {"PENDING", "FAILED"}
  BY <1>1, <1>2, AttemptsAssumption DEF _claim_attempt, Job, Due
<1> HIDE DEF claimed
<1>4. w \in Local /\ w.at = "case" /\ w.job = c /\ w.attempt = claimed.attempts /\ w.held = {}
  BY <1>1, <1>3, Starts
<1>5. /\ worker[t].at = "idle" /\ Update(t, w) /\ Shape
      /\ resolution' = [resolution EXCEPT ![t][c] = claimed]
      /\ UNCHANGED <<cycle, outcome, proposal, learning, memory, lock, calls>>
  BY DEF LearningInv, claim_issue_resolution_attempt, claimed
<1> HIDE DEF c, w
<1>6. worker'[t] = w /\ resolution'[t] = [resolution[t] EXCEPT ![c] = claimed]
  BY <1>5 DEF Shape, Update
<1>7. Shape'
  BY <1>1, <1>3, <1>4, <1>5 DEF Shape, Update
<1>8. Writer'
  BY <1>4, <1>5, WriterKept
<1>9. AcceptedIsRemembered'
  BY <1>5 DEF LearningInv, AcceptedIsRemembered
<1>10. Evidence(t)'
  BY <1>4, <1>6 DEF Evidence
<1>11. Attempts(t)'
  <2>1. Attempts(t) /\ resolution[t] \in [Cycle -> Job] /\ resolution'[t][c] = claimed
    BY <1>1, <1>5, <1>6 DEF LearningInv, Shape
  <2> QED BY <2>1, <1>1, <1>3, <1>4, <1>5, <1>6 DEF Attempts, Learns
<1>12. ASSUME NEW u \in Thread, u # t PROVE Evidence(u)' /\ Attempts(u)'
  <2>1. resolution'[u] = resolution[u]
    BY <1>5, <1>12 DEF Shape
  <2> QED BY <2>1, <1>4, <1>5, <1>12, OthersKept
<1> QED BY <1>7, <1>8, <1>9, <1>10, <1>11, <1>12 DEF LearningInv

(* A resolution case is saved or fails; it reads no memory.                *)
LEMMA SavingCase ==
  ASSUME LearningInv, NEW t \in Thread, NEW status \in {"COMPLETED", "FAILED"},
         save_issue_resolution(t, status)
  PROVE  LearningInv'
<1> DEFINE job == worker[t].job
           saved == [status |-> status, attempts |-> worker[t].attempt]
<1>1. /\ worker[t].at = "case" /\ job \in Cycle /\ Attempts(t) /\ Shape /\ Update(t, Idle)
      /\ UNCHANGED <<cycle, outcome, proposal, learning, memory, lock, calls>>
      /\ resolution' = [resolution EXCEPT ![t][job] = saved]
  BY DEF LearningInv, Attempts, save_issue_resolution
<1>2. saved \in Job
  <2>1. worker[t].attempt = resolution[t][job].attempts /\ resolution[t][job] \in Job
    BY <1>1 DEF Attempts, Shape
  <2> QED BY <2>1 DEF Job
<1>3. Idle \in Local /\ Idle.at = "idle"
  BY DEF Idle, Nothing, Local
<1> HIDE DEF job, saved
<1>4. worker'[t] = Idle
  BY <1>1 DEF Shape, Update
<1>5. Shape'
  BY <1>1, <1>2, <1>3 DEF Shape, Update
<1>6. Writer'
  BY <1>1, <1>3, WriterKept
<1>7. AcceptedIsRemembered'
  BY <1>1 DEF LearningInv, AcceptedIsRemembered
<1>8. Evidence(t)' /\ Attempts(t)'
  BY <1>1, <1>3, <1>4 DEF Evidence, Attempts, Learns
<1>9. ASSUME NEW u \in Thread, u # t PROVE Evidence(u)' /\ Attempts(u)'
  <2>1. resolution'[u] = resolution[u]
    BY <1>1, <1>9 DEF Shape
  <2> QED BY <2>1, <1>1, <1>3, <1>9, OthersKept
<1> QED BY <1>5, <1>6, <1>7, <1>8, <1>9 DEF LearningInv

(* The workers are lost, and the lock with its holder.                     *)
LEMMA Crashing ==
  ASSUME LearningInv, Crash PROVE LearningInv'
<1>1. /\ \A t \in Thread : worker'[t] = Idle
      /\ worker' = [t \in Thread |-> Idle] /\ lock' = NoThread
      /\ UNCHANGED <<cycle, outcome, proposal, learning, resolution, memory, calls>>
  BY DEF Crash, rows
<1>2. Idle \in Local /\ Idle.at = "idle"
  BY DEF Idle, Nothing, Local
<1>3. Shape'
  BY <1>1, <1>2 DEF LearningInv, Shape
<1>4. Writer'
  BY <1>1, <1>2, HolderAssumption DEF Writer
<1>5. AcceptedIsRemembered'
  BY <1>1 DEF LearningInv, AcceptedIsRemembered
<1>6. \A t \in Thread : Evidence(t)' /\ Attempts(t)'
  BY <1>1, <1>2 DEF LearningInv, Evidence, Attempts, Learns
<1> QED BY <1>3, <1>4, <1>5, <1>6 DEF LearningInv

-----------------------------------------------------------------------------
(* LearningInv holds of every reachable state.                             *)
THEOREM LearningInductive == Spec => []LearningInv
<1>1. LearningInv /\ [Next]_vars => LearningInv'
  <2> SUFFICES ASSUME LearningInv, [Next]_vars PROVE LearningInv'
    OBVIOUS
  <2>1. ASSUME NEW t \in Thread, process_one(t) PROVE LearningInv'
    BY <2>1, ClaimingLearning, Curating, Applying, Appending, Settling, Saving, ClaimingCase,
       SavingCase DEF process_one
  <2>2. ASSUME NEW t \in Thread, begin_revision_cycle(t) PROVE LearningInv'
    BY <2>2, Revising
  <2>3. ASSUME NEW t \in Thread, NEW f \in Fact, propose_repo_memory(t, f) PROVE LearningInv'
    BY <2>3, Proposing
  <2>4. ASSUME NEW t \in Thread, NEW status \in {"COMPLETED", "NO_CHANGES"},
               finalize_publication(t, status)
        PROVE  LearningInv'
    BY <2>4, Finalizing
  <2>5. CASE UNCHANGED vars
    BY <2>5 DEF vars, rows, LearningInv, Shape, Writer, AcceptedIsRemembered, Evidence, Attempts
  <2> QED BY <2>1, <2>2, <2>3, <2>4, <2>5, Crashing DEF Next
<1> QED BY <1>1, InitHolds, PTL DEF Spec

(* "one read-modify-write of AGENTS.md": however many threads of the       *)
(* repository learn, are killed and retried, what was accepted is in the   *)
(* memory.                                                                 *)
THEOREM AcceptedStaysRemembered == Spec => []AcceptedIsRemembered
<1>1. LearningInv => AcceptedIsRemembered
  BY DEF LearningInv
<1> QED BY <1>1, LearningInductive, PTL

(* And no worker, on any attempt, loses an entry of the memory or enters   *)
(* it again: what one wrote is found by all the others and by its own      *)
(* retries.                                                                *)
THEOREM EntriesAreKept == Spec => EntriesStay
<1>1. LearningInv /\ [Next]_vars
        => [\A f \in Fact : memory[f] > 0 => memory'[f] = memory[f]]_vars
  <2> SUFFICES ASSUME LearningInv, Next, NEW f \in Fact, memory[f] > 0
               PROVE  memory'[f] = memory[f]
    OBVIOUS
  <2>1. CASE \E t \in Thread : append_repo_memory(t)
    BY <2>1 DEF append_repo_memory, LearningInv, Writer
  <2>2. CASE ~(\E t \in Thread : append_repo_memory(t))
    <3>1. UNCHANGED memory
      BY <2>2 DEF Next, process_one, Crash, begin_revision_cycle, propose_repo_memory,
         finalize_publication, claim_memory_learning_attempt, curate_repository_memory,
         apply_memory_candidates, _settle_memory_proposals, save_repo_memory_learning,
         claim_issue_resolution_attempt, save_issue_resolution
    <3> QED BY <3>1
  <2> QED BY <2>1, <2>2
<1> QED BY <1>1, LearningInductive, PTL DEF Spec, EntriesStay

(* A job's model is called at most MaxAttempts times, whenever the server  *)
(* dies.                                                                   *)
THEOREM CallsStayBounded == Spec => []CallsBounded
<1>1. LearningInv => CallsBounded
  <2> SUFFICES ASSUME LearningInv, NEW t \in Thread, NEW c \in Cycle
               PROVE  calls[t][c] <= MaxAttempts
    BY DEF CallsBounded
  <2>1. calls[t][c] \in Nat /\ learning[t][c].attempts \in 0 .. MaxAttempts
    BY DEF LearningInv, Shape, Job
  <2>2. calls[t][c] <= learning[t][c].attempts
    BY DEF LearningInv, Attempts
  <2> QED BY <2>1, <2>2, AttemptsAssumption
<1> QED BY <1>1, LearningInductive, PTL

(* "exact cycle membership": a cycle belongs to the generation of the      *)
(* first publication that was finalized at it or after it, and to no other,*)
(* whichever cycles were finalized: publication_generation partitions them.*)
THEOREM GenerationsStayExact == Spec => []GenerationsExact
<1>1. GenerationsExact
  <2> SUFFICES ASSUME NEW t \in Thread, NEW d \in Cycle, NEW last \in Cycle,
                      d <= last, outcome[t][last] # "NONE"
               PROVE  Cardinality({c \in Cycle : outcome[t][c] # "NONE"
                                     /\ d \in publication_generation(t, c)}) = 1
    BY DEF GenerationsExact
  <2> DEFINE closing == {c \in Cycle : outcome[t][c] # "NONE"
                                         /\ d \in publication_generation(t, c)}
             after == {c \in Cycle : d <= c /\ outcome[t][c] # "NONE"}
             first == Oldest(after)
  <2>1. first \in after /\ \A c \in after : first <= c
    BY OldestIsOne
  <2> HIDE DEF first
  <2>2. \A c \in Cycle : c \in Nat
    BY CyclesAssumption DEF Cycle
  <2>3. first \in closing
    BY <2>1, <2>2 DEF publication_generation, ClosesGeneration
  <2>4. ASSUME NEW c \in closing PROVE c = first
    <3>1. c \in after /\ (first < c => first < d)
      BY <2>1 DEF publication_generation, ClosesGeneration
    <3> QED BY <2>1, <2>2, <3>1
  <2>5. closing = {first}
    BY <2>3, <2>4
  <2> QED BY <2>5, FS_Singleton
<1> QED BY <1>1, PTL

-----------------------------------------------------------------------------
(* Every step of a worker brings it nearer to the tick in which it advances.*)

(* A part of a finite set is smaller, unless it is the whole.              *)
LEMMA Smaller ==
  ASSUME NEW S, IsFiniteSet(S), NEW T \in SUBSET S
  PROVE  /\ Cardinality(T) \in Nat /\ Cardinality(S) \in Nat
         /\ Cardinality(T) <= Cardinality(S)
         /\ T # S => Cardinality(T) < Cardinality(S)
<1>1. /\ IsFiniteSet(T) /\ Cardinality(T) <= Cardinality(S)
      /\ Cardinality(S) = Cardinality(T) => S = T
  BY FS_Subset
<1>2. Cardinality(T) \in Nat /\ Cardinality(S) \in Nat
  BY <1>1, FS_CardinalityType
<1> QED BY <1>1, <1>2

(* There are finitely many attempts; with some of them gone fewer are left.*)
LEMMA AttemptsAreFinite ==
  ASSUME NEW before, NEW after, AttemptsLeft(after) \subseteq AttemptsLeft(before)
  PROVE  LET n == Cardinality(AttemptsLeft(before))
             m == Cardinality(AttemptsLeft(after))
         IN  /\ n \in Nat /\ m \in Nat /\ m <= n
             /\ AttemptsLeft(after) # AttemptsLeft(before) => m < n
<1>0. IsFiniteSet(Cycle) /\ IsFiniteSet(1 .. MaxAttempts)
  BY FS_Interval, AttemptsAssumption, CyclesAssumption DEF Cycle
<1>1. IsFiniteSet(Cycle \X (1 .. MaxAttempts))
  BY <1>0, FS_Product
<1>2. AttemptsLeft(before) \subseteq Cycle \X (1 .. MaxAttempts)
  BY DEF AttemptsLeft
<1>3. IsFiniteSet(AttemptsLeft(before))
  BY <1>1, <1>2, FS_Subset
<1> QED BY <1>3, Smaller

(* A worker settles at most MostRecords records.                           *)
LEMMA RecordsAreFinite ==
  ASSUME NEW w \in Local
  PROVE  /\ IsFiniteSet(w.records) /\ MostRecords \in Nat
         /\ Cardinality(w.records) \in 0 .. MostRecords
<1>0. IsFiniteSet(Cycle)
  BY FS_Interval, CyclesAssumption DEF Cycle
<1>1. IsFiniteSet(Cycle \X Fact)
  BY <1>0, FS_Product, FactAssumption
<1>2. w.records \in SUBSET (Cycle \X Fact)
  BY DEF Local
<1>3. IsFiniteSet(w.records)
  BY <1>1, <1>2, FS_Subset
<1> QED BY <1>1, <1>2, <1>3, Smaller DEF MostRecords

(* Where a worker is.                                                      *)
LEMMA Positions ==
  ASSUME NEW w \in Local
  PROVE  /\ Position(w) \in 0 .. (MostRecords + 4)
         /\ w.at = "idle" => Position(w) = 0
         /\ w.at = "case" => Position(w) = 1
         /\ w.at = "settle" => Position(w) = 1 + Cardinality(w.records)
         /\ w.at = "write" => Position(w) = MostRecords + 2
         /\ w.at = "apply" => Position(w) = MostRecords + 3
         /\ w.at = "curate" => Position(w) = MostRecords + 4
         /\ w.at # "idle" => Position(w) > 0
<1>1. MostRecords \in Nat /\ Cardinality(w.records) \in 0 .. MostRecords
  BY RecordsAreFinite
<1>2. w.at \in {"curate", "apply", "write", "settle", "idle", "case"}
  BY DEF Local, Learns
<1> QED BY <1>1, <1>2 DEF Position

(* Fewer attempts are nearer, and as many attempts at a nearer position.   *)
Nearer(t) ==
  /\ AttemptsLeft(learning'[t]) \subseteq AttemptsLeft(learning[t])
  /\ AttemptsLeft(resolution'[t]) \subseteq AttemptsLeft(resolution[t])
  /\ \/ AttemptsLeft(learning'[t]) # AttemptsLeft(learning[t])
     \/ AttemptsLeft(resolution'[t]) # AttemptsLeft(resolution[t])
     \/ Position(worker'[t]) < Position(worker[t])

LEMMA NearerIsLess ==
  ASSUME LearningInv, LearningInv', NEW t \in Thread, Nearer(t)
  PROVE  Budget(t)' < Budget(t)
<1> DEFINE K == MostRecords + 5
           n == Remaining(t)
           m == Cardinality(AttemptsLeft(learning'[t])) + Cardinality(AttemptsLeft(resolution'[t]))
           p == Position(worker[t])
           q == Position(worker'[t])
<1>1. worker[t] \in Local /\ worker'[t] \in Local
  BY DEF LearningInv, Shape
<1>2. K \in Nat /\ p \in 0 .. (K - 1) /\ q \in 0 .. (K - 1)
  BY <1>1, Positions, RecordsAreFinite
<1>3. n \in Nat /\ m \in Nat /\ (m < n \/ (m = n /\ q < p))
  BY <1>1, <1>2, AttemptsAreFinite DEF Nearer, Remaining
<1>4. Budget(t) = K * n + p /\ Budget(t)' = K * m + q
  BY DEF Budget, Remaining
<1> HIDE DEF K, n, m, p, q
<1>5. CASE m = n
  <2>1. K * m = K * n /\ K * n \in Nat
    BY <1>2, <1>3, <1>5
  <2> QED BY <1>2, <1>3, <1>4, <1>5, <2>1
<1>6. CASE m < n
  <2>1. K * m + K <= K * n /\ K * m \in Nat /\ K * n \in Nat
    <3> DEFINE d == n - m - 1
    <3>1. d \in Nat /\ n = m + 1 + d
      BY <1>3, <1>6
    <3> HIDE DEF d
    <3>2. K * n = K * m + K + K * d /\ K * d \in Nat /\ K * m \in Nat
      BY <1>2, <1>3, <3>1
    <3> QED BY <1>2, <3>2
  <2> QED BY <1>2, <1>4, <2>1
<1> QED BY <1>3, <1>5, <1>6

(* A claim spends an attempt.                                              *)
LEMMA ClaimSpends ==
  ASSUME NEW jobs \in [Cycle -> Job], NEW c \in Cycle, Due(jobs[c]), NEW claimed \in Job,
         claimed.attempts = jobs[c].attempts + 1
  PROVE  LET after == [jobs EXCEPT ![c] = claimed]
         IN  /\ AttemptsLeft(after) \subseteq AttemptsLeft(jobs)
             /\ AttemptsLeft(after) # AttemptsLeft(jobs)
<1> DEFINE after == [jobs EXCEPT ![c] = claimed]
<1>1. \A d \in Cycle : after[d] = IF d = c THEN claimed ELSE jobs[d]
  OBVIOUS
<1>2. jobs[c].attempts \in 0 .. MaxAttempts /\ jobs[c].attempts < MaxAttempts
  BY DEF Job, Due
<1> HIDE DEF after
<1>3. AttemptsLeft(after) \subseteq AttemptsLeft(jobs)
  <2> SUFFICES ASSUME NEW d \in Cycle, NEW n \in 1 .. MaxAttempts,
                      Due(after[d]), n > after[d].attempts
               PROVE  Due(jobs[d]) /\ n > jobs[d].attempts
    BY DEF AttemptsLeft
  <2>1. CASE d = c
    BY <1>1, <1>2, <2>1, AttemptsAssumption
  <2>2. CASE d # c
    BY <1>1, <2>2
  <2> QED BY <2>1, <2>2
<1>4. /\ <<c, claimed.attempts>> \in AttemptsLeft(jobs)
      /\ <<c, claimed.attempts>> \notin AttemptsLeft(after)
  BY <1>1, <1>2, AttemptsAssumption DEF AttemptsLeft
<1> QED BY <1>3, <1>4 DEF after

(* The result of an attempt gives none back.                               *)
LEMMA SavingReturnsNothing ==
  ASSUME NEW jobs \in [Cycle -> Job], NEW c \in Cycle, jobs[c].status \in {"PENDING", "FAILED"},
         NEW saved \in Job, saved.attempts = jobs[c].attempts
  PROVE  AttemptsLeft([jobs EXCEPT ![c] = saved]) \subseteq AttemptsLeft(jobs)
<1> DEFINE after == [jobs EXCEPT ![c] = saved]
<1>1. \A d \in Cycle : after[d] = IF d = c THEN saved ELSE jobs[d]
  OBVIOUS
<1> HIDE DEF after
<1>2. AttemptsLeft(after) \subseteq AttemptsLeft(jobs)
  BY <1>1 DEF AttemptsLeft, Due
<1> QED BY <1>2 DEF after

(* A step that leaves the jobs alone only has to come nearer.              *)
LEMMA StepsOn ==
  ASSUME NEW t \in Thread, UNCHANGED <<learning, resolution>>,
         Position(worker'[t]) < Position(worker[t])
  PROVE  Nearer(t)
BY DEF Nearer

(* Claims.                                                                 *)
LEMMA ClaimsAreNearer ==
  ASSUME LearningInv, NEW t \in Thread,
         claim_memory_learning_attempt(t) \/ claim_issue_resolution_attempt(t)
  PROVE  Nearer(t)
<1>1. learning[t] \in [Cycle -> Job] /\ resolution[t] \in [Cycle -> Job]
  BY DEF LearningInv, Shape
<1>2. ASSUME NEW jobs \in [Cycle -> Job], NEW c \in Cycle, Due(jobs[c])
      PROVE  /\ _claim_attempt(jobs[c]) \in Job
             /\ _claim_attempt(jobs[c]).attempts = jobs[c].attempts + 1
  <2>1. jobs[c] \in Job
    OBVIOUS
  <2> QED BY <1>2, <2>1, AttemptsAssumption DEF _claim_attempt, Job, Due
<1>3. CASE claim_memory_learning_attempt(t)
  <2> DEFINE c == Oldest(pending_memory_learning(t))
  <2>1. c \in Cycle /\ Due(learning[t][c])
    BY <1>3, OldestIsOne DEF claim_memory_learning_attempt, pending_memory_learning
  <2>2. /\ learning'[t] = [learning[t] EXCEPT ![c] = _claim_attempt(learning[t][c])]
        /\ resolution' = resolution
    BY <1>3 DEF claim_memory_learning_attempt, LearningInv, Shape
  <2> HIDE DEF c
  <2> QED BY <1>1, <1>2, <2>1, <2>2, ClaimSpends DEF Nearer
<1>4. CASE claim_issue_resolution_attempt(t)
  <2> DEFINE c == Oldest(pending_issue_resolution(t))
  <2>1. c \in Cycle /\ Due(resolution[t][c])
    BY <1>4, OldestIsOne DEF claim_issue_resolution_attempt, pending_issue_resolution
  <2>2. /\ resolution'[t] = [resolution[t] EXCEPT ![c] = _claim_attempt(resolution[t][c])]
        /\ learning' = learning
    BY <1>4 DEF claim_issue_resolution_attempt, LearningInv, Shape
  <2> HIDE DEF c
  <2> QED BY <1>1, <1>2, <2>1, <2>2, ClaimSpends DEF Nearer
<1> QED BY <1>3, <1>4

(* Results.                                                                *)
LEMMA SavesAreNearer ==
  ASSUME LearningInv, NEW t \in Thread,
         \/ save_repo_memory_learning(t)
         \/ \E status \in {"COMPLETED", "FAILED"} : save_issue_resolution(t, status)
  PROVE  Nearer(t)
<1> DEFINE job == worker[t].job
<1>0. /\ learning[t] \in [Cycle -> Job] /\ resolution[t] \in [Cycle -> Job]
      /\ Attempts(t) /\ worker[t] \in Local
  BY DEF LearningInv, Shape
<1>1. Idle \in Local /\ Idle.at = "idle"
  BY DEF Idle, Nothing, Local
<1>2. CASE save_repo_memory_learning(t)
  <2>1. /\ worker[t].at = "settle" /\ worker'[t] = Idle /\ resolution' = resolution
        /\ learning'[t] = [learning[t] EXCEPT ![job] = Saved(worker[t])]
    BY <1>2 DEF save_repo_memory_learning, Update, LearningInv, Shape
  <2>2. /\ job \in Cycle /\ learning[t][job].status \in {"PENDING", "FAILED"}
        /\ Saved(worker[t]).attempts = learning[t][job].attempts
    BY <1>0, <2>1 DEF Attempts, Learns, Saved
  <2>3. Saved(worker[t]) \in Job
    <3>1. learning[t][job] \in Job
      BY <1>0, <2>2
    <3> QED BY <1>0, <2>2, <3>1 DEF Saved, Local, Job
  <2>4. Position(worker'[t]) < Position(worker[t])
    BY <1>0, <1>1, <2>1, Positions
  <2> QED BY <1>0, <2>1, <2>2, <2>3, <2>4, SavingReturnsNothing DEF Nearer
<1>3. ASSUME NEW status \in {"COMPLETED", "FAILED"}, save_issue_resolution(t, status)
      PROVE  Nearer(t)
  <2> DEFINE saved == [status |-> status, attempts |-> worker[t].attempt]
  <2>1. /\ worker[t].at = "case" /\ worker'[t] = Idle /\ learning' = learning
        /\ resolution'[t] = [resolution[t] EXCEPT ![job] = saved]
    BY <1>3 DEF save_issue_resolution, Update, LearningInv, Shape
  <2>2. /\ job \in Cycle /\ resolution[t][job].status \in {"PENDING", "FAILED"}
        /\ saved.attempts = resolution[t][job].attempts
    BY <1>0, <2>1 DEF Attempts
  <2>3. saved \in Job
    <3>1. resolution[t][job] \in Job
      BY <1>0, <2>2
    <3> QED BY <2>2, <3>1 DEF Job
  <2>4. Position(worker'[t]) < Position(worker[t])
    BY <1>0, <1>1, <2>1, Positions
  <2> HIDE DEF saved
  <2> QED BY <1>0, <2>1, <2>2, <2>3, <2>4, SavingReturnsNothing DEF Nearer
<1> QED BY <1>2, <1>3

(* The steps of an attempt.                                                *)
LEMMA StepsAreNearer ==
  ASSUME LearningInv, LearningInv', NEW t \in Thread,
         \/ curate_repository_memory(t) \/ apply_memory_candidates(t) \/ append_repo_memory(t)
         \/ \E x \in worker[t].records : _settle_memory_proposals(t, x)
  PROVE  Nearer(t)
<1>1. worker[t] \in Local /\ worker'[t] \in Local /\ Shape
  BY DEF LearningInv, Shape
<1>2. /\ MostRecords \in Nat
      /\ Cardinality(worker[t].records) \in 0 .. MostRecords
      /\ Cardinality(worker'[t].records) \in 0 .. MostRecords
  BY <1>1, RecordsAreFinite
<1>3. UNCHANGED <<learning, resolution>>
  BY DEF curate_repository_memory, apply_memory_candidates, append_repo_memory,
     _settle_memory_proposals, rows
<1>4. CASE curate_repository_memory(t)
  <2> DEFINE v == [worker[t] EXCEPT
                     !.records = repo_memory_candidates_for_generation(t, worker[t].job)]
  <2>1. worker[t].at = "curate"
    <3>1. v.at = worker[t].at
      BY <1>1 DEF Local
    <3> QED BY <1>4, <3>1 DEF curate_repository_memory
  <2>2. worker'[t].at \in {"settle", "apply"}
    <3>1. \A w : Update(t, w) => worker'[t] = w
      BY <1>1 DEF Shape, Update
    <3>2. v \in Local
      <4>1. repo_memory_candidates_for_generation(t, worker[t].job) \in SUBSET (Cycle \X Fact)
        BY DEF repo_memory_candidates_for_generation, publication_generation
      <4> HIDE DEF repo_memory_candidates_for_generation
      <4> QED BY <1>1, <4>1 DEF Local
    <3> HIDE DEF v
    <3>3. \/ \E held \in SUBSET v.records, curated \in [Fact -> 0 .. MaxCurated] :
               Update(t, IF Batch(held, curated) = Nothing
                         THEN [v EXCEPT !.at = "settle", !.status = "NO_UPDATE"]
                         ELSE [v EXCEPT !.at = "apply", !.held = held,
                                        !.validated = Batch(held, curated)])
          \/ \E records \in {{}, v.records} :
               Update(t, [v EXCEPT !.at = "settle", !.status = "FAILED", !.records = records])
      BY <1>4 DEF curate_repository_memory, v
    <3>4. \A s, h, f, r : /\ [v EXCEPT !.at = "settle", !.status = s].at = "settle"
                          /\ [v EXCEPT !.at = "apply", !.held = h, !.validated = f].at = "apply"
                          /\ [v EXCEPT !.at = "settle", !.status = s, !.records = r].at = "settle"
      BY <3>2 DEF Local
    <3>5. ASSUME NEW held, NEW curated,
                 Update(t, IF Batch(held, curated) = Nothing
                           THEN [v EXCEPT !.at = "settle", !.status = "NO_UPDATE"]
                           ELSE [v EXCEPT !.at = "apply", !.held = held,
                                          !.validated = Batch(held, curated)])
          PROVE  worker'[t].at \in {"settle", "apply"}
      <4> DEFINE batch == Batch(held, curated)
                 idle == [v EXCEPT !.at = "settle", !.status = "NO_UPDATE"]
                 busy == [v EXCEPT !.at = "apply", !.held = held, !.validated = batch]
      <4>1. idle.at = "settle" /\ busy.at = "apply"
        BY <3>4
      <4>2. Update(t, idle) \/ Update(t, busy)
        BY <3>5
      <4> HIDE DEF idle, busy
      <4> QED BY <3>1, <4>1, <4>2
    <3>6. ASSUME NEW records,
                 Update(t, [v EXCEPT !.at = "settle", !.status = "FAILED", !.records = records])
          PROVE  worker'[t].at \in {"settle", "apply"}
      <4> DEFINE failed == [v EXCEPT !.at = "settle", !.status = "FAILED", !.records = records]
      <4>1. failed.at = "settle"
        BY <3>4
      <4>2. Update(t, failed)
        BY <3>6
      <4> HIDE DEF failed
      <4> QED BY <3>1, <4>1, <4>2
    <3> QED BY <3>3, <3>5, <3>6, Zenon
  <2>3. Position(worker'[t]) < Position(worker[t])
    BY <1>1, <1>2, <2>1, <2>2, Positions
  <2> QED BY <1>3, <2>3, StepsOn
<1>5. CASE apply_memory_candidates(t)
  <2>1. worker[t].at = "apply" /\ worker'[t].at \in {"settle", "write"}
    <3> DEFINE copy == [f \in Fact |-> IF f \in novel(t)
                                       THEN memory[f] + worker[t].validated[f] ELSE memory[f]]
    <3>1. /\ worker[t].at = "apply"
          /\ \/ Update(t, [worker[t] EXCEPT !.at = "settle", !.status = "NO_UPDATE",
                                             !.validated = Nothing])
             \/ Update(t, [worker[t] EXCEPT !.at = "write", !.status = "UPDATED", !.copy = copy])
      BY <1>5 DEF apply_memory_candidates
    <3> HIDE DEF copy
    <3> DEFINE known == [worker[t] EXCEPT !.at = "settle", !.status = "NO_UPDATE",
                                          !.validated = Nothing]
               found == [worker[t] EXCEPT !.at = "write", !.status = "UPDATED", !.copy = copy]
    <3>2. known.at = "settle" /\ found.at = "write"
      BY <1>1 DEF Local
    <3>3. Update(t, known) \/ Update(t, found)
      BY <3>1
    <3> HIDE DEF known, found
    <3>4. worker'[t] = known \/ worker'[t] = found
      BY <1>1, <3>3 DEF Update, Shape
    <3> QED BY <3>1, <3>2, <3>4
  <2>2. Position(worker'[t]) < Position(worker[t])
    BY <1>1, <1>2, <2>1, Positions
  <2> QED BY <1>3, <2>2, StepsOn
<1>6. CASE append_repo_memory(t)
  <2>1. worker[t].at = "write" /\ worker'[t].at = "settle"
    BY <1>1, <1>6 DEF append_repo_memory, Update, Shape, Local
  <2>2. Position(worker'[t]) < Position(worker[t])
    BY <1>1, <1>2, <2>1, Positions
  <2> QED BY <1>3, <2>2, StepsOn
<1>7. ASSUME NEW x \in worker[t].records, _settle_memory_proposals(t, x) PROVE Nearer(t)
  <2>1. /\ worker[t].at = "settle" /\ worker'[t].at = "settle"
        /\ worker'[t].records = worker[t].records \ {x}
    BY <1>1, <1>7 DEF _settle_memory_proposals, Update, Shape, Local
  <2>2. Cardinality(worker'[t].records) = Cardinality(worker[t].records) - 1
    <3>1. IsFiniteSet(worker[t].records)
      BY <1>1, RecordsAreFinite
    <3>2. Cardinality(worker[t].records \ {x}) = Cardinality(worker[t].records) - 1
      BY <1>7, <3>1, FS_RemoveElement
    <3> QED BY <2>1, <3>2
  <2>3. Position(worker'[t]) < Position(worker[t])
    <3>1. /\ Position(worker[t]) = 1 + Cardinality(worker[t].records)
          /\ Position(worker'[t]) = 1 + Cardinality(worker'[t].records)
      BY <1>1, <2>1, Positions
    <3> QED BY <1>2, <2>2, <3>1
  <2> QED BY <1>3, <2>3, StepsOn
<1> QED BY <1>4, <1>5, <1>6, <1>7

(* "A curator that keeps failing must not hold an IssueThread at IDLE      *)
(* forever": every step of a thread's worker, and its death, leaves it     *)
(* fewer attempts, or as many and fewer steps.                             *)
THEOREM LearningGoesOn == Spec => LearningAdvances
<1>1. ASSUME LearningInv, LearningInv', [Next]_vars, NEW t \in Thread, worker'[t] # worker[t]
      PROVE  Budget(t)' < Budget(t)
  <2>1. ASSUME NEW u \in Thread, process_one(u) PROVE Nearer(t)
    <3>1. u = t
      <4>1. \E w : Update(u, w)
        BY <2>1 DEF process_one, claim_memory_learning_attempt, curate_repository_memory,
           apply_memory_candidates, append_repo_memory, _settle_memory_proposals,
           save_repo_memory_learning, claim_issue_resolution_attempt, save_issue_resolution
      <4> QED BY <4>1, <1>1 DEF Update, LearningInv, Shape
    <3> QED BY <1>1, <2>1, <3>1, ClaimsAreNearer, SavesAreNearer, StepsAreNearer DEF process_one
  <2>2. ASSUME Crash PROVE Nearer(t)
    <3>1. worker'[t] = Idle /\ UNCHANGED <<learning, resolution>>
      BY <2>2 DEF Crash, rows
    <3>2. worker[t] \in Local /\ worker[t].at # "idle"
      BY <1>1, <3>1 DEF LearningInv, Shape, Evidence
    <3>3. Idle \in Local /\ Idle.at = "idle"
      BY DEF Idle, Nothing, Local
    <3>4. Position(worker'[t]) < Position(worker[t])
      BY <3>1, <3>2, <3>3, Positions
    <3> QED BY <3>1, <3>4, StepsOn
  <2>3. UNCHANGED worker \/ Crash \/ \E u \in Thread : process_one(u)
    BY <1>1 DEF Next, vars, propose_repo_memory, finalize_publication, begin_revision_cycle
  <2>4. Nearer(t)
    BY <1>1, <2>1, <2>2, <2>3
  <2> QED BY <1>1, <2>4, NearerIsLess
<1>2. LearningInv /\ LearningInv' /\ [Next]_vars
        => [\A t \in Thread : worker'[t] # worker[t] => Budget(t)' < Budget(t)]_vars
  BY <1>1
<1> QED BY <1>2, LearningInductive, PTL DEF Spec, LearningAdvances
=============================================================================
