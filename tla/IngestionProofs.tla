---------------------------- MODULE IngestionProofs ----------------------------
(* What Ingestion promises, for every number of comments, edits, faults    *)
(* and, but for NoReplay, of processes that poll.                          *)
EXTENDS Ingestion, FiniteSetTheorems, WellFoundedInduction, TLAPS

Item == [src : {"issue"} \cup Comment, at : Nat, body : Nat]

PollState ==
  [at : {"fetch", "normalize", "record"}, stream : Stream, next : Int, items : SUBSET Item]

Shape ==
  /\ clock \in Nat
  /\ issue \in [body : Nat, at : Nat]
  /\ comment \in [Comment -> [at : Nat, state : {"unwritten", "written", "listed"}]]
  /\ cursor \in [Stream -> Int]
  /\ poll \in [Poller -> PollState]

(* Only settled inputs have answers; a marker that was quoted was posted.  *)
Answers ==
  /\ settled \subseteq routed /\ routed \subseteq events /\ DOMAIN posted \subseteq settled
  /\ posted \in [DOMAIN posted -> 0 .. 1]
  /\ outbox \in [DOMAIN posted -> {"PENDING", "DELIVERED", "AMBIGUOUS"}]
  /\ \A e \in DOMAIN posted : outbox[e] = "DELIVERED" => posted[e] = 1
  /\ quoted \subseteq DOMAIN posted /\ \A e \in quoted : posted[e] = 1

Written(c) == comment[c].state # "unwritten"

Recorded(c) == \E e \in events : e.src = c

(* GitHub lists what was written within Lag, and no cursor is ahead of it. *)
Listing ==
  /\ cursor["comments"] <= clock
  /\ \A c \in Comment :
       /\ Written(c) => comment[c].at <= clock
       /\ comment[c].state = "written" => clock <= comment[c].at + Lag

(* A batch that was fetched some time ago may still be recorded: what it   *)
(* does not bring and nobody recorded meanwhile is ahead of its cursor.    *)
(* Only the issue stream is normalized.                                    *)
Ahead(p) ==
  /\ poll[p].at = "normalize" => poll[p].stream = "issues"
  /\ poll[p].at = "record" /\ poll[p].stream = "comments" =>
       /\ poll[p].next <= clock
       /\ \A c \in Comment : Written(c) =>
            Recorded(c) \/ (\E i \in poll[p].items : i.src = c) \/ comment[c].at >= poll[p].next

IngestionInv ==
  /\ Shape /\ Answers /\ MappedIsRouted /\ Listing /\ NothingSkipped
  /\ \A p \in Poller : Ahead(p)

-----------------------------------------------------------------------------
(* The newest of some moments until now is one of them.                    *)
LEMMA NewestIsOne ==
  ASSUME NEW n \in Nat, NEW S, S \subseteq 0 .. n, S # {}
  PROVE  Max(S) \in S
<1> DEFINE R == {p \in Nat \X Nat : p[1] < p[2]}
           T == {n - x : x \in S}
<1>1. IsWellFoundedOn(R, Nat)
  BY NatLessThanWellFounded DEF OpToRel
<1>2. \A d, c \in Nat : d < c => <<d, c>> \in R
  OBVIOUS
<1>3. T \subseteq Nat /\ T # {}
  <2>1. \A x \in S : n - x \in Nat
    OBVIOUS
  <2> QED BY <2>1
<1> HIDE DEF R, T
<1>4. PICK k \in T : \A d \in T : ~(<<d, k>> \in R)
  BY <1>1, <1>3, WFMin, Zenon
<1>5. \A d \in T : k <= d
  <2> SUFFICES ASSUME NEW d \in T PROVE k <= d
    OBVIOUS
  <2>1. k \in Nat /\ d \in Nat
    BY <1>3
  <2>2. ~(d < k)
    BY <2>1, <1>2, <1>4, Zenon
  <2> QED BY <2>1, <2>2
<1>6. PICK x \in S : k = n - x
  BY DEF T
<1>7. \A y \in S : x >= y
  <2> SUFFICES ASSUME NEW y \in S PROVE x >= y
    OBVIOUS
  <2>1. k <= n - y
    BY <1>5 DEF T
  <2> QED BY <1>6, <2>1
<1> QED BY <1>7 DEF Max

(* Before anything was written.                                            *)
LEMMA InitHolds == Init => IngestionInv
<1> SUFFICES ASSUME Init PROVE IngestionInv
  OBVIOUS
<1>1. Shape
  BY DEF Init, Shape, PollState, Resting, Stream
<1>2. Answers /\ MappedIsRouted
  BY DEF Init, Answers, MappedIsRouted
<1>3. Listing /\ NothingSkipped
  BY DEF Init, Listing, NothingSkipped, Written, Stream
<1>4. \A p \in Poller : Ahead(p)
  BY DEF Init, Ahead, Resting
<1> QED BY <1>1, <1>2, <1>3, <1>4 DEF IngestionInv

(* What people do on GitHub.                                               *)
LEMMA People ==
  ASSUME IngestionInv,
         \/ Tick \/ EditIssue \/ TouchIssue
         \/ \E c \in Comment : WriteComment(c) \/ ListComment(c)
  PROVE  IngestionInv'
<1> USE DEF Written, Recorded
<1>0. /\ UNCHANGED <<cursor, events, observed, mapped, routed, settled, outbox, posted, quoted>>
      /\ UNCHANGED <<poll, faults, extra>>
  BY DEF Tick, EditIssue, TouchIssue, WriteComment, ListComment, database
<1>1. Answers' /\ MappedIsRouted'
  BY <1>0 DEF IngestionInv, Answers, MappedIsRouted
<1>2. CASE EditIssue \/ TouchIssue
  <2>1. UNCHANGED <<clock, comment>> /\ issue' \in [body : Nat, at : Nat]
    BY <1>2 DEF IngestionInv, Shape, EditIssue, TouchIssue
  <2>2. Shape'
    BY <1>0, <2>1 DEF IngestionInv, Shape
  <2>3. Listing' /\ NothingSkipped' /\ \A p \in Poller : Ahead(p)'
    BY <1>0, <2>1 DEF IngestionInv, Listing, NothingSkipped, Ahead
  <2> QED BY <1>1, <2>2, <2>3 DEF IngestionInv
<1>3. CASE Tick
  <2>1. UNCHANGED <<issue, comment>> /\ clock' = clock + 1 /\ clock \in Nat
    BY <1>3 DEF IngestionInv, Shape, Tick
  <2>2. Shape'
    BY <1>0, <2>1 DEF IngestionInv, Shape
  <2>3. Listing'
    BY <1>0, <1>3, <2>1, LagAssumption DEF IngestionInv, Shape, Listing, Tick, Stream
  <2>4. NothingSkipped'
    BY <1>0, <2>1 DEF IngestionInv, NothingSkipped
  <2>5. \A p \in Poller : Ahead(p)'
    BY <1>0, <2>1 DEF IngestionInv, Shape, PollState, Ahead
  <2> QED BY <1>1, <2>2, <2>3, <2>4, <2>5 DEF IngestionInv
<1>4. ASSUME NEW c \in Comment, WriteComment(c) PROVE IngestionInv'
  <2>1. /\ UNCHANGED <<clock, issue>> /\ clock \in Nat
        /\ comment' = [comment EXCEPT ![c] = [at |-> clock, state |-> "written"]]
    BY <1>4 DEF IngestionInv, Shape, WriteComment
  <2>2. Shape'
    BY <1>0, <2>1 DEF IngestionInv, Shape
  <2>3. \A d \in Comment : comment'[d] = IF d = c THEN [at |-> clock, state |-> "written"] ELSE comment[d]
    BY <2>1 DEF IngestionInv, Shape
  <2>4. Listing'
    BY <1>0, <2>1, <2>3, LagAssumption DEF IngestionInv, Listing
  <2>5. NothingSkipped'
    BY <1>0, <2>1, <2>3 DEF IngestionInv, NothingSkipped, Listing
  <2>6. \A p \in Poller : Ahead(p)'
    BY <1>0, <2>1, <2>3 DEF IngestionInv, Ahead
  <2> QED BY <1>1, <2>2, <2>4, <2>5, <2>6 DEF IngestionInv
<1>5. ASSUME NEW c \in Comment, ListComment(c) PROVE IngestionInv'
  <2>1. /\ UNCHANGED <<clock, issue>> /\ comment[c].state = "written"
        /\ comment' = [comment EXCEPT ![c].state = "listed"]
    BY <1>5 DEF ListComment
  <2>2. Shape'
    BY <1>0, <2>1 DEF IngestionInv, Shape
  <2>3. \A d \in Comment : /\ comment'[d].at = comment[d].at
                           /\ comment'[d].state = IF d = c THEN "listed" ELSE comment[d].state
    BY <2>1 DEF IngestionInv, Shape
  <2>4. Listing'
    BY <1>0, <2>1, <2>3 DEF IngestionInv, Listing
  <2>5. NothingSkipped' /\ \A p \in Poller : Ahead(p)'
    BY <1>0, <2>1, <2>3 DEF IngestionInv, NothingSkipped, Ahead
  <2> QED BY <1>1, <2>2, <2>4, <2>5 DEF IngestionInv
<1> QED BY <1>2, <1>3, <1>4, <1>5

-----------------------------------------------------------------------------
(* A poll that reads, or ends without writing.                             *)
LEMMA Reads ==
  ASSUME IngestionInv, NEW p \in Poller, NEW w \in PollState,
         poll' = [poll EXCEPT ![p] = w],
         UNCHANGED <<github, cursor, events, mapped, routed, settled, outbox>>, Ahead(p)'
  PROVE  IngestionInv'
<1>1. UNCHANGED <<clock, issue, comment, posted, quoted>>
  BY DEF github
<1>2. \A q \in Poller : poll'[q] = IF q = p THEN w ELSE poll[q]
  BY DEF IngestionInv, Shape
<1>3. Shape'
  BY <1>1 DEF IngestionInv, Shape
<1>4. Answers' /\ MappedIsRouted' /\ Listing' /\ NothingSkipped'
  BY <1>1 DEF IngestionInv, Answers, MappedIsRouted, Listing, NothingSkipped, Written
<1>5. \A q \in Poller : Ahead(q)'
  BY <1>1, <1>2 DEF IngestionInv, Ahead, Written, Recorded
<1> QED BY <1>3, <1>4, <1>5 DEF IngestionInv

(* The request: what it does not list was written within the overlap.      *)
LEMMA Fetches ==
  ASSUME IngestionInv, NEW p \in Poller, _fetch(p)
  PROVE  IngestionInv'
<1> DEFINE s == poll[p].stream
           items == Items(s, cursor[s])
           next == next_since(items, cursor[s])
           step == IF s = "issues" THEN "normalize" ELSE "record"
           w == [poll[p] EXCEPT !.at = step, !.next = next, !.items = items]
<1>1. /\ poll[p] \in PollState /\ s \in Stream /\ cursor[s] \in Int
      /\ poll' = [poll EXCEPT ![p] = w]
      /\ UNCHANGED <<github, cursor, events, mapped, routed, settled, outbox>>
      /\ UNCHANGED <<clock, comment>>
  BY DEF IngestionInv, Shape, PollState, _fetch, database, github
<1>2. items \in SUBSET Item
  <2>1. CASE s = "issues"
    BY <1>1, <2>1 DEF IngestionInv, Shape, Items, Item
  <2>2. CASE s # "issues"
    BY <1>1, <2>2 DEF IngestionInv, Shape, Items, Item
  <2> QED BY <2>1, <2>2
<1>3. next \in Int
  <2>1. CASE items = {}
    BY <1>1, <2>1 DEF next_since
  <2>2. CASE items # {}
    <3> DEFINE S == {i.at : i \in items}
    <3>1. PICK n \in Nat : S \subseteq 0 .. n
      <4>1. CASE s = "issues"
        <5>1. S \subseteq 0 .. issue.at /\ issue.at \in Nat
          BY <4>1 DEF IngestionInv, Shape, Items
        <5> QED BY <5>1
      <4>2. CASE s # "issues"
        <5>1. S \subseteq 0 .. clock /\ clock \in Nat
          BY <4>2 DEF IngestionInv, Shape, Items, Listing, Written
        <5> QED BY <5>1
      <4> QED BY <4>1, <4>2
    <3>2. Max(S) \in S
      BY <2>2, <3>1, NewestIsOne
    <3>3. next = Max(S) - Overlap
      BY <2>2 DEF next_since
    <3> HIDE DEF S, next
    <3> QED BY <3>1, <3>2, <3>3, LagAssumption
  <2> QED BY <2>1, <2>2
<1>4. w \in PollState /\ w.at = step /\ w.stream = s /\ w.next = next /\ w.items = items
  <2>1. step \in {"fetch", "normalize", "record"}
    OBVIOUS
  <2> HIDE DEF step, next, items
  <2> QED BY <1>1, <1>2, <1>3, <2>1 DEF PollState
<1>5. poll'[p] = w
  <2> HIDE DEF w
  <2> QED BY <1>1 DEF IngestionInv, Shape
<1>6. ASSUME step = "record", s = "comments"
      PROVE  /\ next <= clock
             /\ \A c \in Comment : Written(c) =>
                  Recorded(c) \/ (\E i \in items : i.src = c) \/ comment[c].at >= next
  <2>1. \A c \in Comment : comment[c].at \in Nat /\ clock \in Nat /\ cursor[s] <= clock
    BY <1>6 DEF IngestionInv, Shape, Listing
  <2>2. items = {[src |-> c, at |-> comment[c].at, body |-> 1] :
                   c \in {d \in Comment : comment[d].state = "listed" /\ comment[d].at >= cursor[s]}}
    BY <1>6 DEF Items
  <2>3. \A c \in Comment : Written(c) => Recorded(c) \/ comment[c].at >= cursor[s]
    BY <1>6 DEF IngestionInv, NothingSkipped, Written, Recorded
  <2>4. \A c \in Comment : Written(c) /\ ~Recorded(c) /\ ~(\E i \in items : i.src = c)
          => comment[c].state = "written"
    <3> SUFFICES ASSUME NEW c \in Comment, Written(c), ~Recorded(c), ~(\E i \in items : i.src = c),
                        comment[c].state = "listed"
                 PROVE  FALSE
      BY DEF IngestionInv, Shape, Written
    <3>1. [src |-> c, at |-> comment[c].at, body |-> 1] \in items
      BY <2>2, <2>3
    <3> QED BY <3>1
  <2>5. CASE items = {}
    <3>1. next = cursor[s]
      BY <2>5 DEF next_since
    <3>2. next <= clock
      BY <1>6, <3>1 DEF IngestionInv, Listing
    <3> QED BY <2>3, <3>1, <3>2
  <2>6. CASE items # {}
    <3> DEFINE S == {i.at : i \in items}
    <3>1. S \subseteq 0 .. clock /\ S # {} /\ clock \in Nat
      BY <2>2, <2>6 DEF IngestionInv, Shape, Listing, Written
    <3>2. Max(S) \in 0 .. clock
      BY <3>1, NewestIsOne
    <3>3. next = Max(S) - Overlap
      BY <2>6 DEF next_since
    <3> HIDE DEF S, next, items
    <3>4. next <= clock /\ next + Overlap <= clock
      BY <3>1, <3>2, <3>3, LagAssumption
    <3>5. \A c \in Comment : comment[c].state = "written" => comment[c].at >= next
      BY <1>3, <2>1, <3>4, LagAssumption DEF IngestionInv, Listing
    <3> QED BY <2>4, <3>4, <3>5
  <2> QED BY <2>5, <2>6
<1>7. Ahead(p)'
  <2>0. step = "normalize" => s = "issues"
    OBVIOUS
  <2> HIDE DEF w, next, items, step
  <2> QED BY <1>1, <1>4, <1>5, <1>6, <2>0 DEF Ahead, Written, Recorded
<1> HIDE DEF w
<1> QED BY <1>1, <1>4, <1>7, Reads

(* Observing a body, and a poll that fails.                                *)
LEMMA Observes ==
  ASSUME IngestionInv, NEW p \in Poller, _normalize(p) \/ poll_fails(p)
  PROVE  IngestionInv'
<1>0. poll[p] \in PollState
  BY DEF IngestionInv, Shape
<1>1. CASE _normalize(p)
  <2> DEFINE items == {i \in poll[p].items : Mentions(i.body)}
             w == [poll[p] EXCEPT !.at = "record", !.items = items]
  <2>1. poll' = [poll EXCEPT ![p] = w]
          /\ UNCHANGED <<github, cursor, events, mapped, routed, settled, outbox>>
    BY <1>1 DEF _normalize
  <2>2. w \in PollState /\ w.at = "record" /\ w.stream = poll[p].stream
    <3>1. items \in SUBSET Item
      BY <1>0 DEF PollState
    <3> HIDE DEF items
    <3> QED BY <1>0, <3>1 DEF PollState
  <2>3. poll'[p] = w
    <3> HIDE DEF w
    <3> QED BY <2>1 DEF IngestionInv, Shape
  <2>4. poll[p].stream = "issues"
    BY <1>1 DEF IngestionInv, Ahead, _normalize
  <2> HIDE DEF w
  <2>5. Ahead(p)'
    BY <2>2, <2>3, <2>4 DEF Ahead
  <2> QED BY <2>1, <2>2, <2>5, Reads
<1>2. CASE poll_fails(p)
  <2>1. poll' = [poll EXCEPT ![p] = Resting]
          /\ UNCHANGED <<github, cursor, events, mapped, routed, settled, outbox>>
    BY <1>2 DEF poll_fails, database
  <2>2. Resting \in PollState
    BY DEF Resting, PollState, Stream
  <2>3. poll'[p] = Resting
    BY <2>1 DEF IngestionInv, Shape
  <2>4. Ahead(p)'
    BY <2>3 DEF Ahead, Resting
  <2> QED BY <2>1, <2>2, <2>4, Reads
<1> QED BY <1>1, <1>2

(* New answers join the outbox as PENDING, for inputs that have none.      *)
LEMMA Answering ==
  ASSUME Answers, NEW more, more \cap DOMAIN posted = {}, more \subseteq settled',
         outbox' = [e \in DOMAIN outbox \cup more |-> IF e \in more THEN "PENDING" ELSE outbox[e]],
         posted' = [e \in DOMAIN posted \cup more |-> IF e \in more THEN 0 ELSE posted[e]],
         settled \subseteq settled', settled' \subseteq routed', routed' \subseteq events',
         UNCHANGED quoted
  PROVE  Answers'
<1>1. DOMAIN outbox = DOMAIN posted
  BY DEF Answers
<1> DEFINE D == DOMAIN posted
           E == D \cup more
<1>2. /\ posted' = [e \in E |-> IF e \in more THEN 0 ELSE posted[e]]
      /\ outbox' = [e \in E |-> IF e \in more THEN "PENDING" ELSE outbox[e]]
      /\ DOMAIN posted' = E
  BY <1>1
<1>3. \A e \in D : posted'[e] = posted[e] /\ outbox'[e] = outbox[e]
  BY <1>2
<1>4. posted' \in [E -> 0 .. 1]
  <2>1. \A e \in E : (IF e \in more THEN 0 ELSE posted[e]) \in 0 .. 1
    BY DEF Answers
  <2> HIDE DEF E
  <2> QED BY <1>2, <2>1
<1>5. outbox' \in [E -> {"PENDING", "DELIVERED", "AMBIGUOUS"}]
  <2>1. \A e \in E : (IF e \in more THEN "PENDING" ELSE outbox[e])
                        \in {"PENDING", "DELIVERED", "AMBIGUOUS"}
    BY DEF Answers
  <2> HIDE DEF E
  <2> QED BY <1>2, <2>1
<1>6. \A e \in E : outbox'[e] = "DELIVERED" => posted'[e] = 1
  BY <1>2 DEF Answers
<1>7. quoted' \subseteq E /\ \A e \in quoted' : posted'[e] = 1
  BY <1>3 DEF Answers
<1>8. E \subseteq settled'
  BY DEF Answers
<1> QED BY <1>2, <1>4, <1>5, <1>6, <1>7, <1>8 DEF Answers

(* One transaction records a batch and moves the cursor.                   *)
LEMMA Records ==
  ASSUME IngestionInv, NEW p \in Poller, record_batch(p)
  PROVE  IngestionInv'
<1> USE DEF Written, Recorded
<1> DEFINE s == poll[p].stream
           unknown == poll[p].items \ events
           new == {e \in unknown : s = "comments" \/ _is_new_issue_content(e)}
           resolved == {e \in new : _resolve_thread(e)}
<1>1. /\ poll[p] \in PollState /\ s \in Stream /\ poll[p].next \in Int /\ poll[p].at = "record"
      /\ events' = events \cup new /\ routed' = routed \cup resolved
      /\ settled' = settled \cup resolved
      /\ cursor' = [cursor EXCEPT ![s] = poll[p].next]
      /\ poll' = [poll EXCEPT ![p] = Follow(p)]
      /\ UNCHANGED <<clock, issue, comment, quoted, mapped>>
  BY DEF IngestionInv, Shape, PollState, record_batch
<1>2. PICK more \in SUBSET {e \in new : s = "comments" /\ _resolve_thread(e)} :
        /\ outbox' = [e \in DOMAIN outbox \cup more |-> IF e \in more THEN "PENDING" ELSE outbox[e]]
        /\ posted' = [e \in DOMAIN posted \cup more |-> IF e \in more THEN 0 ELSE posted[e]]
  BY DEF record_batch
<1>3. new \cap events = {} /\ resolved \subseteq new /\ more \subseteq resolved
  OBVIOUS
<1>4. mapped => resolved = new
  BY DEF _resolve_thread
<1>5. s = "comments" => new = unknown
  OBVIOUS
<1> HIDE DEF new, resolved
<1>6. Answers'
  <2>1. more \cap DOMAIN posted = {}
    BY <1>3 DEF IngestionInv, Answers
  <2>2. settled' \subseteq routed' /\ routed' \subseteq events' /\ settled \subseteq settled'
          /\ more \subseteq settled'
    BY <1>1, <1>3 DEF IngestionInv, Answers
  <2> QED BY <1>1, <1>2, <2>1, <2>2, Answering DEF IngestionInv
<1>7. MappedIsRouted'
  BY <1>1, <1>4 DEF IngestionInv, MappedIsRouted
<1>8. Follow(p) \in PollState /\ Follow(p).at = "fetch"
  BY DEF Follow, Resting, PollState, Stream
<1>9. Shape'
  BY <1>1, <1>8 DEF IngestionInv, Shape
<1>10. \A q \in Poller : poll'[q] = IF q = p THEN Follow(p) ELSE poll[q]
  BY <1>1 DEF IngestionInv, Shape
<1>11. cursor'["comments"] = IF s = "comments" THEN poll[p].next ELSE cursor["comments"]
  BY <1>1 DEF IngestionInv, Shape, Stream
<1>12. \A c \in Comment : Recorded(c) => Recorded(c)'
  BY <1>1
<1>13. s = "comments" =>
         /\ poll[p].next <= clock
         /\ \A c \in Comment : Written(c) => Recorded(c)' \/ comment[c].at >= poll[p].next
  <2> SUFFICES ASSUME s = "comments"
               PROVE  /\ poll[p].next <= clock
                      /\ \A c \in Comment : Written(c) =>
                           Recorded(c)' \/ comment[c].at >= poll[p].next
    OBVIOUS
  <2>1. \A i \in poll[p].items : i \in events'
    BY <1>1, <1>5
  <2>2. Ahead(p)
    BY DEF IngestionInv
  <2> QED BY <1>1, <1>12, <2>1, <2>2 DEF Ahead
<1>14. Listing'
  BY <1>1, <1>11, <1>13 DEF IngestionInv, Listing
<1>15. NothingSkipped'
  <2> SUFFICES ASSUME NEW c \in Comment, Written(c)
               PROVE  Recorded(c)' \/ comment[c].at >= cursor'["comments"]
    BY <1>1 DEF NothingSkipped
  <2>1. CASE s = "comments"
    BY <1>11, <1>13, <2>1
  <2>2. CASE s # "comments"
    <3>1. Recorded(c) \/ comment[c].at >= cursor["comments"]
      BY DEF IngestionInv, NothingSkipped
    <3> QED BY <1>11, <1>12, <2>2, <3>1
  <2> QED BY <2>1, <2>2
<1>16. ASSUME NEW q \in Poller PROVE Ahead(q)'
  <2>1. CASE q = p
    BY <1>8, <1>10, <2>1 DEF Ahead
  <2>2. CASE q # p
    BY <1>1, <1>10, <1>12, <2>2 DEF IngestionInv, Ahead
  <2> QED BY <2>1, <2>2
<1> QED BY <1>6, <1>7, <1>9, <1>14, <1>15, <1>16 DEF IngestionInv

-----------------------------------------------------------------------------
(* What happens to inputs and answers concerns no poll.                    *)
LEMMA Settles ==
  ASSUME IngestionInv, UNCHANGED <<clock, issue, comment, cursor, events, poll>>,
         Answers', MappedIsRouted'
  PROVE  IngestionInv'
<1>1. Shape' /\ Listing' /\ NothingSkipped' /\ \A p \in Poller : Ahead(p)'
  BY DEF IngestionInv, Shape, Listing, NothingSkipped, Ahead, Written, Recorded
<1> QED BY <1>1 DEF IngestionInv

(* The mapping routes what was recorded; routing settles it.               *)
LEMMA Routes ==
  ASSUME IngestionInv, register_pr_mapping \/ route_unmatched_inputs
  PROVE  IngestionInv'
<1>1. CASE register_pr_mapping
  <2>1. UNCHANGED <<clock, issue, comment, posted, quoted, cursor, events, settled, outbox, poll>>
          /\ routed' = events
    BY <1>1 DEF register_pr_mapping, github
  <2>2. Answers' /\ MappedIsRouted'
    BY <2>1 DEF IngestionInv, Answers, MappedIsRouted
  <2> QED BY <2>1, <2>2, Settles
<1>2. CASE route_unmatched_inputs
  <2>1. /\ UNCHANGED <<clock, issue, comment, quoted, cursor, events, mapped, routed, poll>>
        /\ settled' = routed
    BY <1>2 DEF route_unmatched_inputs
  <2>2. PICK more \in SUBSET (routed \ settled) :
          /\ outbox' = [e \in DOMAIN outbox \cup more |-> IF e \in more THEN "PENDING" ELSE outbox[e]]
          /\ posted' = [e \in DOMAIN posted \cup more |-> IF e \in more THEN 0 ELSE posted[e]]
    BY <1>2 DEF route_unmatched_inputs
  <2>3. /\ Answers /\ more \cap DOMAIN posted = {} /\ more \subseteq settled'
        /\ settled \subseteq settled' /\ settled' \subseteq routed' /\ routed' \subseteq events'
    BY <2>1 DEF IngestionInv, Answers
  <2>4. Answers'
    BY <2>1, <2>2, <2>3, Answering
  <2>5. MappedIsRouted'
    BY <2>1 DEF IngestionInv, MappedIsRouted
  <2> QED BY <2>1, <2>4, <2>5, Settles
<1> QED BY <1>1, <1>2

(* The answer is there after reconciliation, and there once: a marker that *)
(* somebody quoted is one SWEForge posted.                                 *)
LEMMA Reconciles ==
  ASSUME Answers, NEW e \in DOMAIN posted, _reconcile_one(e)
  PROVE  /\ posted' \in [DOMAIN posted -> 0 .. 1] /\ DOMAIN posted' = DOMAIN posted
         /\ posted'[e] = 1
         /\ \A d \in DOMAIN posted : posted[d] = 1 => posted'[d] = 1
<1> DEFINE D == DOMAIN posted
<1>1. posted \in [D -> 0 .. 1]
  BY DEF Answers
<1>2. Cardinality({e} \cap quoted) = IF e \in quoted THEN 1 ELSE 0
  <2>1. CASE e \in quoted
    <3>1. {e} \cap quoted = {e}
      BY <2>1
    <3> QED BY <2>1, <3>1, FS_Singleton
  <2>2. CASE e \notin quoted
    <3>1. {e} \cap quoted = {}
      BY <2>2
    <3> QED BY <2>2, <3>1, FS_EmptySet
  <2> QED BY <2>1, <2>2
<1>3. e \in quoted => posted[e] = 1
  BY DEF Answers
<1>4. posted[e] \in 0 .. 1
  BY <1>1
<1>5. matches(e) = 0 <=> posted[e] = 0
  BY <1>2, <1>3, <1>4 DEF matches
<1>6. CASE posted[e] = 0
  <2>1. posted' = [posted EXCEPT ![e] = 1]
    BY <1>5, <1>6 DEF _reconcile_one
  <2> HIDE DEF D
  <2>2. e \in D
    BY DEF D
  <2> QED BY <1>1, <2>1, <2>2 DEF D
<1>7. CASE posted[e] # 0
  <2>1. posted' = posted
    BY <1>5, <1>7 DEF _reconcile_one
  <2> QED BY <1>1, <1>4, <1>7, <2>1
<1> QED BY <1>6, <1>7

(* Delivery, its failure, and a quotation.                                 *)
LEMMA Delivers ==
  ASSUME IngestionInv, NEW e \in DOMAIN posted,
         deliver_pending_workflow_comments(e) \/ delivery_fails(e) \/ QuoteAnswer(e)
  PROVE  IngestionInv'
<1> DEFINE D == DOMAIN posted
<1>0. Answers
  BY DEF IngestionInv
<1>1. /\ UNCHANGED <<clock, issue, comment, cursor, events, mapped, routed, settled, poll>>
  BY DEF deliver_pending_workflow_comments, delivery_fails, QuoteAnswer, database
<1>2. MappedIsRouted'
  BY <1>1 DEF IngestionInv, MappedIsRouted
<1>3. CASE deliver_pending_workflow_comments(e)
  <2>1. /\ UNCHANGED quoted /\ _reconcile_one(e)
        /\ outbox' = [outbox EXCEPT ![e] = IF matches(e) > 1 THEN "AMBIGUOUS" ELSE "DELIVERED"]
    BY <1>3 DEF deliver_pending_workflow_comments, update_workflow_comment
  <2>2. /\ posted' \in [D -> 0 .. 1] /\ DOMAIN posted' = D /\ posted'[e] = 1
        /\ \A d \in D : posted[d] = 1 => posted'[d] = 1
    BY <1>0, <2>1, Reconciles
  <2>3. /\ outbox' \in [D -> {"PENDING", "DELIVERED", "AMBIGUOUS"}]
        /\ \A d \in D : d # e => outbox'[d] = outbox[d]
    BY <1>0, <2>1 DEF Answers
  <2>4. \A d \in D : outbox'[d] = "DELIVERED" => posted'[d] = 1
    BY <1>0, <2>2, <2>3 DEF Answers
  <2>5. Answers'
    BY <1>0, <1>1, <2>1, <2>2, <2>3, <2>4 DEF Answers
  <2> QED BY <1>1, <1>2, <2>5, Settles
<1>4. CASE delivery_fails(e)
  <2>1. UNCHANGED <<quoted, outbox>> /\ (_reconcile_one(e) \/ UNCHANGED posted)
    BY <1>4 DEF delivery_fails, database
  <2>2. CASE UNCHANGED posted
    <3>1. Answers'
      BY <1>0, <1>1, <2>1, <2>2 DEF Answers
    <3> QED BY <1>1, <1>2, <3>1, Settles
  <2>3. CASE _reconcile_one(e)
    <3>1. /\ posted' \in [D -> 0 .. 1] /\ DOMAIN posted' = D
          /\ \A d \in D : posted[d] = 1 => posted'[d] = 1
      BY <1>0, <2>3, Reconciles
    <3>2. Answers'
      BY <1>0, <1>1, <2>1, <3>1 DEF Answers
    <3> QED BY <1>1, <1>2, <3>2, Settles
  <2> QED BY <2>1, <2>2, <2>3
<1>5. CASE QuoteAnswer(e)
  <2>1. UNCHANGED <<posted, outbox>> /\ quoted' = {e} /\ posted[e] > 0
    BY <1>5 DEF QuoteAnswer, database
  <2>2. posted[e] \in 0 .. 1
    BY <1>0 DEF Answers
  <2>3. posted[e] = 1
    BY <2>1, <2>2
  <2>4. Answers'
    BY <1>0, <1>1, <2>1, <2>3 DEF Answers
  <2> QED BY <1>1, <1>2, <2>4, Settles
<1> QED BY <1>3, <1>4, <1>5

-----------------------------------------------------------------------------
(* Every step of GitHub, pollers and workers keeps the invariant.          *)
THEOREM IngestionInductive == Spec => []IngestionInv
<1>1. IngestionInv /\ [Next]_vars => IngestionInv'
  <2> SUFFICES ASSUME IngestionInv, [Next]_vars PROVE IngestionInv'
    OBVIOUS
  <2>1. DOMAIN outbox = DOMAIN posted
    BY DEF IngestionInv, Answers
  <2>2. CASE UNCHANGED vars
    <3>1. /\ UNCHANGED <<clock, issue, comment, cursor, events, poll>>
          /\ UNCHANGED <<posted, quoted, outbox, mapped, routed, settled>>
      BY <2>2 DEF vars, github, database
    <3>2. Answers' /\ MappedIsRouted'
      BY <3>1 DEF IngestionInv, Answers, MappedIsRouted
    <3> QED BY <3>1, <3>2, Settles
  <2>3. ASSUME NEW p \in Poller, Polling(p) \/ poll_fails(p) PROVE IngestionInv'
    BY <2>3, Fetches, Observes, Records DEF Polling
  <2>4. CASE Ticking
    BY <2>1, <2>4, Routes, Delivers DEF Ticking
  <2> QED BY <2>1, <2>2, <2>3, <2>4, People, Routes, Delivers DEF Next
<1> QED BY <1>1, InitHolds, PTL DEF Spec

(* No comment is lost at a cursor, whichever of several pollers moved it   *)
(* last and however late it is listed, as long as the overlap covers the   *)
(* delay of GitHub's lists.                                                *)
THEOREM NothingIsSkipped == Spec => []NothingSkipped
  BY IngestionInductive, PTL DEF IngestionInv

(* The mapping of the pull request and polls of it commute.                *)
THEOREM MappedStaysRouted == Spec => []MappedIsRouted
  BY IngestionInductive, PTL DEF IngestionInv

(* Wherever a delivery fails and whoever quotes its marker, an answer is   *)
(* written once, and a row that says DELIVERED is right.                   *)
THEOREM AnswersAreSingle == Spec => []AnsweredOnce
<1>1. IngestionInv => AnsweredOnce
  BY DEF IngestionInv, Answers, AnsweredOnce
<1> QED BY <1>1, IngestionInductive, PTL

-----------------------------------------------------------------------------
(* One process polls.  Then bodies are observed in the order of the edits: *)
(* what it has fetched is at least as new as the last body observed.       *)
Fresh(p) ==
  /\ poll[p].stream = "issues" => \A i \in poll[p].items :
       /\ i.src = "issue" /\ observed <= i.body /\ i.body <= issue.body
       /\ poll[p].items = {i}
  /\ poll[p].stream = "comments" => \A i \in poll[p].items : i.src \in Comment

Bodies ==
  /\ events \subseteq Item
  /\ observed \in Nat /\ observed <= issue.body
  /\ \A e \in events : e.src = "issue" => e.body <= observed
  /\ NoReplay
  /\ \A p \in Poller : Fresh(p)

(* Whatever does not poll leaves bodies alone, or edits the issue.         *)
LEMMA Edits ==
  ASSUME Shape, Shape', Bodies, UNCHANGED <<events, observed, poll>>, issue'.body >= issue.body
  PROVE  Bodies'
<1>1. issue.body \in Nat /\ issue'.body \in Nat /\ observed \in Nat
  BY DEF Shape, Bodies
<1>2. observed' <= issue'.body
  BY <1>1 DEF Bodies
<1>3. ASSUME NEW p \in Poller PROVE Fresh(p)'
  <2>1. ASSUME NEW i \in poll[p].items, i.body <= issue.body PROVE i.body <= issue'.body
    <3>1. i \in Item
      BY DEF Shape, PollState
    <3> QED BY <1>1, <2>1, <3>1 DEF Item
  <2> QED BY <2>1 DEF Bodies, Fresh
<1> QED BY <1>2, <1>3 DEF Bodies, NoReplay

(* A poll's step of the only process.                                      *)
LEMMA PollsAlone ==
  ASSUME Poller = {Server}, IngestionInv, Shape', Bodies, NEW p \in Poller,
         Polling(p) \/ poll_fails(p)
  PROVE  Bodies'
<1>0. /\ poll[p] \in PollState /\ poll[p].items \subseteq Item /\ poll[p].stream \in Stream
      /\ issue.body \in Nat /\ observed \in Nat /\ Shape /\ Fresh(p) /\ Poller = {p}
      /\ UNCHANGED issue /\ events \subseteq Item
  BY DEF IngestionInv, Shape, PollState, Bodies, Polling, _fetch, _normalize, record_batch,
         poll_fails, github
<1>1. CASE _fetch(p)
  <2> DEFINE s == poll[p].stream
             items == Items(s, cursor[s])
             step == IF s = "issues" THEN "normalize" ELSE "record"
             next == next_since(items, cursor[s])
             w == [poll[p] EXCEPT !.at = step, !.next = next, !.items = items]
  <2>1. poll' = [poll EXCEPT ![p] = w] /\ UNCHANGED <<events, observed>>
    BY <1>1 DEF _fetch, database
  <2>2. w.stream = s /\ w.items = items
    <3> HIDE DEF step, next, items
    <3> QED BY <1>0 DEF PollState
  <2>3. poll'[p] = w
    <3> HIDE DEF w
    <3> QED BY <1>0, <2>1 DEF Shape
  <2> HIDE DEF w
  <2>4. CASE s = "issues"
    <3>1. items \subseteq {[src |-> "issue", at |-> issue.at, body |-> issue.body]}
      BY <2>4 DEF Items
    <3>2. Fresh(p)'
      BY <1>0, <2>1, <2>2, <2>3, <2>4, <3>1 DEF Fresh, Bodies
    <3> QED BY <1>0, <2>1, <3>2 DEF Bodies, NoReplay
  <2>5. CASE s = "comments"
    <3>1. \A i \in items : i.src \in Comment
      BY <2>5 DEF Items
    <3>2. Fresh(p)'
      BY <2>2, <2>3, <2>5, <3>1 DEF Fresh
    <3> QED BY <1>0, <2>1, <3>2 DEF Bodies, NoReplay
  <2> QED BY <1>0, <2>4, <2>5 DEF Stream
<1>2. CASE _normalize(p)
  <2> DEFINE items == {i \in poll[p].items : Mentions(i.body)}
             w == [poll[p] EXCEPT !.at = "record", !.items = items]
  <2>1. /\ poll' = [poll EXCEPT ![p] = w] /\ UNCHANGED events
        /\ observed' = IF \E i \in poll[p].items : ~Mentions(i.body)
                       THEN (CHOOSE i \in poll[p].items : TRUE).body ELSE observed
    BY <1>2 DEF _normalize
  <2>2. w.stream = "issues" /\ w.items = items /\ poll[p].stream = "issues"
    <3>1. poll[p].stream = "issues"
      BY <1>2 DEF IngestionInv, Ahead, _normalize
    <3> HIDE DEF items
    <3> QED BY <1>0, <3>1 DEF PollState
  <2>3. poll'[p] = w
    <3> HIDE DEF w
    <3> QED BY <1>0, <2>1 DEF Shape
  <2> HIDE DEF w
  <2>4. CASE \E i \in poll[p].items : ~Mentions(i.body)
    <3>1. PICK i \in poll[p].items : ~Mentions(i.body)
      BY <2>4
    <3>2. poll[p].items = {i} /\ observed <= i.body /\ i.body <= issue.body /\ i.body \in Nat
      BY <1>0, <2>2 DEF Fresh, Item
    <3>3. observed' = i.body /\ items = {}
      BY <2>1, <3>1, <3>2
    <3>4. Fresh(p)'
      BY <2>2, <2>3, <3>3 DEF Fresh
    <3>5. \A e \in events : e.src = "issue" => e.body <= observed'
      <4> SUFFICES ASSUME NEW e \in events, e.src = "issue" PROVE e.body <= observed'
        OBVIOUS
      <4>1. e.body \in Nat /\ e.body <= observed
        BY <1>0 DEF Bodies, Item
      <4> QED BY <1>0, <3>2, <3>3, <4>1
    <3> QED BY <1>0, <2>1, <3>2, <3>3, <3>4, <3>5 DEF Bodies, NoReplay
  <2>5. CASE ~ \E i \in poll[p].items : ~Mentions(i.body)
    <3>1. observed' = observed /\ items = poll[p].items
      BY <2>1, <2>5
    <3>2. Fresh(p)'
      BY <1>0, <2>2, <2>3, <3>1 DEF Fresh
    <3> QED BY <1>0, <2>1, <3>1, <3>2 DEF Bodies, NoReplay
  <2> QED BY <2>4, <2>5
<1>3. CASE poll_fails(p)
  <2>1. poll'[p] = Resting /\ UNCHANGED <<events, observed>>
    BY <1>0, <1>3 DEF Shape, poll_fails, database
  <2>2. Fresh(p)'
    BY <2>1 DEF Fresh, Resting
  <2> QED BY <1>0, <2>1, <2>2 DEF Bodies, NoReplay
<1>4. CASE record_batch(p)
  <2> DEFINE s == poll[p].stream
             unknown == poll[p].items \ events
             new == {e \in unknown : s = "comments" \/ _is_new_issue_content(e)}
  <2>1. /\ events' = events \cup new /\ poll'[p] = Follow(p)
        /\ observed' = IF s = "issues" /\ unknown # {}
                       THEN (CHOOSE e \in unknown : TRUE).body ELSE observed
    BY <1>0, <1>4 DEF Shape, record_batch
  <2>2. Fresh(p)'
    BY <2>1 DEF Fresh, Follow, Resting
  <2>3. events' \subseteq Item
    BY <1>0, <2>1
  <2>4. CASE s = "comments" \/ unknown = {}
    <3>1. observed' = observed /\ \A e \in new : e.src # "issue"
      BY <1>0, <2>1, <2>4, SurfaceAssumption DEF Fresh
    <3> HIDE DEF new
    <3> QED BY <1>0, <2>1, <2>2, <2>3, <3>1 DEF Bodies, NoReplay
  <2>5. CASE s = "issues" /\ unknown # {}
    <3>1. PICK i \in unknown : TRUE
      BY <2>5
    <3>2. /\ unknown = {i} /\ i.src = "issue" /\ observed <= i.body /\ i.body <= issue.body
          /\ i.body \in Nat
      BY <1>0, <2>5 DEF Fresh, Item
    <3>3. observed' = i.body /\ new \subseteq {i} /\ (i \in new => observed # i.body)
      BY <2>1, <2>5, <3>2 DEF _is_new_issue_content
    <3> HIDE DEF new, unknown
    <3>4. \A e \in events : e.src = "issue" =>
            e.body <= observed' /\ (i \in new => e.body # i.body)
      <4> SUFFICES ASSUME NEW e \in events, e.src = "issue"
                   PROVE  e.body <= observed' /\ (i \in new => e.body # i.body)
        OBVIOUS
      <4>1. e.body \in Nat /\ e.body <= observed
        BY <1>0 DEF Bodies, Item
      <4> QED BY <1>0, <3>2, <3>3, <4>1
    <3>5. \A e \in events' : e.src = "issue" => e.body <= observed'
      BY <2>1, <3>2, <3>3, <3>4
    <3>6. NoReplay'
      BY <2>1, <3>3, <3>4 DEF Bodies, NoReplay
    <3> QED BY <1>0, <2>2, <2>3, <3>2, <3>3, <3>5, <3>6 DEF Bodies
  <2> QED BY <1>0, <2>4, <2>5 DEF Stream
<1> QED BY <1>1, <1>2, <1>3, <1>4 DEF Polling

(* One body of the issue is one task, if one process polls: the server     *)
(* polls in one thread, and only sweforge-github-poll beside it can make   *)
(* an old body count again.                                                *)
THEOREM BodiesAreNotReplayed ==
  ASSUME Poller = {Server}
  PROVE  Spec => []NoReplay
<1>1. Init => Bodies
  <2> SUFFICES ASSUME Init PROVE Bodies
    OBVIOUS
  <2> QED BY DEF Init, Bodies, NoReplay, Fresh, Resting
<1>2. IngestionInv /\ IngestionInv' /\ Bodies /\ [Next]_vars => Bodies'
  <2> SUFFICES ASSUME IngestionInv, IngestionInv', Bodies, [Next]_vars PROVE Bodies'
    OBVIOUS
  <2>0. Shape /\ Shape' /\ issue.body \in Nat
    BY DEF IngestionInv, Shape
  <2>1. ASSUME NEW p \in Poller, Polling(p) \/ poll_fails(p) PROVE Bodies'
    BY <2>0, <2>1, PollsAlone
  <2>2. CASE EditIssue
    <3>1. UNCHANGED <<events, observed, poll>> /\ issue'.body >= issue.body
      BY <2>0, <2>2 DEF EditIssue, database
    <3> QED BY <2>0, <3>1, Edits
  <2>3. CASE TouchIssue
    <3>1. UNCHANGED <<events, observed, poll>> /\ issue'.body >= issue.body
      BY <2>0, <2>3 DEF TouchIssue, database, Shape
    <3> QED BY <2>0, <3>1, Edits
  <2>4. ASSUME UNCHANGED <<events, observed, poll, issue>> PROVE Bodies'
    <3>1. issue'.body >= issue.body
      BY <2>0, <2>4
    <3> QED BY <2>0, <2>4, <3>1, Edits
  <2>5. CASE UNCHANGED vars
    BY <2>4, <2>5 DEF vars, github, database
  <2>6. CASE Tick \/ \E c \in Comment : WriteComment(c) \/ ListComment(c)
    BY <2>4, <2>6 DEF Tick, WriteComment, ListComment, database
  <2>7. CASE register_pr_mapping \/ route_unmatched_inputs
    BY <2>4, <2>7 DEF register_pr_mapping, route_unmatched_inputs, github
  <2>8. ASSUME NEW e, deliver_pending_workflow_comments(e) \/ delivery_fails(e) \/ QuoteAnswer(e)
        PROVE  Bodies'
    BY <2>4, <2>8 DEF deliver_pending_workflow_comments, delivery_fails, QuoteAnswer, database
  <2> QED BY <2>1, <2>2, <2>3, <2>5, <2>6, <2>7, <2>8 DEF Next, Ticking
<1>3. Bodies => NoReplay
  BY DEF Bodies
<1> QED BY <1>1, <1>2, <1>3, IngestionInductive, PTL DEF Spec
=============================================================================
