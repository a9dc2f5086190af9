------------------------------- MODULE Ingestion -------------------------------
(***************************************************************************)
(* How what people write on GitHub becomes durable input and is            *)
(* acknowledged: GitHubPoller (github_poller.py), record_batch and the     *)
(* routing rows (github_store.py), and deliver_pending_workflow_comments   *)
(* (workflow_comment_delivery.py), for one issue and its pull request.     *)
(*                                                                         *)
(* The server polls, and the operator's sweforge-github-poll may, beside   *)
(* it.  A poll reads the cursor and GitHub, then writes, stream by stream; *)
(* it may fail anywhere, and GitHub goes on meanwhile.                     *)
(*                                                                         *)
(* Data abstraction: a body is what tells it apart (an issue's is the      *)
(* number of its edit, odd ones mention the agent); a comment begins with  *)
(* @agent; the four streams differ in what they carry, so one carries the  *)
(* issue and one the comments.  ETags only suppress answers that bring     *)
(* nothing new.  Both cursors exist: the first poll's look-back is past.   *)
(***************************************************************************)
EXTENDS Integers, FiniteSets, FiniteSetsExt

CONSTANTS
  Poller,     \* processes that poll
  Server,     \* the one that polls again and again
  Comment,    \* comments people may write
  OnPull,     \* those written on the pull request, the others are on the issue
  Overlap,    \* how far a cursor stays behind the newest item
  Lag,        \* how long GitHub may take to list what was written
  MaxClock,   \* bound: time
  MaxEdits,   \* bound: edits of the issue's body
  MaxExtra,   \* bound: polls of the operator
  MaxFaults   \* bound: requests that fail, processes that die

ASSUME LagAssumption == Overlap \in Nat /\ Lag \in 0 .. Overlap
ASSUME SurfaceAssumption == OnPull \subseteq Comment /\ "issue" \notin Comment

Stream == {"issues", "comments"}

VARIABLES
  (* GitHub *)
  clock,
  issue,      \* [body, at]: its current body and updated_at
  comment,    \* comment[c]: [at, state], state among unwritten, written, listed
  posted,     \* posted[e]: answers to e written by SWEForge
  quoted,     \* answers that a person quoted, marker included
  (* the database *)
  cursor,     \* poll_cursors.since, by stream
  events,     \* source_events: [src, at, body]
  observed,   \* issue_content_observations.body
  mapped,     \* the pull request has its pr_thread_mappings row
  routed,     \* source_events with a thread_id
  settled,    \* source_events that were classified
  outbox,     \* outbox[e]: status of the answer to e, for answered events
  (* processes *)
  poll,       \* poll[p]: [at, stream, next, items]
  faults,
  extra       \* polls of the operator

github == <<clock, issue, comment, posted, quoted>>
database == <<cursor, events, observed, mapped, routed, settled, outbox>>
vars == <<github, database, poll, faults, extra>>

Resting == [at |-> "fetch", stream |-> "issues", next |-> 0, items |-> {}]

Event == [src : {"issue"} \cup Comment, at : 0 .. MaxClock, body : 0 .. MaxEdits]

Mentions(body) == body % 2 = 1

Init ==
  /\ clock = 0 /\ issue = [body |-> 1, at |-> 0]
  /\ comment = [c \in Comment |-> [at |-> 0, state |-> "unwritten"]]
  /\ posted = [e \in {} |-> 0] /\ quoted = {}
  /\ cursor = [s \in Stream |-> 0]
  /\ events = {} /\ observed = 0 /\ mapped = FALSE
  /\ routed = {} /\ settled = {} /\ outbox = [e \in {} |-> "PENDING"]
  /\ poll = [p \in Poller |-> Resting]
  /\ faults = 0 /\ extra = 0

-----------------------------------------------------------------------------
(* GitHub and the people on it.                                            *)

(* Time passes, and what is older than Lag is listed.                      *)
Tick ==
  /\ clock < MaxClock
  /\ \A c \in Comment : comment[c].state = "written" => clock < comment[c].at + Lag
  /\ clock' = clock + 1
  /\ UNCHANGED <<issue, comment, posted, quoted, database, poll, faults, extra>>

WriteComment(c) ==
  /\ comment[c].state = "unwritten"
  /\ comment' = [comment EXCEPT ![c] = [at |-> clock, state |-> "written"]]
  /\ UNCHANGED <<clock, issue, posted, quoted, database, poll, faults, extra>>

ListComment(c) ==
  /\ comment[c].state = "written"
  /\ comment' = [comment EXCEPT ![c].state = "listed"]
  /\ UNCHANGED <<clock, issue, posted, quoted, database, poll, faults, extra>>

EditIssue ==
  /\ issue.body < MaxEdits
  /\ issue' = [body |-> issue.body + 1, at |-> clock]
  /\ UNCHANGED <<clock, comment, posted, quoted, database, poll, faults, extra>>

(* A label, a title or a new comment: updated_at moves, the body does not. *)
TouchIssue ==
  /\ issue.at < clock
  /\ issue' = [issue EXCEPT !.at = clock]
  /\ UNCHANGED <<clock, comment, posted, quoted, database, poll, faults, extra>>

-----------------------------------------------------------------------------
(* _poll_repository: each stream is fetched, normalized and recorded.      *)

Items(s, since) ==
  IF s = "issues" THEN {[src |-> "issue", at |-> issue.at, body |-> issue.body] : x \in
                          {y \in {1} : issue.at >= since}}
  ELSE {[src |-> c, at |-> comment[c].at, body |-> 1] :
          c \in {d \in Comment : comment[d].state = "listed" /\ comment[d].at >= since}}

(* Slip: the cursor is the newest item itself.                             *)
cursor_without_overlap(items, since) ==
  IF items = {} THEN since ELSE Max({i.at : i \in items})

(* The newest item less the overlap, or unchanged without items.           *)
next_since(items, since) ==
  IF items = {} THEN since ELSE Max({i.at : i \in items}) - Overlap

(* The operator's polls are counted, the server's never end.               *)
MayStart(p) == p = Server \/ extra < MaxExtra

(* The cursor is read and the stream requested.                            *)
_fetch(p) ==
  LET s == poll[p].stream
      items == Items(s, cursor[s]) IN
  /\ poll[p].at = "fetch"
  /\ s = "issues" => MayStart(p)
  /\ extra' = IF s = "issues" /\ p # Server THEN extra + 1 ELSE extra
  /\ poll' = [poll EXCEPT ![p] = [@ EXCEPT !.at = IF s = "issues" THEN "normalize" ELSE "record",
                                           !.next = next_since(items, cursor[s]), !.items = items]]
  /\ UNCHANGED <<github, database, faults>>

(* A body without a mention is observed in a transaction of its own.       *)
_normalize(p) ==
  /\ poll[p].at = "normalize"
  /\ observed' = IF \E i \in poll[p].items : ~Mentions(i.body)
                 THEN (CHOOSE i \in poll[p].items : TRUE).body ELSE observed
  /\ poll' = [poll EXCEPT ![p] = [@ EXCEPT !.at = "record",
                                           !.items = {i \in poll[p].items : Mentions(i.body)}]]
  /\ UNCHANGED <<github, cursor, events, mapped, routed, settled, outbox, faults,
                 extra>>

(* Slip: only the event key tells a new body from an old one.              *)
any_new_version(e) == TRUE

(* A body that was observed last, whatever touched the issue, is not new.  *)
_is_new_issue_content(e) == observed # e.body

(* A pull request's events have a thread once it is mapped.                *)
_resolve_thread(e) == e.src \notin OnPull \/ mapped

Follow(p) ==
  IF poll[p].stream = "issues" THEN [Resting EXCEPT !.stream = "comments"]
  ELSE Resting

(* One transaction: the events that are new, their classification, for     *)
(* some an answer to be delivered, and the cursor.                         *)
record_batch(p) ==
  LET s == poll[p].stream
      unknown == poll[p].items \ events
      new == {e \in unknown : s = "comments" \/ _is_new_issue_content(e)} IN
  /\ poll[p].at = "record"
  /\ \E unsolicited \in SUBSET {e \in new : s = "comments" /\ _resolve_thread(e)} :
       /\ outbox' = [e \in DOMAIN outbox \cup unsolicited |->
                       IF e \in unsolicited THEN "PENDING" ELSE outbox[e]]
       /\ posted' = [e \in DOMAIN posted \cup unsolicited |->
                       IF e \in unsolicited THEN 0 ELSE posted[e]]
  /\ events' = events \cup new
  /\ routed' = routed \cup {e \in new : _resolve_thread(e)}
  /\ settled' = settled \cup {e \in new : _resolve_thread(e)}
  /\ observed' = IF s = "issues" /\ unknown # {}
                 THEN (CHOOSE e \in unknown : TRUE).body ELSE observed
  /\ cursor' = [cursor EXCEPT ![s] = poll[p].next]
  /\ poll' = [poll EXCEPT ![p] = Follow(p)]
  /\ UNCHANGED <<clock, issue, comment, quoted, mapped, faults, extra>>

(* A request or the transaction fails, or the process dies.                *)
poll_fails(p) ==
  /\ poll[p] # Resting /\ faults < MaxFaults
  /\ faults' = faults + 1
  /\ poll' = [poll EXCEPT ![p] = Resting]
  /\ UNCHANGED <<github, database, extra>>

-----------------------------------------------------------------------------
(* Slip: events that arrived before the mapping keep no thread.            *)
map_without_routing ==
  /\ ~mapped
  /\ mapped' = TRUE
  /\ UNCHANGED <<github, cursor, events, observed, routed, settled, outbox, poll,
                 faults, extra>>

(* The publication maps its pull request and routes what arrived before.   *)
register_pr_mapping ==
  /\ ~mapped
  /\ mapped' = TRUE
  /\ routed' = events
  /\ UNCHANGED <<github, cursor, events, observed, settled, outbox, poll, faults, extra>>

(* The controller classifies what was routed after it was recorded.        *)
route_unmatched_inputs ==
  /\ routed \ settled # {}
  /\ settled' = routed
  /\ \E unsolicited \in SUBSET (routed \ settled) :
       /\ outbox' = [e \in DOMAIN outbox \cup unsolicited |->
                       IF e \in unsolicited THEN "PENDING" ELSE outbox[e]]
       /\ posted' = [e \in DOMAIN posted \cup unsolicited |->
                       IF e \in unsolicited THEN 0 ELSE posted[e]]
  /\ UNCHANGED <<clock, issue, comment, quoted, cursor, events, observed, mapped, routed, poll,
                 faults, extra>>

-----------------------------------------------------------------------------
(* deliver_pending_workflow_comments, inside a tick of the thread: one     *)
(* worker at a time, so only where it stops matters.                       *)

matches(e) == posted[e] + Cardinality({e} \cap quoted)

(* Slip: the comment is written without looking for the marker.            *)
create_blindly(e) == posted' = [posted EXCEPT ![e] = @ + 1]

(* The comment with the marker, or a new one.                              *)
_reconcile_one(e) == posted' = IF matches(e) = 0 THEN [posted EXCEPT ![e] = 1] ELSE posted

(* Slip: a row with several matches is left to be tried again.             *)
retry_ambiguous(e) ==
  outbox' = [outbox EXCEPT ![e] = IF matches(e) > 1 THEN "PENDING" ELSE "DELIVERED"]

update_workflow_comment(e) ==
  outbox' = [outbox EXCEPT ![e] = IF matches(e) > 1 THEN "AMBIGUOUS" ELSE "DELIVERED"]

deliver_pending_workflow_comments(e) ==
  /\ outbox[e] = "PENDING"
  /\ _reconcile_one(e) /\ update_workflow_comment(e)
  /\ UNCHANGED <<clock, issue, comment, quoted, cursor, events, observed, mapped, routed,
                 settled, poll, faults, extra>>

(* The request fails before or after GitHub acted on it, or the worker     *)
(* dies: the row stays PENDING and is due again.                           *)
delivery_fails(e) ==
  /\ outbox[e] = "PENDING" /\ faults < MaxFaults
  /\ faults' = faults + 1
  /\ (_reconcile_one(e) \/ UNCHANGED posted)
  /\ UNCHANGED <<clock, issue, comment, quoted, database, poll, extra>>

(* Somebody replies to the answer and quotes it.                           *)
QuoteAnswer(e) ==
  /\ posted[e] > 0 /\ quoted = {}
  /\ quoted' = {e}
  /\ UNCHANGED <<clock, issue, comment, posted, database, poll, faults, extra>>

-----------------------------------------------------------------------------
Polling(p) == _fetch(p) \/ _normalize(p) \/ record_batch(p)

Ticking ==
  \/ route_unmatched_inputs
  \/ \E e \in DOMAIN outbox : deliver_pending_workflow_comments(e)

Next ==
  \/ Tick \/ EditIssue \/ TouchIssue
  \/ \E c \in Comment : WriteComment(c) \/ ListComment(c)
  \/ \E p \in Poller : Polling(p) \/ poll_fails(p)
  \/ register_pr_mapping
  \/ Ticking
  \/ \E e \in DOMAIN outbox : delivery_fails(e)
  \/ \E e \in DOMAIN posted : QuoteAnswer(e)

Spec == Init /\ [][Next]_vars

(* GitHub lists what was written, the server polls again and again, a poll *)
(* under way goes on, and the dispatcher ticks a thread that has inputs to *)
(* classify or answers due.                                                *)
FairSpec ==
  /\ Spec
  /\ WF_vars(\E c \in Comment : ListComment(c))
  /\ \A p \in Poller : WF_vars(Polling(p))
  /\ WF_vars(Ticking)

-----------------------------------------------------------------------------
(* Rows have their shape; only settled inputs of the thread have answers.  *)
TypeOK ==
  /\ clock \in 0 .. MaxClock
  /\ issue \in [body : 0 .. MaxEdits, at : 0 .. MaxClock]
  /\ \A c \in Comment : comment[c].state \in {"unwritten", "written", "listed"}
  /\ cursor \in [Stream -> -Overlap .. MaxClock]
  /\ events \subseteq Event /\ observed \in 0 .. MaxEdits
  /\ settled \subseteq routed /\ routed \subseteq events
  /\ DOMAIN outbox = DOMAIN posted /\ DOMAIN outbox \subseteq settled
  /\ \A e \in DOMAIN outbox : outbox[e] \in {"PENDING", "DELIVERED", "AMBIGUOUS"}
  /\ \A p \in Poller : poll[p].at \in {"fetch", "normalize", "record"}

(* What was written and is not recorded lies ahead of the cursor, listed   *)
(* or not, whichever process moved it last: no poll can skip it.           *)
NothingSkipped ==
  \A c \in Comment : comment[c].state # "unwritten" =>
    \/ \E e \in events : e.src = c
    \/ comment[c].at >= cursor["comments"]

(* One body of the issue is one task: labels, comments and repeated polls  *)
(* do not replay it, whatever fails between the two transactions that      *)
(* observe bodies.                                                         *)
NoReplay ==
  \A d, e \in events : d.src = "issue" /\ e.src = "issue" /\ d.body = e.body => d = e

(* The publication's mapping and a poll of its pull request commute: an    *)
(* event of a mapped pull request has its thread.                          *)
MappedIsRouted == mapped => routed = events

(* An answer is written once, although the worker may die between writing  *)
(* and recording it, and a delivered one is there.                         *)
AnsweredOnce ==
  \A e \in DOMAIN outbox : posted[e] <= 1 /\ (outbox[e] = "DELIVERED" => posted[e] = 1)

(* A comment on the issue or its mapped pull request becomes an input the  *)
(* workflow has classified, and its answer does not stay due for ever.     *)
InputsSettle ==
  \A c \in Comment :
    (comment[c].state # "unwritten" /\ (c \in OnPull => mapped)) ~>
      \E e \in settled : e.src = c /\ (e \in DOMAIN outbox => outbox[e] # "PENDING")
=============================================================================
