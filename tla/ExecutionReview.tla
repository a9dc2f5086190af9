----------------------------- MODULE ExecutionReview -----------------------------
(***************************************************************************)
(* The deterministic guard around the model-driven review of an execution  *)
(* (review_execution in reviewer.py): the contract built from the issue and*)
(* the plan, up to two inspections with repository reads, two specialists, *)
(* one finalizer, and the checks that turn an unearned ACCEPT into BLOCKED.*)
(*                                                                         *)
(* What the language models return is input: any artifact of Reports,      *)
(* Responses and Verdicts.  Texts are literals, each standing for the first*)
(* MAX_REQUIREMENT_TEXT_CHARS characters without case or spacing, whose    *)
(* regular-expression matches are given by TextClass, Negative, Targets and*)
(* Outcome; a line range is <<first, last>>, or <<>> when either end is    *)
(* absent; an evidence identity is the sequence of what its hash is taken  *)
(* over.  The order of the hunks inside a file and the wording of problems *)
(* are left out.                                                           *)
(***************************************************************************)
EXTENDS Integers, Sequences, FiniteSets, SequencesExt

CONSTANTS
  Literal,          \* texts of requirements
  TextClass,        \* [Literal -> what the two classification patterns match]
  Negative,         \* literals that state an absence of change
  Targets,          \* [Literal -> the scopes and bare file names they name]
  Outcome,          \* literals that assert an outcome ("passes")
  File, Dir,        \* the repository
  Within,           \* the pairs <<path, scope>> with path = scope or below it
  NameOf,           \* [File -> its last path component]
  Unreadable,       \* files the read tool refuses
  NoSection,        \* changed files without a section of their own in the diff
  LargeDiff,        \* files whose section exceeds MAX_EVIDENCE_ENTRY_CHARS
  Role,             \* [File -> the role of its diff cluster]
  LargeCluster,     \* files whose cluster exceeds MAX_CLUSTER_EXCERPT_CHARS
  Shares,           \* files whose cluster shares two words with a test cluster
  ReadOf,           \* [read id -> [path, lines, empty]]: what a read returns
  ExecutionIds,     \* evidence ids of the execution observations
  Inputs,           \* the pairs of issue and plan that may be reviewed
  ChangeSets,       \* the sets of changed files that may be reviewed
  Reports(_),       \* what the inspector may return for a contract
  Responses(_),     \* what the specialist of a stage may return
  Verdicts(_),      \* what the finalizer may return for a contract
  MaxRequirements,  \* MAX_REVIEW_REQUIREMENTS
  MaxCalls,         \* REVIEW_INSPECTION_TOOL_CALL_LIMIT
  CatalogLimit,     \* MAX_EVIDENCE_CATALOG_CHARS, in entries
  MaxLinked         \* clusters linked to the test specialist (4 in the code)

Scope == File \cup Dir

ASSUME ReviewAssumption ==
  /\ Negative \subseteq Literal /\ Outcome \subseteq Literal
  /\ NoSection \subseteq File /\ LargeDiff \subseteq File
  /\ \A C \in ChangeSets : C \subseteq File
  /\ \A f \in File : <<f, f>> \in Within
  /\ Role \in [File -> {"IMPLEMENTATION", "TEST_VALIDATION", "BOTH"}]
  /\ MaxRequirements \in Nat \ {0} /\ MaxCalls \in Nat
  /\ CatalogLimit \in Nat /\ MaxLinked \in Nat

VARIABLES
  request,          \* the issue and the plan: [source, plan]
  changed,          \* evidence["changed_files"]
  contract,         \* the requirement contract of this review
  pc,               \* "inspect", "implementation", "tests", "finalize" or "done"
  attempt,          \* inspection_attempt, from 1
  calls,            \* tool calls of this inspection
  ledger,           \* read ids, in the order of the reads
  report,           \* inspection_report
  truncated,        \* inspection_truncated
  answers,          \* what the specialists returned, as they returned it
  stages,           \* the SpecialistStageReports
  result            \* what review_execution returns or raises

vars == <<request, changed, contract, pc, attempt, calls, ledger, report, truncated,
          answers, stages, result>>
-----------------------------------------------------------------------------
(* Sequences.                                                              *)

Nth(K, n) == CHOOSE i \in K : Cardinality({k \in K : k <= i}) = n

\* The entries of s at the positions K, in their order.
At(s, K) == [n \in 1..Cardinality(K) |-> s[Nth(K, n)]]

\* The entries of s at whose position no entry of f repeats an earlier one.
AtFirst(s, f) == At(s, {i \in DOMAIN s : \A j \in DOMAIN s : j < i => f[j] # f[i]})

Unique(s) == AtFirst(s, s)

Duplicated(s) == Len(s) # Cardinality(ToSet(s))

\* A dictionary built from a list by key: the last entry of a key wins.
Latest(s, Key(_)) ==
  {s[i] : i \in {j \in DOMAIN s : \A k \in DOMAIN s : k > j => Key(s[k]) # Key(s[j])}}

Up(s, n) == [i \in {k \in DOMAIN s : k <= n} |-> s[i]]
-----------------------------------------------------------------------------
(* The contract.  A document is [whole, items, fits, broken]: its list     *)
(* items [text, material, validation], where the two flags say what kind of*)
(* section the item stands in; how many of them lie in the first           *)
(* MAX_REQUIREMENT_SOURCE_CHARS or MAX_REQUIREMENT_PLAN_CHARS characters;  *)
(* what is left of the item the cut goes through, if it goes through one;  *)
(* and the text up to the cut as one literal ("" when blank).              *)

\* text[:max_chars]: the items that are left of a document.
Bounded(doc) == Up(doc.items, doc.fits) \o doc.broken

section_is_requirement_material(item) == item.material

extract_requirement_items(doc, origin) ==
  LET items    == Bounded(doc)
      material == {i \in DOMAIN items : section_is_requirement_material(items[i])}
      selected == CASE material = {}       -> DOMAIN items
                    [] material # {} /\ origin = "source" -> material
                    [] OTHER -> {i \in DOMAIN items :
                                   \E j \in material : items[j].text = items[i].text}
      prefix(item) == IF origin = "source" THEN "source:req"
                      ELSE IF item.validation THEN "plan:validation" ELSE "plan:step"
      item == At(items, selected)
  IN  Up([n \in DOMAIN item |-> <<prefix(item[n]), item[n].text>>], MaxRequirements)

requirement_classification(text, prefix) ==
  IF TextClass[text] # "VERIFY" THEN TextClass[text]
  ELSE IF prefix = "plan:validation" THEN "VALIDATION" ELSE "BEHAVIORAL"

Requirement(prefix, n, text) ==
  [id |-> <<prefix, n>>, text |-> text,
   class |-> requirement_classification(text, prefix)]

\* Slip: the counter of a prefix is not kept, and a repeated text counts again.
contract_counts_repeats(source, plan) ==
  LET all == extract_requirement_items(source, "source")
               \o extract_requirement_items(plan, "plan")
  IN  Up([i \in DOMAIN all |-> Requirement(all[i][1], i, all[i][2])], MaxRequirements)

build_review_requirement_contract(source, plan) ==
  LET candidates == extract_requirement_items(source, "source")
                      \o extract_requirement_items(plan, "plan")
      texts    == [i \in DOMAIN candidates |-> candidates[i][2]]
      kept     == Up(AtFirst(candidates, texts), MaxRequirements)
      counter(n) == Cardinality({k \in 1..n : kept[k][1] = kept[n][1]})
      items    == [n \in DOMAIN kept |-> Requirement(kept[n][1], counter(n), kept[n][2])]
      overall(prefix, doc) == IF doc.whole = "" THEN <<>>
                              ELSE <<Requirement(prefix, 1, doc.whole)>>
      fallback == Up(overall("source:overall", source) \o overall("plan:overall", plan),
                     MaxRequirements)
  IN  IF items # <<>> THEN items
      ELSE IF fallback # <<>> THEN fallback
      ELSE <<[id |-> <<"review:overall", 1>>, text |-> "", class |-> "BEHAVIORAL"]>>

\* What the artifact models (pydantic) admit: lists of records with these fields.
IsList(s) == s \in Seq(ToSet(s))

IsReport(rep) ==
  /\ DOMAIN rep = {"inspections", "observations"}
  /\ IsList(rep.inspections) /\ IsList(rep.observations)
  /\ \A x \in ToSet(rep.inspections) : DOMAIN x = {"req", "status", "refs"}

IsVerdict(v) ==
  /\ DOMAIN v = {"verdict", "checks", "instructions"}
  /\ v.verdict \in {"ACCEPT", "NEEDS_FIXES", "BLOCKED"}
  /\ IsList(v.checks)
  /\ \A c \in ToSet(v.checks) : DOMAIN c = {"req", "status", "refs", "repairability"}

IsDocument(doc) ==
  /\ IsList(doc.items) /\ IsList(doc.broken) /\ doc.fits \in Nat
  /\ Len(doc.broken) <= 1 /\ (doc.broken # <<>> => doc.fits < Len(doc.items))

ASSUME ArtifactAssumption ==
  \A x \in Inputs :
    /\ IsDocument(x.source) /\ IsDocument(x.plan)
    /\ LET C == build_review_requirement_contract(x.source, x.plan) IN
       (\A rep \in Reports(C) : IsReport(rep)) /\ (\A v \in Verdicts(C) : IsVerdict(v))

Ids == {contract[i].id : i \in DOMAIN contract}

Of(id) == CHOOSE r \in ToSet(contract) : r.id = id
-----------------------------------------------------------------------------
(* Absence of change.                                                      *)

scope_contains_change(scope) == \E f \in changed : <<f, scope>> \in Within

absence_source_id(scope) == <<"absence", scope>>

asserts_an_outcome(text) == text \in Outcome

absence_scope_covers_target(scope, target) ==
  \/ /\ target \in Scope
     /\ \/ <<target, scope>> \in Within
        \/ /\ target \in Dir
           /\ <<scope, target>> \in Within
           /\ ~scope_contains_change(target)
  \/ /\ target \notin Scope
     /\ \/ scope \in File /\ NameOf[scope] = target
        \/ scope \in Dir /\ \A f \in changed : NameOf[f] # target

\* Slip: when every named target changed, no scope is asked for.
absence_needs_no_scope(refs, text) ==
  \A t \in Targets[text] \ changed : \E ref \in refs :
    /\ ref.kind = "ABSENCE_OF_CHANGE" /\ ref.path \in Scope
    /\ absence_scope_covers_target(ref.path, t)

has_required_absence_refs(refs, text) ==
  LET targets == {t \in Targets[text] : t \notin changed /\ \A f \in changed : NameOf[f] # t}
      scopes  == {ref.path : ref \in {x \in refs : x.kind = "ABSENCE_OF_CHANGE"}}
                   \cap Scope
  IN  /\ scopes # {}
      /\ \A t \in targets : \E s \in scopes : absence_scope_covers_target(s, t)
-----------------------------------------------------------------------------
(* Reads and references.  A reference is [kind, req, source, path, range], *)
(* an observation [id, req, kind, path, range, signal].                    *)

\* The path of a reference to the diff as a whole.
NoPath == ""

resolve_reviewer_file(path) == path \in File \ Unreadable

Ordered(range) == range # <<>> /\ range[1] <= range[2]

observation_range(o) == IF Ordered(o.range) THEN o.range ELSE <<>>

Covers(lines, range) == lines[1] <= range[1] /\ range[2] <= lines[2]

read_covers_range(id, o) == o.range # <<>> /\ Covers(ReadOf[id].lines, o.range)

\* The reads of the ledger that cover a range of a path, narrowest first.
NarrowestRead(path, range) ==
  LET found == {i \in DOMAIN ledger : /\ ReadOf[ledger[i]].path = path
                                      /\ Covers(ReadOf[ledger[i]].lines, range)}
      span(i) == ReadOf[ledger[i]].lines[2] - ReadOf[ledger[i]].lines[1]
      first == CHOOSE i \in found : \A j \in found :
                 span(i) < span(j) \/ (span(i) = span(j) /\ i <= j)
  IN  IF found = {} THEN <<>> ELSE <<ledger[first]>>

Ref(kind, req, source, path, range) ==
  [kind |-> kind, req |-> req, source |-> source, path |-> path, range |-> range]

InspectedRef(req, path, range) ==
  LET read == IF range = <<>> THEN <<>> ELSE NarrowestRead(path, range)
  IN  IF read = <<>> THEN <<>>
      ELSE <<Ref("INSPECTED_FILE", req, <<"read", read[1]>>, path, range)>>

canonical_absence_ref(ref, req) ==
  IF ref.path \in Scope /\ ~scope_contains_change(ref.path)
  THEN <<Ref("ABSENCE_OF_CHANGE", req, absence_source_id(ref.path), ref.path, <<>>)>>
  ELSE <<>>

\* What an observation of code or tests, and a nominated reference, become
\* once bound to the diff and the ledger.
FromObservation(o, req) ==
  IF o.kind = "EXECUTION" THEN <<>>
  ELSE IF o.path \in changed
  THEN <<Ref("TRUSTED_DIFF", req, <<"diff", o.path>>, o.path, observation_range(o))>>
  ELSE InspectedRef(req, o.path, observation_range(o))

FromRef(ref, req) ==
  CASE ref.kind = "TRUSTED_DIFF" /\ ref.path \in changed \cup {NoPath} ->
         <<Ref("TRUSTED_DIFF", req, <<"diff", ref.path>>, ref.path, ref.range)>>
    [] ref.kind = "ABSENCE_OF_CHANGE" -> canonical_absence_ref(ref, req)
    [] ref.kind = "INSPECTED_FILE"    -> InspectedRef(req, ref.path, observation_range(ref))
    [] OTHER                          -> <<>>

Rebound(kind) == kind \in {"INSPECTED_FILE", "TRUSTED_DIFF", "ABSENCE_OF_CHANGE"}

canonical_inspection_provenance(rep) ==
  LET own(req)  == SelectSeq(rep.observations, LAMBDA o : o.req = req)
      bound(x)  == FlattenSeq([i \in DOMAIN own(x.req) |-> FromObservation(own(x.req)[i], x.req)])
                     \o FlattenSeq([i \in DOMAIN x.refs |-> FromRef(x.refs[i], x.req)])
      kept(x)   == SelectSeq(x.refs, LAMBDA ref : ~Rebound(ref.kind))
  IN  [rep EXCEPT !.inspections = [i \in DOMAIN @ |->
         [@[i] EXCEPT !.refs = kept(rep.inspections[i]) \o Unique(bound(rep.inspections[i]))]]]
-----------------------------------------------------------------------------
(* The catalog of raw evidence shown to the later stages.  An inspection   *)
(* one of whose references has no text, does not fit or is cut short is    *)
(* not available.                                                          *)

\* The catalog entry of a reference, or <<>> when it contributes none.
EvidenceId(ref) ==
  CASE ref.kind = "INSPECTED_FILE" /\ ref.source[2] \in ToSet(ledger) -> ref.source
    [] ref.kind = "TRUSTED_DIFF" -> <<"diff", ref.path>>
    [] ref.kind = "ABSENCE_OF_CHANGE"
         /\ ref.path \in Scope /\ ~scope_contains_change(ref.path)
         /\ ref.source = absence_source_id(ref.path) -> ref.source
    [] ref.kind = "EXECUTION" -> <<"execution">>
    [] OTHER -> <<>>

Sections == changed \ NoSection

NoText(ref) ==
  \/ ref.kind = "INSPECTED_FILE" /\ ReadOf[ref.source[2]].empty
  \/ ref.kind = "TRUSTED_DIFF" /\ IF ref.path = NoPath THEN Sections = {}
                                  ELSE ref.path \notin Sections

CutShort(ref) ==
  ref.kind = "TRUSTED_DIFF" /\ IF ref.path = NoPath THEN Sections \cap LargeDiff # {}
                              ELSE ref.path \in LargeDiff

unavailable_requirement_ids(rep) ==
  LET place == UNION {{<<i, j>> : j \in DOMAIN rep.inspections[i].refs}
                        : i \in DOMAIN rep.inspections}
      ref(p) == rep.inspections[p[1]].refs[p[2]]
      before(p, q) == p[1] < q[1] \/ (p[1] = q[1] /\ p[2] < q[2])
      entry == {p \in place : EvidenceId(ref(p)) # <<>>}
      shown == {p \in entry : ~NoText(ref(p))}
      earlier(id) == {EvidenceId(ref(p)) : p \in
        {q \in shown : \A o \in shown : EvidenceId(ref(o)) = id => before(q, o)}}
      fits(p) == Cardinality(earlier(EvidenceId(ref(p)))) < CatalogLimit
  IN  {rep.inspections[p[1]].req : p \in
        {q \in entry : NoText(ref(q)) \/ ~fits(q) \/ CutShort(ref(q))}}

\* Slip: the lost requirements are only listed for the finalizer.
unavailable_only_listed(rep, lost) == rep

fail_closed_unavailable_inspections(rep, lost) ==
  [rep EXCEPT !.inspections = [i \in DOMAIN @ |->
     IF @[i].req \in lost THEN [@[i] EXCEPT !.status = "UNVERIFIED"] ELSE @[i]]]
-----------------------------------------------------------------------------
(* Admissible evidence.                                                    *)

ObservationsById(rep) == Latest(rep.observations, LAMBDA o : o.id)

\* Slip: an inspected file is not looked up in the ledger.
read_ref_unchecked(ref) == ref.kind = "INSPECTED_FILE" /\ ref.path \notin File

read_ref_problem(ref) ==
  /\ ref.kind = "INSPECTED_FILE"
  /\ \/ ref.source = <<>>
     \/ ref.source[2] \notin ToSet(ledger)
     \/ ReadOf[ref.source[2]].path # ref.path
     \/ ref.range # <<>> /\ ~Covers(ReadOf[ref.source[2]].lines, ref.range)

reference_problem(ref, req, rep) ==
  \/ ref.req # req
  \/ read_ref_problem(ref)
  \/ ref.kind = "TRUSTED_DIFF" /\ ref.path \notin changed \cup {NoPath}
  \/ /\ ref.kind = "ABSENCE_OF_CHANGE"
     /\ \/ ref.path \notin Scope
        \/ scope_contains_change(ref.path)
        \/ ref.source # absence_source_id(ref.path)
        \/ ref.range # <<>>
  \/ /\ ref.kind = "EXECUTION"
     /\ ref.source # <<>> /\ ExecutionIds # {} /\ ref.source[2] \notin ExecutionIds
  \/ /\ ref.kind = "INSPECTOR_OBSERVATION"
     /\ \A o \in ObservationsById(rep) :
          \/ <<"observation", o.id>> # ref.source
          \/ o.req # req
          \/ ref.path # NoPath /\ ref.path # o.path
  \/ ref.range # <<>> /\ ~Ordered(ref.range)

Grounded(o, refs) ==
  \/ o.path \in changed
  \/ \E id \in ToSet(ledger) : ReadOf[id].path = o.path /\ read_covers_range(id, o)
  \/ \E ref \in refs : /\ ref.kind = "INSPECTED_FILE" /\ ref.source # <<>>
                      /\ ref.source[2] \in ToSet(ledger) /\ ref.path = o.path

\* What a VERIFIED inspection must show for a requirement of its class.
ProofMissing(req, refs, observed) ==
  LET text == Of(req).text
      kinds == {ref.kind : ref \in refs}
  IN  CASE Of(req).class = "BEHAVIORAL" ->
             \/ IF text \in Negative /\ ~(asserts_an_outcome(text) /\ Targets[text] = {})
                THEN ~has_required_absence_refs(refs, text)
                ELSE \A o \in observed : o.kind # "CODE"
             \/ \E o \in observed : o.kind = "TEST" /\ ~o.signal
        [] Of(req).class = "VALIDATION" -> "EXECUTION" \notin kinds
        [] OTHER ->
             \/ refs = {}
             \/ /\ text \in Negative /\ ~asserts_an_outcome(text)
                /\ ~has_required_absence_refs(refs, text)

inspection_authority_problems(x, refs, rep) ==
  LET observed == {o \in ObservationsById(rep) : o.req = x.req} IN
  /\ x.status = "VERIFIED"
  /\ \/ \E ref \in refs : reference_problem(ref, x.req, rep)
     \/ \E o \in observed : o.kind \in {"CODE", "TEST"} /\ ~Grounded(o, refs)
     \/ ProofMissing(x.req, refs, observed)

inspection_artifact_problems(rep) ==
  \/ \E o \in ToSet(rep.observations) : o.req \notin Ids
  \/ \E x \in ToSet(rep.inspections) :
       \/ x.req \notin Ids
       \/ x.req \in Ids /\ inspection_authority_problems(x, ToSet(x.refs), rep)
-----------------------------------------------------------------------------
(* The specialists.  A changed file with a section of its own in the diff  *)
(* is one cluster.  A finding is [id, severity, clusters, provenance] where*)
(* provenance is a set of [cluster, matches]: whether the cited range is   *)
(* one that was supplied.  A response is [stage, findings] or the reason   *)
(* there is none.                                                          *)

Stage == {"IMPLEMENTATION", "TEST_VALIDATION"}

evidence_clusters == Sections

cluster_role(path) == Role[path]

clusters_for_stage(stage) == {c \in evidence_clusters : cluster_role(c) \in {stage, "BOTH"}}

linked_implementation_clusters ==
  LET ranked == (clusters_for_stage("IMPLEMENTATION") \ clusters_for_stage("TEST_VALIDATION"))
                  \cap Shares
  IN  CHOOSE L \in SUBSET ranked :
        Cardinality(L) = IF Cardinality(ranked) < MaxLinked THEN Cardinality(ranked)
                         ELSE MaxLinked

Context(stage) ==
  IF stage = "TEST_VALIDATION" /\ clusters_for_stage(stage) # {}
  THEN linked_implementation_clusters ELSE {}

\* EvidencePackingError of _specialist_prompt for an incomplete excerpt.
specialist_prompt_packs(stage) ==
  (clusters_for_stage(stage) \cup Context(stage)) \cap LargeCluster = {}

finding_provenance_errors(f, stage) ==
  \/ Duplicated(f.clusters)
  \/ ToSet(f.clusters) \ (clusters_for_stage(stage) \cup Context(stage)) # {}
  \/ \E p \in f.provenance : p.cluster \notin ToSet(f.clusters) \/ ~p.matches
  \/ {p.cluster : p \in f.provenance} # ToSet(f.clusters)
  \/ ToSet(f.clusters) \cap clusters_for_stage(stage) = {}

StageReport(status, findings) == [status |-> status, findings |-> findings]

NoFindings == StageReport("UNVERIFIED", <<>>)

FindingIds(findings) == [i \in DOMAIN findings |-> findings[i].id]

\* Slip: findings with a bad range are dropped and the rest is used.
specialist_keeps_valid_findings(stage, answer) ==
  IF clusters_for_stage(stage) = {} THEN StageReport("SKIPPED", <<>>)
  ELSE IF answer.stage # stage THEN NoFindings
  ELSE StageReport("COMPLETED",
         SelectSeq(answer.findings, LAMBDA f : ~finding_provenance_errors(f, stage)))

\* The report of a stage from what its specialist returned: all of it or nothing.
invoke_specialist(stage, answer) ==
  IF clusters_for_stage(stage) = {} THEN StageReport("SKIPPED", <<>>)
  ELSE IF \/ ~specialist_prompt_packs(stage)
          \/ answer.stage # stage
          \/ Duplicated(FindingIds(answer.findings))
          \/ \E f \in ToSet(answer.findings) : finding_provenance_errors(f, stage)
  THEN NoFindings
  ELSE StageReport("COMPLETED", answer.findings)

\* A finding id both stages used takes both reports down.
WithoutSharedIds(impl, test) ==
  LET ids(rep) == ToSet(FindingIds(rep.findings)) IN
  IF ids(impl) \cap ids(test) = {}
  THEN [IMPLEMENTATION |-> impl, TEST_VALIDATION |-> test]
  ELSE [IMPLEMENTATION |-> NoFindings, TEST_VALIDATION |-> NoFindings]

candidate_requirement_associations ==
  FlattenSeq([i \in 1..2 |->
    LET rep == stages[<<"IMPLEMENTATION", "TEST_VALIDATION">>[i]]
    IN  IF rep.status = "COMPLETED" THEN FindingIds(rep.findings) ELSE <<>>])

\* Slip: a stage that could not be verified is treated like a skipped one.
semantic_ignores_unverified ==
  \E s \in Stage : \E f \in ToSet(stages[s].findings) : f.severity = "BLOCKING"

semantic_artifact_problems ==
  LET found == FindingIds(stages["IMPLEMENTATION"].findings)
                 \o FindingIds(stages["TEST_VALIDATION"].findings)
  IN  \/ \E s \in Stage : \/ (clusters_for_stage(s) = {}) # (stages[s].status = "SKIPPED")
                         \/ stages[s].status = "UNVERIFIED"
                         \/ \E f \in ToSet(stages[s].findings) :
                              f.severity = "BLOCKING" \/ finding_provenance_errors(f, s)
      \/ Duplicated(found)
      \/ Duplicated(candidate_requirement_associations)
      \/ ToSet(candidate_requirement_associations) # ToSet(found)
-----------------------------------------------------------------------------
(* The verdict.  A finalizer result is [verdict, checks, instructions]; a  *)
(* check is [req, status, refs, repairability].                            *)

canonical_finalizer_provenance(v) ==
  LET rebind(ref, req) == IF ref.kind = "ABSENCE_OF_CHANGE" THEN canonical_absence_ref(ref, req)
                          ELSE <<ref>>
      bound(c) == [c EXCEPT !.refs = Unique(FlattenSeq(
                     [j \in DOMAIN c.refs |-> rebind(c.refs[j], c.req)]))]
  IN  [v EXCEPT !.checks = [i \in DOMAIN v.checks |-> bound(v.checks[i])]]

guard_repairability(v) ==
  LET open == {c \in ToSet(v.checks) : c.status # "SATISFIED"} IN
  IF /\ v.verdict = "BLOCKED" /\ open # {} /\ v.instructions
     /\ \A c \in open : c.repairability = "IN_SCOPE_REPAIR"
  THEN [v EXCEPT !.verdict = "NEEDS_FIXES"] ELSE v

artifact_problems(v) ==
  LET inspected == [i \in DOMAIN report.inspections |-> report.inspections[i].req]
      current(req) == {x \in Latest(report.inspections, LAMBDA y : y.req) : x.req = req}
  IN  \/ Duplicated(inspected)
      \/ Duplicated([i \in DOMAIN report.observations |-> report.observations[i].id])
      \/ ToSet(inspected) # Ids
      \/ \E o \in ToSet(report.observations) : o.req \notin Ids
      \/ \E c \in ToSet(v.checks) :
           /\ c.status = "SATISFIED"
           /\ \/ c.req \notin Ids \/ current(c.req) = {}
              \/ \E x \in current(c.req) : c.req \in Ids
                   /\ LET refs == ToSet(x.refs) \cup ToSet(c.refs) IN
                      \/ x.status # "VERIFIED"
                      \/ \E ref \in refs : reference_problem(ref, c.req, report)
                      \/ refs = {}
                      \/ inspection_authority_problems(x, refs, report)
      \/ semantic_artifact_problems

\* Slip: only the ids the finalizer returned are checked.
coverage_of_returned_checks(v) ==
  /\ v.verdict = "ACCEPT"
  /\ \/ \E c \in ToSet(v.checks) : c.req \notin Ids \/ c.status # "SATISFIED"
     \/ artifact_problems(v)

accept_coverage_problems(v) ==
  LET ids == [i \in DOMAIN v.checks |-> v.checks[i].req] IN
  /\ v.verdict = "ACCEPT"
  /\ \/ ToSet(ids) # Ids
     \/ Duplicated(ids)
     \/ \E c \in ToSet(v.checks) : c.status # "SATISFIED"
     \/ artifact_problems(v)

apply_accept_coverage_guard(v) ==
  IF accept_coverage_problems(v)
  THEN [v EXCEPT !.verdict = "BLOCKED", !.instructions = FALSE] ELSE v

Raised == [verdict |-> "ERROR", checks |-> <<>>, instructions |-> FALSE]

blocked_finalization_result == [Raised EXCEPT !.verdict = "BLOCKED"]
-----------------------------------------------------------------------------
(* review_execution.                                                       *)

EmptyReport == [inspections |-> <<>>, observations |-> <<>>]

NoAnswer == [stage |-> "NONE", findings |-> <<>>]

Init ==
  /\ request \in Inputs /\ changed \in ChangeSets
  /\ contract = build_review_requirement_contract(request.source, request.plan)
  /\ pc = "inspect" /\ attempt = 1 /\ calls = 0 /\ ledger = <<>>
  /\ report = EmptyReport /\ truncated = FALSE
  /\ answers = [s \in Stage |-> NoAnswer]
  /\ stages = [s \in Stage |-> NoFindings]
  /\ result = [Raised EXCEPT !.verdict = "PENDING"]

caseVars == <<request, changed, contract>>
inspectVars == <<attempt, calls, ledger, report, truncated>>

read_repo_file(id) ==
  /\ pc = "inspect" /\ calls < MaxCalls
  /\ calls' = calls + 1
  /\ ledger' = IF resolve_reviewer_file(ReadOf[id].path) THEN Append(ledger, id) ELSE ledger
  /\ UNCHANGED <<caseVars, pc, attempt, report, truncated, answers, stages, result>>

\* What the guard makes of an inspector's report.
Evaluated(rep) ==
  LET bound == canonical_inspection_provenance(rep)
  IN  fail_closed_unavailable_inspections(bound, unavailable_requirement_ids(bound))

InspectionPasses(rep) ==
  /\ pc = "inspect" /\ ~inspection_artifact_problems(rep)
  /\ report' = rep
  /\ pc' = "implementation"
  /\ UNCHANGED <<caseVars, attempt, calls, ledger, truncated, answers, stages, result>>

\* Slip: the correction does not count as an attempt.
InspectionIsCorrectedAgain(rep) ==
  /\ pc = "inspect" /\ attempt = 1 /\ inspection_artifact_problems(rep)
  /\ report' = rep
  /\ calls' = 0
  /\ UNCHANGED <<caseVars, pc, attempt, ledger, truncated, answers, stages, result>>

InspectionIsCorrected(rep) ==
  /\ pc = "inspect" /\ attempt = 1 /\ inspection_artifact_problems(rep)
  /\ report' = rep
  /\ attempt' = 2 /\ calls' = 0
  /\ UNCHANGED <<caseVars, pc, ledger, truncated, answers, stages, result>>

InspectionIsRejected(rep) ==
  /\ pc = "inspect" /\ attempt = 2 /\ inspection_artifact_problems(rep)
  /\ report' = rep
  /\ pc' = "done" /\ result' = Raised
  /\ UNCHANGED <<caseVars, attempt, calls, ledger, truncated, answers, stages>>

\* ModelCallLimitExceededError or ToolCallLimitExceededError: what the last
\* attempt left in inspection_report, if anything, is carried on.
InspectionRunsOut ==
  /\ pc = "inspect" /\ calls = MaxCalls
  /\ truncated' = TRUE
  /\ report' = fail_closed_unavailable_inspections(report, unavailable_requirement_ids(report))
  /\ pc' = "implementation"
  /\ UNCHANGED <<caseVars, attempt, calls, ledger, answers, stages, result>>

\* Any other exception of the inspector or the finalizer.
OperationalFailure ==
  /\ pc \in {"inspect", "finalize"}
  /\ pc' = "done" /\ result' = Raised
  /\ UNCHANGED <<caseVars, inspectVars, answers, stages>>

\* No model is called for a stage without clusters or with too much evidence.
Answers(stage) ==
  IF clusters_for_stage(stage) = {} \/ ~specialist_prompt_packs(stage)
  THEN {NoAnswer} ELSE Responses(stage) \cup {NoAnswer}

ReviewImplementation(answer) ==
  /\ pc = "implementation"
  /\ answers' = [answers EXCEPT !["IMPLEMENTATION"] = answer]
  /\ stages' = [stages EXCEPT !["IMPLEMENTATION"] = invoke_specialist("IMPLEMENTATION", answer)]
  /\ pc' = "tests"
  /\ UNCHANGED <<caseVars, inspectVars, result>>

ReviewTests(answer) ==
  /\ pc = "tests"
  /\ answers' = [answers EXCEPT !["TEST_VALIDATION"] = answer]
  /\ stages' = WithoutSharedIds(stages["IMPLEMENTATION"],
                               invoke_specialist("TEST_VALIDATION", answer))
  /\ pc' = "finalize"
  /\ UNCHANGED <<caseVars, inspectVars, result>>

\* _finalizer_prompt exceeds MAX_FINALIZER_PROMPT_CHARS.
FinalizerDoesNotPack ==
  /\ pc = "finalize"
  /\ pc' = "done" /\ result' = blocked_finalization_result
  /\ UNCHANGED <<caseVars, inspectVars, answers, stages>>

\* What the guard makes of a finalizer's result before it checks an ACCEPT.
Routed(v) == guard_repairability(canonical_finalizer_provenance(v))

Finalize(v) ==
  /\ pc = "finalize"
  /\ result' = apply_accept_coverage_guard(v)
  /\ pc' = "done"
  /\ UNCHANGED <<caseVars, inspectVars, answers, stages>>

Returned == pc = "done" /\ UNCHANGED vars

Next ==
  \/ \E id \in DOMAIN ReadOf : read_repo_file(id)
  \/ /\ pc = "inspect"
     /\ \E rep \in {Evaluated(x) : x \in Reports(contract)} :
          InspectionPasses(rep) \/ InspectionIsCorrected(rep) \/ InspectionIsRejected(rep)
  \/ InspectionRunsOut
  \/ OperationalFailure
  \/ pc = "implementation" /\ \E a \in Answers("IMPLEMENTATION") : ReviewImplementation(a)
  \/ pc = "tests" /\ \E a \in Answers("TEST_VALIDATION") : ReviewTests(a)
  \/ FinalizerDoesNotPack
  \/ pc = "finalize" /\ \E v \in {Routed(x) : x \in Verdicts(contract)} : Finalize(v)
  \/ Returned

Spec == Init /\ [][Next]_vars
-----------------------------------------------------------------------------
(* Properties.                                                             *)

Accepted == result.verdict = "ACCEPT"

RefsOf(req) ==
  (UNION {ToSet(x.refs) : x \in {y \in ToSet(report.inspections) : y.req = req}})
    \cup (UNION {ToSet(c.refs) : c \in {d \in ToSet(result.checks) : d.req = req}})

\* The state of one review: at most two inspections, each within its budget.
TypeOK ==
  /\ pc \in {"inspect", "implementation", "tests", "finalize", "done"}
  /\ attempt \in 1..2 /\ calls \in 0..MaxCalls /\ truncated \in BOOLEAN
  /\ Len(ledger) <= 2 * MaxCalls /\ ToSet(ledger) \subseteq DOMAIN ReadOf
  /\ \A s \in Stage : stages[s].status \in {"COMPLETED", "UNVERIFIED", "SKIPPED"}
  /\ result.verdict \in {"PENDING", "ERROR", "ACCEPT", "NEEDS_FIXES", "BLOCKED"}
  /\ (pc = "done") = (result.verdict # "PENDING")

\* What a document requires: the material items of those its contract is
\* built from.
Required(items) == {x.text : x \in {y \in ToSet(items) : y.material}}

ContractTexts == [i \in DOMAIN contract |-> contract[i].text]

\* build_review_requirement_contract: every text of a requirement section that
\* lies in the characters read is one requirement of the contract, under an id
\* of its own, unless the contract is full; a request without list items still
\* has something to be judged by.  Two limits are the code's own: what lies
\* past the cut is not read (RequirementsPastTheCut), and of a document with
\* more items than a contract has room for, the last are dropped before
\* repeated ones are removed, and are missing although there is room.
ContractIsComplete ==
  LET wanted(doc) == IF Len(Bounded(doc)) > MaxRequirements THEN {}
                     ELSE Required(Up(doc.items, doc.fits))
  IN  /\ contract # <<>> /\ Len(contract) <= MaxRequirements
      /\ \/ ~Duplicated(ContractTexts)
         \/ Len(Bounded(request.source) \o Bounded(request.plan)) = 0
      /\ Cardinality(Ids) = Len(contract)
      /\ \/ Len(contract) = MaxRequirements
         \/ wanted(request.source) \cup wanted(request.plan) \subseteq ToSet(ContractTexts)

\* The same of the documents as they were written.  The code does not keep
\* this: an ACCEPT says nothing of a requirement past the cut.
RequirementsPastTheCut ==
  Len(contract) < MaxRequirements =>
    Required(request.source.items) \cup Required(request.plan.items) \subseteq ToSet(ContractTexts)

\* The guard: an ACCEPT that leaves review_execution judges every requirement
\* of the contract exactly once, and finds it SATISFIED on exactly one
\* inspection that was VERIFIED, whatever was truncated, corrected, duplicated
\* or left out by the models on the way.
AcceptCoversContract ==
  Accepted => \A r \in Ids :
    /\ \E i \in DOMAIN result.checks :
         /\ result.checks[i].req = r /\ result.checks[i].status = "SATISFIED"
         /\ \A j \in DOMAIN result.checks : result.checks[j].req = r => i = j
    /\ \E i \in DOMAIN report.inspections :
         /\ report.inspections[i].req = r /\ report.inspections[i].status = "VERIFIED"
         /\ \A j \in DOMAIN report.inspections : report.inspections[j].req = r => i = j

\* What an ACCEPT cites is so: a cited diff is of a changed file, nothing
\* changed in a scope cited as unchanged, a cited read happened and returned
\* the cited lines, a cited execution is a recorded one; and each requirement
\* cites something.
AcceptRestsOnFacts ==
  Accepted => \A r \in Ids :
    /\ RefsOf(r) # {}
    /\ \A ref \in RefsOf(r) :
         /\ ref.kind = "TRUSTED_DIFF" => ref.path \in changed \cup {NoPath}
         /\ ref.kind = "ABSENCE_OF_CHANGE" =>
              {f \in changed : <<f, ref.path>> \in Within} = {}
         /\ ref.kind = "INSPECTED_FILE" =>
              \E id \in ToSet(ledger) :
                /\ ReadOf[id].path = ref.path
                /\ ref.range # <<>> => ref.range[1] >= ReadOf[id].lines[1]
                                       /\ ref.range[2] <= ReadOf[id].lines[2]
         /\ ref.kind = "EXECUTION" =>
              ref.source = <<>> \/ ExecutionIds = {} \/ ref.source[2] \in ExecutionIds
    /\ \A o \in ToSet(report.observations) :
         o.req = r /\ o.kind = "CODE" =>
           o.path \in changed \/ \E id \in ToSet(ledger) : ReadOf[id].path = o.path

\* A behavioral requirement is accepted on code, an absence on absence: never
\* on the run or on tests alone.
AcceptHasTheRightProof ==
  Accepted => \A r \in {x \in Ids : Of(x).class # "VALIDATION"} :
    IF Of(r).text \in Negative \ Outcome
    THEN \E ref \in RefsOf(r) : ref.kind = "ABSENCE_OF_CHANGE"
    ELSE Of(r).class = "BEHAVIORAL" /\ Of(r).text \notin Negative =>
           \E o \in ToSet(report.observations) : o.req = r /\ o.kind = "CODE"

\* Evidence that was empty, cut short or did not fit the catalog never carries
\* an ACCEPT, although the inspector called the requirement VERIFIED.
UnavailableIsNotAccepted == Accepted => unavailable_requirement_ids(report) = {}

\* A defect a specialist called BLOCKING is never lost: not when its report is
\* discarded for a wrong stage, a repeated id or a range that was not supplied.
NoBlockerIsDropped ==
  Accepted => \A s \in Stage : \A f \in ToSet(answers[s].findings) : f.severity # "BLOCKING"

\* Every changed file that has a section in the diff was put before a
\* specialist that completed.
ChangesReachSpecialists ==
  Accepted => \A f \in changed \ NoSection :
    \E s \in Stage : f \in clusters_for_stage(s) /\ stages[s].status = "COMPLETED"

\* Nothing that was read is left out: every requirement in the characters read
\* is in the contract, and an ACCEPT comes after every change with a section of
\* the diff had its specialist.
NothingIsLeftOut == ContractIsComplete /\ ChangesReachSpecialists

\* An ACCEPT is earned for each requirement: it is judged once, on facts the
\* tools returned, of the kind this requirement asks for.
AcceptIsEarned == AcceptCoversContract /\ AcceptRestsOnFacts /\ AcceptHasTheRightProof

\* Missing evidence and reported defects prevent an ACCEPT, although the
\* artifact that carries them is replaced or discarded on the way.
DoubtsPreventAcceptance == UnavailableIsNotAccepted /\ NoBlockerIsDropped

\* _read_covers_range: "Grounding on the path alone would let an observation
\* about lines 30-40 rest on a read of lines 10-20, which is the authority
\* violation the guard exists to prevent."
ObservedLinesWereRead ==
  Accepted => \A o \in ToSet(report.observations) :
    o.kind = "CODE" /\ o.path \notin changed =>
      \E id \in ToSet(ledger) : ReadOf[id].path = o.path /\ read_covers_range(id, o)

\* "any textual diff to that named code" contradicts a requirement that it
\* remain unchanged (FINALIZER_SYSTEM_PROMPT).
UnchangedMeansUnchanged ==
  Accepted => \A r \in Ids :
    Of(r).text \in Negative \ Outcome => \A t \in Targets[Of(r).text] \cap Scope :
      ~scope_contains_change(t)

\* The steps a review can still take before it returns or raises.
StepsLeft ==
  LET phase == CASE pc = "inspect" -> 4 [] pc = "implementation" -> 3 [] pc = "tests" -> 2
                 [] pc = "finalize" -> 1 [] pc = "done" -> 0
  IN  IF pc = "inspect" THEN phase + (2 - attempt) * (MaxCalls + 1) + MaxCalls - calls
      ELSE phase

\* A review ends: every step, a failing one included, brings it closer to its
\* return; the correction round is not repeated, and running out of calls does
\* not start another.  (No state before the return is without a step: TLC
\* checks this run for deadlock.)
ReviewAdvances == [][StepsLeft' < StepsLeft]_vars
=============================================================================
