---------------------------- MODULE MCExecutionReview ----------------------------
(***************************************************************************)
(* An instance of ExecutionReview: an implementation file "a", its test    *)
(* "t", a long file "b" and a renamed file "m" may have changed; "u" in the*)
(* directory "lib" never does.  The artifacts are those a model is asked   *)
(* for, and each of the ways it gets them wrong that the guard looks for.  *)
(***************************************************************************)
EXTENDS ExecutionReview

MCFile == {"a", "b", "t", "m", "u"}
MCDir == {"lib"}
MCWithin == {<<f, f>> : f \in MCFile} \cup {<<"lib", "lib">>, <<"u", "lib">>}
MCNameOf == [f \in MCFile |-> f \o ".py"]
MCRole == [a |-> "IMPLEMENTATION", b |-> "IMPLEMENTATION", t |-> "TEST_VALIDATION", m |-> "BOTH", u |-> "BOTH"]
MCReadOf == [u12 |-> [path |-> "u", lines |-> <<1, 2>>, empty |-> FALSE],
             u99 |-> [path |-> "u", lines |-> <<9, 9>>, empty |-> TRUE],
             env |-> [path |-> ".env", lines |-> <<1, 1>>, empty |-> FALSE]]

MCLiteral == {"works", "keep lib", "keep a", "keep u.py", "verify", "suite passes unchanged", "aside",
              "suite", ""}
MCTextClass == ("works" :> "BEHAVIORAL") @@ ("keep lib" :> "STRUCTURAL")
            @@ ("keep a" :> "STRUCTURAL") @@ ("keep u.py" :> "BEHAVIORAL")
            @@ ("verify" :> "VERIFY") @@ ("suite passes unchanged" :> "BEHAVIORAL")
            @@ ("aside" :> "STRUCTURAL") @@ ("suite" :> "VERIFY") @@ ("" :> "BEHAVIORAL")
MCNegative == {"keep lib", "keep a", "keep u.py", "suite passes unchanged"}
MCOutcome == {"suite passes unchanged"}
MCTargets == ("keep lib" :> {"lib"}) @@ ("keep a" :> {"a"}) @@ ("keep u.py" :> {"u.py"})
          @@ [x \in {"works", "verify", "suite passes unchanged", "aside", "suite", ""} |-> {}]

Item(text, material, validation) ==
  [text |-> text, material |-> material, validation |-> validation]
Cut(whole, items, fits, broken) ==
  [whole |-> whole, items |-> items, fits |-> fits, broken |-> broken]
Doc(whole, items) == Cut(whole, items, Len(items), <<>>)
Case(source, plan) == [source |-> source, plan |-> plan]

MCInputs ==
  {Case(Doc("works", <<Item("works", TRUE, FALSE), Item("aside", FALSE, FALSE)>>),
        Doc("verify", <<Item("works", TRUE, FALSE), Item("verify", TRUE, TRUE)>>)),
   Case(Doc("keep lib", <<Item("keep lib", TRUE, FALSE), Item("keep u.py", TRUE, FALSE),
                          Item("works", TRUE, FALSE)>>), Doc("", <<>>)),
   Case(Doc("suite passes unchanged", <<>>), Doc("keep a", <<>>)),
   Case(Doc("works", <<Item("works", TRUE, FALSE), Item("works", TRUE, FALSE),
                       Item("keep lib", TRUE, FALSE)>>),
        Doc("works", <<Item("works", TRUE, FALSE)>>)),
   Case(Cut("works", <<Item("works", TRUE, FALSE), Item("keep lib", TRUE, FALSE)>>, 1, <<>>),
        Doc("", <<>>)),
   Case(Cut("suite", <<Item("suite passes unchanged", TRUE, FALSE)>>, 0,
            <<Item("suite", TRUE, FALSE)>>),
        Cut("", <<Item("works", TRUE, FALSE)>>, 0, <<>>)),
   Case(Doc("", <<>>), Doc("", <<>>))}
MCChangeSets == {{"a", "t"}, {"a", "m"}, {"a", "b", "t"}}

Observation(i, r, kind, path, range) ==
  [id |-> <<"o1", "o2">>[i], req |-> r.id, kind |-> kind, path |-> path, range |-> range,
   signal |-> FALSE]
Cite(r, kind, source, path, range) == Ref(kind, r.id, source, path, range)
Entry(r, status, refs, observations) ==
  [inspection |-> [req |-> r.id, status |-> status, refs |-> refs],
   observations |-> observations]

\* What an inspector returns for requirement i when it does its work.
Proper(i, r) ==
  CASE r.class = "VALIDATION" ->
         Entry(r, "VERIFIED", <<Cite(r, "EXECUTION", <<"execution", "e1">>, "", <<>>)>>, <<>>)
    [] r.text \in MCNegative \ MCOutcome ->
         Entry(r, "VERIFIED", <<Cite(r, "ABSENCE_OF_CHANGE", <<>>, "lib", <<>>)>>, <<>>)
    [] OTHER -> Entry(r, "VERIFIED", <<>>, <<Observation(i, r, "CODE", "a", <<1, 2>>)>>)

\* And when it does not, or when it read something else.
Improper(i, r) ==
  {Entry(r, "CONTRADICTED", <<>>, <<>>),
   Entry(r, "VERIFIED", <<>>, <<Observation(i, r, "CODE", "u", <<1, 2>>)>>),
   Entry(r, "VERIFIED", <<Cite(r, "INSPECTED_FILE", <<>>, "u", <<1, 2>>)>>,
         <<Observation(i, r, "CODE", "u", <<3, 4>>)>>),
   Entry(r, "VERIFIED", <<>>, <<Observation(i, r, "CODE", "u", <<9, 9>>)>>),
   Entry(r, "VERIFIED", <<Cite(r, "EXECUTION", <<"execution", "e9">>, "", <<>>)>>,
         <<Observation(i, r, "TEST", "t", <<>>)>>),
   Entry(r, "VERIFIED", <<Cite(r, "INSPECTOR_OBSERVATION", <<"observation", "o1">>, "", <<>>)>>,
         <<Observation(i, r, "EXECUTION", "", <<>>)>>),
   Entry(r, "VERIFIED", <<Cite(r, "ABSENCE_OF_CHANGE", <<>>, "a", <<>>),
                          Cite(r, "TRUSTED_DIFF", <<>>, "", <<2, 1>>)>>, <<>>)}
    \cup {Entry(r, "VERIFIED", <<Cite(r, "TRUSTED_DIFF", <<>>, f, <<>>)>>,
                <<Observation(i, r, "CODE", "a", <<1, 2>>)>>) : f \in {"b", "m"}}

Report(entries) ==
  [inspections |-> [i \in DOMAIN entries |-> entries[i].inspection],
   observations |-> FlattenSeq([i \in DOMAIN entries |-> entries[i].observations])]
ProperEntries(C) == [i \in DOMAIN C |-> Proper(i, C[i])]
Stray == [id |-> <<"stray", 1>>, text |-> "", class |-> "STRUCTURAL"]

MCReports(C) ==
  LET good == ProperEntries(C) IN
  {Report(good), Report(Tail(good)), Report(good \o <<good[1]>>), EmptyReport,
   Report(good \o <<Entry(Stray, "UNVERIFIED", <<>>, <<>>)>>)}
    \cup UNION {{Report([good EXCEPT ![i] = e]) : e \in Improper(i, C[i])} : i \in DOMAIN C}

Finding(id, severity, clusters, matches) ==
  [id |-> id, severity |-> severity, clusters |-> clusters,
   provenance |-> {[cluster |-> c, matches |-> matches] : c \in ToSet(clusters)}]
Answer(stage, findings) == [stage |-> stage, findings |-> findings]

MCResponses(stage) ==
  IF stage = "IMPLEMENTATION"
  THEN {Answer(stage, <<>>), Answer(stage, <<Finding("f1", "WARNING", <<"a">>, TRUE)>>),
        Answer(stage, <<Finding("f1", "BLOCKING", <<"a">>, TRUE)>>),
        Answer(stage, <<Finding("f2", "BLOCKING", <<"a">>, FALSE)>>),
        Answer("TEST_VALIDATION", <<Finding("f2", "BLOCKING", <<"a">>, TRUE)>>)}
  ELSE {Answer(stage, <<Finding("f1", "WARNING", <<"t", "a">>, TRUE)>>),
        Answer(stage, <<Finding("f3", "BLOCKING", <<"a">>, TRUE)>>),
        Answer(stage, <<Finding("f3", "BLOCKING", <<"t">>, TRUE),
                        Finding("f3", "WARNING", <<"t">>, TRUE)>>)}

Check(r, status, refs, repairability) ==
  [req |-> r.id, status |-> status, refs |-> refs, repairability |-> repairability]
Verdict(verdict, checks, instructions) ==
  [verdict |-> verdict, checks |-> checks, instructions |-> instructions]
AllSatisfied(C) == [i \in DOMAIN C |-> Check(C[i], "SATISFIED", <<>>, "NOT_APPLICABLE")]

MCVerdicts(C) ==
  LET good == AllSatisfied(C)
      fix(r) == Check(r, "UNSATISFIED", <<>>, "IN_SCOPE_REPAIR")
      refs(r) == {<<Cite(r, "ABSENCE_OF_CHANGE", <<>>, "lib", <<>>)>>,
                  <<Cite(r, "INSPECTED_FILE", <<"read", "u12">>, "u", <<1, 2>>)>>,
                  <<Cite(r, "INSPECTED_FILE", <<>>, "u", <<1, 2>>)>>}
  IN  {Verdict("ACCEPT", good, FALSE), Verdict("ACCEPT", Tail(good), FALSE),
       Verdict("ACCEPT", good \o <<good[1]>>, FALSE),
       Verdict("ACCEPT", [good EXCEPT ![1] = fix(C[1])], FALSE),
       Verdict("BLOCKED", [good EXCEPT ![1] = fix(C[1])], TRUE),
       Verdict("NEEDS_FIXES", [good EXCEPT ![1] = fix(C[1])], TRUE)}
        \cup {Verdict("ACCEPT", [good EXCEPT ![1] = Check(C[1], "SATISFIED", x, "NOT_APPLICABLE")],
                      FALSE) : x \in refs(C[1])}
=============================================================================
