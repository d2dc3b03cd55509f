---------------------------- MODULE MCRegistryRuns ---------------------------
(* RegistryRuns on two ids that may be found and a third, two days, three   *)
(* hours, two versions, three managed files and all short source files.     *)
EXTENDS RegistryRuns

MCFindable == {"a", "b"}
MCNewest == <<"a", "b">>

\* The records people write: complete, dated, without the newer fields, of the
\* older version, about something else, and without a method.
Full(c, id) ==
  [id |-> id, about |-> id, version |-> 2,
   texts |-> IF HasSecurityFields(c) THEN TextFields ELSE {"justification", "structured"},
   method |-> IF HasSecurityFields(c) THEN "independent-human-review" ELSE "",
   exceptionType |-> IF c = "SecuritySocket" THEN "required-for-package-to-exist"
                     ELSE IF c = "CodeScanning" THEN "dev-only-not-shipped"
                     ELSE IF HasSecurityFields(c) THEN "accepted-risk"
                     ELSE "",
   expires |-> 0]
Shapes(r) ==
  {r, [r EXCEPT !.expires = 1], [r EXCEPT !.texts = @ \ {"structured"}],
   [r EXCEPT !.texts = @ \ {"structured"}, !.version = 1],
   [r EXCEPT !.about = "c"], [r EXCEPT !.method = ""]}
MCPersonsRecords ==
  [c \in Checks |-> {Full(c, "a"), Full(c, "b")} \cup
     (IF c \in {"ManagedFiles", "SecuritySocket"} THEN {} ELSE Shapes(Full(c, "a")))]
MCAcceptances == Shapes(Full("environment", "a")) \cup {Full("environment", "b")}

MCMaxEdits == [c \in Checks |-> IF c = "ManagedFiles" THEN 3 ELSE 2]

\* Socket finds something an hour after it looked, and something worse later.
Low(id) == (id :> "low")
MCTimelines ==
  {<<<<Low("a"), Low("a"), "a" :> "middle">>, <<NothingFound, Low("b"), Low("b")>>>>,
   <<<<"a" :> "new kind", Low("a"), Low("a")>>, <<"b" :> "malformed", Low("b"), Low("b")>>>>,
   <<<<NothingFound, NothingFound, NothingFound>>, <<Low("a"), Low("a"), Low("a") @@ ("b" :> "high")>>>>}

MCAnchorOf ==
  [form \in Forms, text \in {"a", "b", "c", ""} |-> IF form.next /\ text # "" THEN text ELSE "c"]
Form(closing, blanket, next) == [closing |-> closing, blanket |-> blanket, next |-> next]
MCLines ==
  {Code("a"), Code("b"), Blank, Comment(1), Comment(2),
   Directive(Form(TRUE, FALSE, FALSE), "", "")}
    \cup {Directive(Form(FALSE, FALSE, TRUE), "", r) : r \in Reasons}
    \cup {Directive(Form(FALSE, FALSE, FALSE), text, r) : text \in {"", "a"}, r \in Reasons}
    \cup {Directive(Form(FALSE, TRUE, FALSE), "", r) : r \in {"", "a reason"}}
MCSourceFiles == UNION {[1 .. n -> MCLines] : n \in 0 .. 3}

AllRules == REQUIRED_RULE_TYPES \cup DOMAIN RuleOf
MCSomeRules ==
  {{}, {"pull_request"}, AllRules, AllRules \ {"deletion"}}
    \cup {AllRules \ {setting} : setting \in DOMAIN RuleOf}
MCRulesets == [active : BOOLEAN, covers : BOOLEAN, readable : BOOLEAN, rules : MCSomeRules]
MCSecond == {r \in MCRulesets : ~r.active /\ r.readable /\ r.rules = {"pull_request"}}
MCRepositories == {<<>>} \cup {<<r>> : r \in MCRulesets} \cup (MCRulesets \X MCSecond)

MCFiles == <<"a", "b", "c">>
MCKindOf == [f \in {"a", "b", "c"} |-> IF f = "a" THEN "workflow" ELSE "copy"]
MCRequires == [release \in 1 .. Releases |-> [f \in {"b", "c"} |-> IF f = "b" /\ release = 2 THEN {"c"} ELSE {}]]

=============================================================================
