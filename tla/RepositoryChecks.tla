--------------------------- MODULE RepositoryChecks --------------------------
(***************************************************************************)
(* The checks that may not be able to run where they are run: DocsLinks,   *)
(* Accessibility, Commits, BranchProtection and PackedConsumer.  Each      *)
(* operator takes what the check's script sees of the repository and gives *)
(* the report that Exceptions goes on with.  What BranchProtection sees,   *)
(* the rulesets, init may have put there.                                  *)
(***************************************************************************)
EXTENDS ToolReports

CONSTANTS
  PRE_ADOPTION_THRESHOLD,  \* how many bad commits are history, not a mistake
  Repositories             \* the rulesets a repository may have

ASSUME ThresholdAssumption == PRE_ADOPTION_THRESHOLD \in Nat \ {0}

-----------------------------------------------------------------------------
(* DocsLinks.                                                              *)

Link == [url : Ids, external : BOOLEAN, status : {"ok", "limited", "gone"}, onDisk : BOOLEAN]

\* A local link that is there on disk is fine whatever was said of it, and a host
\* that says "slow down" says nothing of the page.
docsLinks(crawled, links) ==
  LET broken == {l \in links : l.status # "ok" /\ ~l.onDisk}
      rateLimited == {l.url : l \in {b \in broken : b.external /\ b.status = "limited"}}
      urls == {l.url : l \in {b \in broken : b.external}} \ rateLimited
  IN IF ~crawled \/ \E l \in broken : ~l.external THEN Kind("fail")
     ELSE IF urls = {} THEN Kind("pass")
     ELSE Degraded(urls)

-----------------------------------------------------------------------------
(* Accessibility.                                                          *)

\* What a runner says of a page; undecided: it could not tell, or is known to be
\* wrong about what the page's generator writes.
Issue == [type : {"error", "warning", "notice"}, undecided : BOOLEAN]

\* There is no browser, or no page to open in it.  pages: the issues of each page;
\* opened: no page was broken off, and docs/api has a landing page.
accessibility(chrome, pages, opened) ==
  LET decided == {i \in UNION pages : ~i.undecided}
      Some(type) == \E i \in decided : i.type = type
  IN IF ~chrome THEN Degraded({ThisReason})
     ELSE IF ~opened THEN Kind("fail")
     ELSE IF pages = {} THEN Degraded({ThatReason})
     ELSE IF Some("error") THEN Kind("fail")
     ELSE IF Some("warning") THEN Kind("warn")
     ELSE Kind("pass")

-----------------------------------------------------------------------------
(* Commits: there is no base, or the branch is older than the standard.    *)

commits(resolved, failingCommits) ==
  IF ~resolved THEN Degraded({ThisReason})
  ELSE IF failingCommits >= PRE_ADOPTION_THRESHOLD THEN Degraded({ThatReason})
  ELSE IF failingCommits > 0 THEN Kind("fail")
  ELSE Kind("pass")

-----------------------------------------------------------------------------
(* BranchProtection.  The rules of a ruleset, with the two settings that   *)
(* make one of them worth having and the one that only init sets.          *)

REQUIRED_RULE_TYPES == {"deletion", "non_fast_forward", "pull_request", "required_status_checks"}
RuleOf == [setting \in {"threads", "contract", "strict"} |->
             IF setting = "threads" THEN "pull_request" ELSE "required_status_checks"]
Rules == {rules \in SUBSET (REQUIRED_RULE_TYPES \cup DOMAIN RuleOf) :
            \A setting \in rules \cap DOMAIN RuleOf : RuleOf[setting] \in rules}

\* covers: it is about branches, and the default one is among them; readable: gh
\* prints it.
Ruleset == [active : BOOLEAN, covers : BOOLEAN, readable : BOOLEAN, rules : Rules]

ASSUME RulesetsAssumption == Repositories \subseteq Seq(Ruleset)

VARIABLES
  rulesets,  \* of the repository on GitHub
  said       \* what init said it did to them, "" when it was not run since

githubVars == <<rulesets, said>>

RulesetsTypeOK == rulesets \in Seq(Ruleset) /\ said \in {"", "done", "already", "skipped"}

\* What the check reads, of all that are in force.
enforced(seen) ==
  UNION {r.rules : r \in {s \in ToSet(seen) : s.active /\ s.covers /\ s.readable}}

branchProtection(asked, seen) ==
  IF ~asked THEN Degraded({ThisReason})
  ELSE IF ~(REQUIRED_RULE_TYPES \cup {"threads", "contract"} \subseteq enforced(seen)) THEN Kind("fail")
  ELSE Kind("pass")

\* Fault: a rule that is there is left as it is.
mergeRequiredRules_AddsOnly(existing) ==
  existing \cup REQUIRED_RULE_TYPES \cup {s \in DOMAIN RuleOf : RuleOf[s] \notin existing}

\* What is missing is added, and what is there is tightened.
mergeRequiredRules(existing) == existing \cup REQUIRED_RULE_TYPES \cup DOMAIN RuleOf

\* init: the first ruleset it can read that covers the default branch is completed
\* and put in force; if there is none, one is made.
upsertBranchProtection(seen) ==
  LET covering == {i \in DOMAIN seen : seen[i].covers /\ seen[i].readable}
      Protects(rules) == [active |-> TRUE, covers |-> TRUE, readable |-> TRUE,
                          rules |-> mergeRequiredRules(rules)]
  IN IF covering = {}
       THEN Append(seen, Protects({}))
       ELSE [seen EXCEPT ![Min(covering)] = Protects(@.rules)]

\* A ruleset that is as it should be is not written again.  Without gh, without a
\* remote on GitHub, when GitHub does not answer or refuses the write, and with
\* --no-github, init skips this and succeeds.
InitRuns ==
  \/ /\ said' = "skipped" /\ UNCHANGED rulesets
  \/ /\ rulesets' = upsertBranchProtection(rulesets)
     /\ said' = IF rulesets' = rulesets THEN "already" ELSE "done"

\* Someone takes a ruleset out of force, in GitHub's settings.
RulesetDisabled ==
  /\ \E i \in DOMAIN rulesets : rulesets' = [rulesets EXCEPT ![i].active = FALSE]
  /\ said' = ""

-----------------------------------------------------------------------------
(* PackedConsumer: the packed package, installed into an empty project.    *)

\* entries: what happens to each entry point that is tried; missing: the files
\* package.json promises and the tarball does not hold.
Packed == [private : BOOLEAN, tarball : BOOLEAN, installs : BOOLEAN, missing : SUBSET Ids,
           entries : UNION {[e -> {"imports", "peer", "broken"}] : e \in SUBSET Ids}]

\* A peer dependency that is not installed is the consumer's to install.
problems(p) == p.missing \cup {e \in DOMAIN p.entries : p.entries[e] = "broken"}

packedState(p) ==
  IF p.private THEN "exempt"
  ELSE IF p.entries = <<>> THEN "none"
  ELSE IF ~p.tarball THEN "problem"
  ELSE IF ~p.installs THEN "install-failed"
  ELSE IF problems(p) = {} THEN "verified"
  ELSE "problem"

\* What cannot be installed was not tried, whatever it was missing.
packedConsumer(p) ==
  CASE packedState(p) = "install-failed" -> Degraded({ThisReason})
    [] packedState(p) = "problem"        -> Kind("fail")
    [] OTHER                             -> Kind("pass")

=============================================================================
