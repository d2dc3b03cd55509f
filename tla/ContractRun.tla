----------------------------- MODULE ContractRun -----------------------------
(***************************************************************************)
(* The run loop of the contract (scripts/contract-run.mjs and the modules  *)
(* it calls): the checks are selected, run in two phases by the engine,    *)
(* the working tree is cleaned, the adoption file is read, the report is   *)
(* built from the outcomes and written, and the exit code is set.          *)
(*                                                                         *)
(* Checks of a phase end in any order.  The process may be killed between  *)
(* any two steps, and a person may promote a check, or a day may pass,     *)
(* while a run is going.  The engine (repo-contract's runRepoContract) is  *)
(* external: it runs the checks it is given and those they depend on, and  *)
(* its verdict passes when no outcome of the phase is "fail".              *)
(***************************************************************************)
EXTENDS Adoption, FiniteSets

CONSTANTS
  SocketCheck, Always, Documentation, Workflows,   \* see CheckSelection
  DependsOn,      \* the `dependsOn` of each check
  Outcomes,       \* the outcomes each check may have
  Writes,         \* what each check may leave on disk
  Workspaces      \* the working trees a person may leave between runs

VARIABLES
  pc,             \* where the process is
  strict,         \* whether the run is strict (--strict, or CI)
  selected,       \* the ids of the run (all of them when it names none)
  pending,        \* checks of the current phase still running
  deferred,       \* {} or {SocketCheck}: what the second phase will run
  results,        \* the outcome of each check
  skipped,        \* the deferred check, when the first phase did not pass
  disk,           \* the parts of the working tree a run writes and cleans
  before,         \* `disk` when the run began; `created` is computed from it
  verdict,        \* the report in memory, with the adoption it was built from
  exitCode        \* how the last process ended

runVars == <<pc, strict, selected, pending, deferred, results,
             skipped, disk, before, verdict, exitCode>>
vars == <<adoptionVars, runVars>>

INSTANCE CheckSelection

Class == {"pass", "warn", "not-evaluated", "unexcepted", "fail"}
Artifact == {"coverage", "tools", "evidence", "stryker"}

\* coverage/, reports/, the mutation evidence in it, anything else in it but
\* reports/contract, and .stryker-tmp
Disk == {d \in [coverage : BOOLEAN, reports : BOOLEAN, tools : BOOLEAN,
                evidence : BOOLEAN, stryker : BOOLEAN] : d.tools \/ d.evidence => d.reports}
Bare == [coverage |-> FALSE, reports |-> FALSE, tools |-> FALSE,
         evidence |-> FALSE, stryker |-> FALSE]

Verdict == [passed : BOOLEAN, failing : SUBSET Checks, advisory : SUBSET Checks,
            unexcepted : SUBSET Checks, strict : BOOLEAN,
            file : File, day : Nat]
NoVerdict == [passed |-> FALSE, failing |-> {}, advisory |-> {},
              unexcepted |-> {}, strict |-> FALSE, file |-> Absent, day |-> 0]

NoResults == [c \in Checks |-> "none"]

ASSUME RunAssumption ==
  /\ IsFiniteSet(Checks)
  /\ SocketCheck \in Checks /\ SocketCheck # AdoptionCheck
  /\ DependsOn \in [Checks -> SUBSET Checks]
  /\ \A c \in Checks : SocketCheck \notin DependsOn[c]
  /\ Outcomes \in [Checks -> SUBSET Class]
  /\ Writes \in [Checks -> SUBSET Artifact]
  /\ Workspaces \subseteq Disk

-----------------------------------------------------------------------------
\* External: the engine adds the checks the given ones depend on.
WithDependencies(ids) ==
  LET once == ids \cup UNION {DependsOn[c] : c \in ids}
  IN once \cup UNION {DependsOn[c] : c \in once}

-----------------------------------------------------------------------------
With(class) == {c \in Checks : results[c] = class}

\* External: the engine's `verdict.passed`.
PhasePassed == With("fail") = {}

\* Fault: the sandbox of an interrupted mutation run is left behind.
CleanUp_KeepsSandbox(d) ==
  [d EXCEPT !.coverage = @ /\ before.coverage,
            !.tools = @ /\ before.reports,
            !.evidence = @ /\ before.reports]

\* Fault: coverage/ is deleted whoever made it.
CleanUp_AnyCoverage(d) ==
  [d EXCEPT !.stryker = FALSE,
            !.coverage = FALSE,
            !.tools = @ /\ before.reports,
            !.evidence = @ /\ before.reports]

\* cleanUp: the Stryker sandbox always; coverage/ and the contents of reports/
\* (but reports/contract) only when the directory did not exist before the run.
CleanUp(d) ==
  [d EXCEPT !.stryker = FALSE,
            !.coverage = @ /\ before.coverage,
            !.tools = @ /\ before.reports,
            !.evidence = @ /\ before.reports]

\* Fault: one failure that is only advisory forgives the others.
buildReport_OneForgivesAll ==
  LET failing    == With("fail")
      unexcepted == With("unexcepted")
      advisory   == advisoryFailures(failing, adoption, today)
      strictNow  == strict /\ readAdoption(adoption, today) # "active"
      failed     == \/ failing # {} /\ advisory = {}
                    \/ strictNow /\ unexcepted # {}
  IN [passed |-> ~failed, failing |-> failing, advisory |-> advisory,
      unexcepted |-> unexcepted, strict |-> strictNow,
      file |-> adoption, day |-> today]

\* buildReport, on what runContract hands it after it read the adoption file.
buildReport ==
  LET failing    == With("fail")
      unexcepted == With("unexcepted")
      advisory   == advisoryFailures(failing, adoption, today)
      strictNow  == strict /\ readAdoption(adoption, today) # "active"
      failed     == \/ Cardinality(failing) > Cardinality(advisory)
                    \/ strictNow /\ unexcepted # {}
  IN [passed |-> ~failed, failing |-> failing, advisory |-> advisory,
      unexcepted |-> unexcepted, strict |-> strictNow,
      file |-> adoption, day |-> today]

RunInit ==
  /\ pc = "idle"
  /\ strict = FALSE
  /\ selected = {}
  /\ pending = {} /\ deferred = {} /\ skipped = {}
  /\ results = NoResults
  /\ disk \in Workspaces
  /\ before = Bare
  /\ verdict = NoVerdict
  /\ exitCode = "none"

Init == AdoptionInit /\ RunInit

\* Everything the process held in memory goes with it.
ProcessEnds(code) ==
  /\ pc' = "idle"
  /\ exitCode' = code
  /\ strict' = FALSE
  /\ selected' = {}
  /\ pending' = {} /\ deferred' = {} /\ skipped' = {}
  /\ results' = NoResults
  /\ before' = Bare
  /\ verdict' = NoVerdict

-----------------------------------------------------------------------------
(* The steps of a run.                                                     *)

\* A run begins with the checks asked for (all of them when none is named),
\* narrowed under --changed to what the changed kinds of file can affect.  The
\* two phases are planned and the first is started.
Begin ==
  /\ pc = "idle"
  /\ \E asked \in SUBSET Checks, kinds \in SUBSET FileKind :
       \E ids \in {asked, asked \cap selectChanged(kinds)} :
         LET plan == planPhases(ids)
         IN /\ selected' = ids
            /\ pending' = WithDependencies(plan.first)
            /\ deferred' = plan.deferred
  /\ pc' = "phaseOne"
  /\ strict' \in BOOLEAN
  /\ before' = disk
  /\ disk' = [disk EXCEPT !.reports = TRUE]    \* writeScope
  /\ exitCode' = "none"
  /\ UNCHANGED <<adoptionVars, results, skipped, verdict>>

\* An unknown check or option, or a benchmark page that does not build: the
\* process fails before anything of the run exists.
Refuse ==
  /\ pc = "idle"
  /\ exitCode' = "1"
  /\ UNCHANGED <<adoptionVars, pc, strict, selected, pending,
                 deferred, results, skipped, disk, before, verdict>>

\* One check ends and its policy returns.  AdoptionMode reads the file as it is
\* at that moment (or fails, when its script does).  A check adds to the tree what
\* its tool writes; the Mutation check also removes: the evidence, before it is
\* made anew and when it cannot be, and the sandbox of its own run.
CheckEnds(c) ==
  /\ c \in pending
  /\ \E class \in IF c = AdoptionCheck
                  THEN {"fail", adoptionOutcome(readAdoption(adoption, today))}
                  ELSE Outcomes[c] :
       results' = [results EXCEPT ![c] = class]
  /\ \E left \in SUBSET Writes[c], gone \in SUBSET (Writes[c] \cap {"evidence", "stryker"}) :
       disk' = [disk EXCEPT !.coverage = @ \/ "coverage" \in left,
                            !.tools = @ \/ "tools" \in left,
                            !.evidence = (@ /\ "evidence" \notin gone) \/ "evidence" \in left,
                            !.reports = @ \/ left \cap {"tools", "evidence"} # {},
                            !.stryker = (@ /\ "stryker" \notin gone) \/ "stryker" \in left]
  /\ pending' = pending \ {c}
  /\ UNCHANGED <<adoptionVars, pc, strict, selected, deferred,
                 skipped, before, verdict, exitCode>>

\* Fault: the deferred check is dropped whether or not the phase passed.
EndPhaseOne_DropsSocket ==
  /\ pc = "phaseOne" /\ pending = {}
  /\ pc' = "cleaning"
  /\ skipped' = deferred
  /\ UNCHANGED <<adoptionVars, strict, selected, pending, deferred, results,
                 disk, before, verdict, exitCode>>

\* Fault: the deferred check runs whether or not the phase passed.
EndPhaseOne_RunsSocket ==
  /\ pc = "phaseOne" /\ pending = {}
  /\ pc' = IF deferred # {} THEN "phaseTwo" ELSE "cleaning"
  /\ pending' = deferred
  /\ UNCHANGED <<adoptionVars, strict, selected, deferred, results, skipped,
                 disk, before, verdict, exitCode>>

\* Fault: a failed phase is waited for instead of skipped past.
EndPhaseOne_WaitsForPass ==
  /\ pc = "phaseOne" /\ pending = {} /\ PhasePassed
  /\ pc' = IF deferred # {} THEN "phaseTwo" ELSE "cleaning"
  /\ pending' = deferred
  /\ UNCHANGED <<adoptionVars, strict, selected, deferred, results, skipped,
                 disk, before, verdict, exitCode>>

\* The first phase is over: Socket runs now, is skipped, or was not asked for.
EndPhaseOne ==
  /\ pc = "phaseOne" /\ pending = {}
  /\ IF deferred # {} /\ PhasePassed
     THEN /\ pc' = "phaseTwo"
          /\ pending' = deferred
          /\ UNCHANGED skipped
     ELSE /\ pc' = "cleaning"
          /\ skipped' = deferred
          /\ UNCHANGED pending
  /\ UNCHANGED <<adoptionVars, strict, selected, deferred, results,
                 disk, before, verdict, exitCode>>

EndPhaseTwo ==
  /\ pc = "phaseTwo" /\ pending = {}
  /\ pc' = "cleaning"
  /\ UNCHANGED <<adoptionVars, strict, selected, pending, deferred,
                 results, skipped, disk, before, verdict, exitCode>>

\* The `finally` of the run, after the phases.
Clean ==
  /\ pc = "cleaning"
  /\ pc' = "judging"
  /\ disk' = CleanUp(disk)
  /\ UNCHANGED <<adoptionVars, strict, selected, pending, deferred,
                 results, skipped, before, verdict, exitCode>>

\* The engine throws: the tree is cleaned, nothing is reported.
EngineThrows ==
  /\ pc \in {"phaseOne", "phaseTwo"}
  /\ disk' = CleanUp(disk)
  /\ ProcessEnds("1")
  /\ UNCHANGED adoptionVars

\* The adoption file is read only now, and the report is built.
Judge ==
  /\ pc = "judging"
  /\ pc' = "reporting"
  /\ verdict' = buildReport
  /\ UNCHANGED <<adoptionVars, strict, selected, pending, deferred,
                 results, skipped, disk, before, exitCode>>

\* The report files, which hold the verdict and which no run reads back, are
\* written and the exit code is set.
Report ==
  /\ pc = "reporting"
  /\ ProcessEnds(IF verdict.passed THEN "0" ELSE "1")
  /\ UNCHANGED <<adoptionVars, disk>>

\* The process is killed (a job's time limit, Ctrl-C): no `finally` runs.
Kill ==
  /\ pc # "idle"
  /\ ProcessEnds("1")
  /\ UNCHANGED <<adoptionVars, disk>>

\* Between runs a person creates or deletes what the run also writes.
PersonWorks ==
  /\ pc = "idle"
  /\ disk' \in Workspaces
  /\ UNCHANGED <<adoptionVars, pc, strict, selected, pending,
                 deferred, results, skipped, before, verdict, exitCode>>

RunStep ==
  \/ \E c \in Checks : CheckEnds(c)
  \/ EndPhaseOne \/ EndPhaseTwo \/ Clean \/ Judge \/ Report

Next ==
  \/ Begin \/ Refuse
  \/ RunStep
  \/ EngineThrows \/ Kill
  \/ PersonWorks
  \/ AdoptionNext /\ UNCHANGED runVars

\* Checks end (the engine gives each a time limit) and the process runs on;
\* nothing is assumed of people, of the clock or of a kill.
Spec == Init /\ [][Next]_vars /\ WF_vars(RunStep)

-----------------------------------------------------------------------------
(* Properties.                                                             *)

TypeOK ==
  /\ AdoptionTypeOK
  /\ pc \in {"idle", "phaseOne", "phaseTwo", "cleaning", "judging", "reporting"}
  /\ strict \in BOOLEAN
  /\ selected \in SUBSET Checks
  /\ pending \in SUBSET Checks
  /\ deferred \in SUBSET {SocketCheck} /\ skipped \in SUBSET {SocketCheck}
  /\ results \in [Checks -> Class \cup {"none"}]
  /\ disk \in Disk /\ before \in Disk
  /\ verdict \in Verdict
  /\ exitCode \in {"none", "0", "1"}

\* The run's verdict, which runContract reaches by counting failures and
\* advisory failures, is the one adoption mode describes: it passes exactly
\* when every failing check is unpromoted, is not AdoptionMode, and fails under
\* a file active on the day it was read, and no result of a strict run that
\* does not adopt was left unevaluated without an exception.
VerdictIsExact ==
  pc = "reporting" =>
    LET adopting == readAdoption(verdict.file, verdict.day) = "active"
    IN verdict.passed <=>
         /\ \A c \in Checks : results[c] = "fail" =>
              adopting /\ c \notin verdict.file.enforce /\ c # AdoptionCheck
         /\ strict /\ ~adopting => \A c \in Checks : results[c] # "unexcepted"

\* A package that is not adopting passes only a run in which every check it
\* selected really ran, Socket included, and none failed: no check is lost
\* between selection, the two phases and the report.
PassMeansAllRan ==
  pc = "reporting" /\ verdict.passed
    /\ readAdoption(verdict.file, verdict.day) # "active" =>
      \A c \in selected : results[c] \notin {"none", "fail"}

\* The Socket scan, which spends API quota, "must never run for a change that
\* is already failing something cheaper": when it ends, every other check of
\* the run had ended before it and none had failed.
SocketComesLast ==
  [][results'[SocketCheck] \notin {"none", results[SocketCheck]} =>
       \A c \in WithDependencies(selected) \ {SocketCheck} :
         results[c] \notin {"none", "fail"}]_vars

\* No step of a run, whichever way it ends, deletes a coverage/ directory or
\* tool reports that were in the working tree when it began; the evidence of an
\* earlier mutation run goes only by the check that writes it.
Survives ==
  /\ before.coverage => disk'.coverage
  /\ before.tools => disk'.tools
  /\ before.evidence /\ disk.evidence /\ ~disk'.evidence =>
       \E c \in pending \ pending' : "evidence" \in Writes[c]
PersonsFilesSurvive == [][pc # "idle" => Survives]_vars

\* Once a run has cleaned up, the sandbox is gone, coverage/ is there exactly
\* when it was before, a repository that had no reports/ is left only
\* reports/contract, and the directory of the contract's own record is there.
CleanedUp ==
  pc \in {"judging", "reporting"} =>
    /\ ~disk.stryker
    /\ disk.coverage = before.coverage
    /\ before.reports \/ ~(disk.tools \/ disk.evidence)
    /\ disk.reports

\* A run that has begun ends: no phase waits for a check that is not running.
RunEnds == (pc # "idle") ~> (pc = "idle")

\* The run implements the gate a reader of its exit code relies on.
Decision == IF pc # "reporting" THEN "open"
            ELSE IF verdict.passed THEN "pass" ELSE "fail"
Gate == INSTANCE ContractGate WITH found <- results, decision <- Decision
GateSpec == Gate!Spec

-----------------------------------------------------------------------------
(* What the repository says of the run and the code does not do.           *)

\* "Only the checks listed under `enforce` decide the exit code"
\* (scripts/adoption/mode.mjs:7): a run that passes has judged every promoted
\* check it selected.
PromotedDecides ==
  pc = "reporting" /\ verdict.passed
    /\ readAdoption(verdict.file, verdict.day) = "active" =>
      \A c \in selected \cap verdict.file.enforce : results[c] # "none"

=============================================================================
