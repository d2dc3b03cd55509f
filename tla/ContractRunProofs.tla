------------------------- MODULE ContractRunProofs -------------------------
(***************************************************************************)
(* What is proved of the contract's run, for every set of checks, every    *)
(* dependency between them, every outcome and every working tree; and of   *)
(* adoption mode, for every length of an adoption and every clock.         *)
(***************************************************************************)
EXTENDS ContractRun, FiniteSetTheorems, TLAPS

-----------------------------------------------------------------------------
(* Adoption mode.                                                          *)

\* What the proof asks of the files people write: a valid one has a real date,
\* no later than a new adoption of the first day would have.
HandWrittenEnds ==
  \A f \in HandWritten : f.kind = "valid" => f.dated /\ f.end <= Days

\* The end date of a valid file is within DEFAULT_DAYS of the adoption's start.
\* Promotion keeps both dates, which is what makes this inductive.
EndIsFixed ==
  adoption.kind = "valid" => adoption.dated /\ adoption.end <= begun + Days

\* Every step that leaves a well-typed state leaves it for another.
LEMMA AdoptionTypeStep ==
  ASSUME AdoptionTypeOK, [AdoptionNext]_adoptionVars
  PROVE  AdoptionTypeOK'
<1> USE AdoptionAssumption DEF AdoptionTypeOK, File
<1>1. CASE StartAdoption
  <2>1. newAdoption(today) \in File
    BY DEF newAdoption
  <2> QED BY <1>1, <2>1 DEF StartAdoption
<1>2. CASE PromoteAll
  BY <1>2 DEF PromoteAll, Absent
<1>3. CASE Promote
  BY <1>3 DEF Promote
<1>4. CASE HandEdit
  BY <1>4 DEF HandEdit
<1>5. CASE DayPasses
  BY <1>5 DEF DayPasses
<1>6. CASE UNCHANGED adoptionVars
  BY <1>6 DEF adoptionVars
<1> QED BY <1>1, <1>2, <1>3, <1>4, <1>5, <1>6 DEF AdoptionNext

LEMMA AdoptionTypeInit ==
  AdoptionInit => AdoptionTypeOK
BY AdoptionAssumption DEF AdoptionInit, AdoptionTypeOK, File, Absent

\* The adoption file always has the shape readAdoption knows, and the adoption
\* in force never began after the present day.
THEOREM AdoptionTypeCorrect == AdoptionSpec => []AdoptionTypeOK
<1>1. AdoptionInit => AdoptionTypeOK
  BY AdoptionTypeInit
<1>2. AdoptionTypeOK /\ [AdoptionNext]_adoptionVars => AdoptionTypeOK'
  BY AdoptionTypeStep
<1> QED BY <1>1, <1>2, PTL DEF AdoptionSpec

\* Promoting, as often as one likes, and editing by hand within the bounds of
\* HandWrittenEnds never moves the end of an adoption.
LEMMA EndIsFixedStep ==
  ASSUME HandWrittenEnds, AdoptionTypeOK, EndIsFixed, [AdoptionNext]_adoptionVars
  PROVE  EndIsFixed'
<1> USE AdoptionAssumption DEF AdoptionTypeOK, File, EndIsFixed
<1>1. CASE StartAdoption
  BY <1>1 DEF StartAdoption, newAdoption
<1>2. CASE PromoteAll
  BY <1>2 DEF PromoteAll, Absent
<1>3. CASE Promote
  BY <1>3 DEF Promote
<1>4. CASE HandEdit
  BY <1>4 DEF HandEdit, HandWrittenEnds
<1>5. CASE DayPasses
  BY <1>5 DEF DayPasses
<1>6. CASE UNCHANGED adoptionVars
  BY <1>6 DEF adoptionVars
<1> QED BY <1>1, <1>2, <1>3, <1>4, <1>5, <1>6 DEF AdoptionNext

\* As long as no one writes a file without a real end date, adopting cannot
\* become permanent: whatever is promoted meanwhile, the mode is over more than
\* DEFAULT_DAYS after the adoption was started.
THEOREM AdoptionEndsCorrect ==
  ASSUME HandWrittenEnds
  PROVE  AdoptionSpec => []AdoptionEnds
<1>1. AdoptionInit => EndIsFixed
  BY DEF AdoptionInit, EndIsFixed, Absent
<1>2. AdoptionTypeOK /\ EndIsFixed /\ [AdoptionNext]_adoptionVars => EndIsFixed'
  BY EndIsFixedStep
<1>3. AdoptionTypeOK /\ EndIsFixed => AdoptionEnds
  BY AdoptionAssumption
     DEF AdoptionTypeOK, File, EndIsFixed, AdoptionEnds, readAdoption
<1> QED BY <1>1, <1>2, <1>3, AdoptionTypeCorrect, PTL DEF AdoptionSpec

-----------------------------------------------------------------------------
(* The run.                                                                *)

\* The bookkeeping of the phases: where each check of the run is.
Phases ==
  /\ pending # {} => pc \in {"phaseOne", "phaseTwo"}
  /\ \A c \in pending : results[c] = "none"
  /\ pc = "idle" => results = NoResults /\ skipped = {}
  /\ pc = "phaseOne" =>
       /\ skipped = {}
       /\ \A c \in deferred : results[c] = "none" /\ c \notin pending
       /\ \A c \in selected : c \in pending \cup deferred \/ results[c] # "none"
  /\ pc = "phaseTwo" =>
       /\ skipped = {}
       /\ \A c \in selected : c \in pending \/ results[c] # "none"
  /\ pc \in {"cleaning", "judging", "reporting"} =>
       /\ pending = {}
       /\ skipped # {} => With("fail") # {}
       /\ \A c \in selected : c \in skipped \/ results[c] # "none"

\* Every step of the process and of those around it, one disjunct each.
LEMMA StepCases ==
  ASSUME [Next]_vars
  PROVE  \/ Begin \/ Refuse \/ (\E c \in Checks : CheckEnds(c))
         \/ EndPhaseOne \/ EndPhaseTwo \/ Clean \/ Judge \/ Report
         \/ EngineThrows \/ Kill \/ PersonWorks
         \/ [AdoptionNext]_adoptionVars /\ UNCHANGED runVars
BY DEF Next, RunStep, vars

\* The run only reads the adoption file, and only promote, init, a person and
\* the clock change what it reads.
LEMMA RunOrAdoption ==
  ASSUME [Next]_vars
  PROVE  \/ UNCHANGED adoptionVars
         \/ [AdoptionNext]_adoptionVars /\ UNCHANGED runVars
BY StepCases DEF Begin, Refuse, CheckEnds, EndPhaseOne, EndPhaseTwo, Clean,
   Judge, Report, EngineThrows, Kill, PersonWorks, ProcessEnds, adoptionVars

LEMMA DependenciesAreChecks ==
  ASSUME NEW ids \in SUBSET Checks
  PROVE  WithDependencies(ids) \in SUBSET Checks /\ ids \subseteq WithDependencies(ids)
<1> DEFINE once == ids \cup UNION {DependsOn[c] : c \in ids}
<1>1. once \in SUBSET Checks
  BY RunAssumption
<1>2. UNION {DependsOn[c] : c \in once} \in SUBSET Checks
  BY <1>1, RunAssumption
<1> QED BY <1>1, <1>2 DEF WithDependencies

LEMMA PlanOfChecks ==
  ASSUME NEW ids \in SUBSET Checks
  PROVE  /\ planPhases(ids).first \in SUBSET Checks
         /\ planPhases(ids).deferred \in SUBSET {SocketCheck}
         /\ ids \subseteq planPhases(ids).first \cup planPhases(ids).deferred
BY DEF planPhases

\* A run that ends, however it ends, leaves a process that holds nothing.
LEMMA EndedIsTyped ==
  ASSUME NEW code \in {"0", "1"}, ProcessEnds(code), AdoptionTypeOK', disk' \in Disk
  PROVE  TypeOK'
<1>1. NoVerdict \in Verdict
  BY DEF NoVerdict, Verdict, File, Absent
<1>2. Bare \in Disk
  BY DEF Bare, Disk
<1> QED BY <1>1, <1>2 DEF ProcessEnds, TypeOK, NoResults

LEMMA CleanUpTyped ==
  ASSUME NEW d \in Disk, before \in Disk
  PROVE  /\ CleanUp(d) \in Disk
         /\ CleanUp(d).stryker = FALSE
         /\ CleanUp(d).coverage = (d.coverage /\ before.coverage)
         /\ CleanUp(d).tools = (d.tools /\ before.reports)
         /\ CleanUp(d).evidence = (d.evidence /\ before.reports)
         /\ CleanUp(d).reports = d.reports
BY DEF CleanUp, Disk

\* What one check does to the tree: it adds, and of what was there it removes
\* the sandbox and, when it is a check that writes it, the mutation evidence.
LEMMA CheckWrites ==
  ASSUME disk \in Disk, NEW c \in Checks, CheckEnds(c)
  PROVE  /\ disk' \in Disk
         /\ disk.coverage => disk'.coverage
         /\ disk.tools => disk'.tools
         /\ disk.reports => disk'.reports
         /\ disk.evidence /\ ~disk'.evidence => "evidence" \in Writes[c]
<1>1. PICK left \in SUBSET Writes[c],
           gone \in SUBSET (Writes[c] \cap {"evidence", "stryker"}) :
        disk' = [disk EXCEPT
          !.coverage = @ \/ "coverage" \in left,
          !.tools = @ \/ "tools" \in left,
          !.evidence = (@ /\ "evidence" \notin gone) \/ "evidence" \in left,
          !.reports = @ \/ left \cap {"tools", "evidence"} # {},
          !.stryker = (@ /\ "stryker" \notin gone) \/ "stryker" \in left]
  BY DEF CheckEnds
<1> DEFINE c0 == disk.coverage \/ "coverage" \in left
           t0 == disk.tools \/ "tools" \in left
           e0 == (disk.evidence /\ "evidence" \notin gone) \/ "evidence" \in left
           r0 == disk.reports \/ left \cap {"tools", "evidence"} # {}
           s0 == (disk.stryker /\ "stryker" \notin gone) \/ "stryker" \in left
<1>2. disk' = [disk EXCEPT !.coverage = c0, !.tools = t0, !.evidence = e0,
                           !.reports = r0, !.stryker = s0]
  BY <1>1, Zenon
<1>3. /\ c0 \in BOOLEAN /\ t0 \in BOOLEAN /\ e0 \in BOOLEAN
      /\ r0 \in BOOLEAN /\ s0 \in BOOLEAN
  BY DEF Disk
<1>4. /\ t0 \/ e0 => r0
      /\ disk.coverage => c0
      /\ disk.tools => t0
      /\ disk.reports => r0
      /\ disk.evidence /\ ~e0 => "evidence" \in Writes[c]
  BY DEF Disk
<1> HIDE DEF c0, t0, e0, r0, s0
<1> QED BY <1>2, <1>3, <1>4 DEF Disk

LEMMA BuildReportTyped ==
  ASSUME TypeOK
  PROVE  buildReport \in Verdict
<1>1. With("fail") \in SUBSET Checks /\ With("unexcepted") \in SUBSET Checks
  BY DEF With
<1>2. advisoryFailures(With("fail"), adoption, today) \in SUBSET Checks
  BY <1>1 DEF advisoryFailures
<1>3. adoption \in File /\ today \in Nat /\ strict \in BOOLEAN
  BY AdoptionAssumption DEF TypeOK, AdoptionTypeOK
<1> HIDE DEF With
<1> DEFINE now == strict /\ readAdoption(adoption, today) # "active"
           failed == \/ Cardinality(With("fail"))
                          > Cardinality(advisoryFailures(With("fail"), adoption, today))
                     \/ now /\ With("unexcepted") # {}
<1>4. now \in BOOLEAN /\ (~failed) \in BOOLEAN
  OBVIOUS
<1> HIDE DEF now, failed
<1>5. [passed |-> ~failed, failing |-> With("fail"),
       advisory |-> advisoryFailures(With("fail"), adoption, today),
       unexcepted |-> With("unexcepted"), strict |-> now,
       file |-> adoption, day |-> today] \in Verdict
  BY <1>1, <1>2, <1>3, <1>4 DEF Verdict
<1> QED BY <1>5 DEF buildReport, now, failed

LEMMA TypeStep ==
  ASSUME TypeOK, [Next]_vars
  PROVE  TypeOK'
<1> USE RunAssumption, AdoptionAssumption DEF TypeOK
<1>a. CASE UNCHANGED adoptionVars
  <2> AdoptionTypeOK'
    BY <1>a DEF AdoptionTypeOK, adoptionVars
  <2>1. CASE Begin
    <3>1. PICK asked \in SUBSET Checks, kinds \in SUBSET FileKind :
            \E ids \in {asked, asked \cap selectChanged(kinds)} :
              /\ selected' = ids
              /\ pending' = WithDependencies(planPhases(ids).first)
              /\ deferred' = planPhases(ids).deferred
      BY <2>1 DEF Begin
    <3>2. selected' \in SUBSET Checks /\ pending' \in SUBSET Checks
            /\ deferred' \in SUBSET {SocketCheck}
      BY <3>1, PlanOfChecks, DependenciesAreChecks
    <3>3. disk' \in Disk
      BY <2>1 DEF Begin, Disk
    <3> QED BY <2>1, <3>2, <3>3 DEF Begin
  <2>2. CASE Refuse
    BY <2>2 DEF Refuse
  <2>3. ASSUME NEW c \in Checks, CheckEnds(c)
        PROVE  TypeOK'
    <3>1. adoptionOutcome(readAdoption(adoption, today)) \in Class
      BY DEF adoptionOutcome, readAdoption, Class, AdoptionTypeOK, File
    <3>2. results' \in [Checks -> Class \cup {"none"}]
      BY <2>3, <3>1 DEF CheckEnds, Class
    <3>3. disk' \in Disk
      BY <2>3, CheckWrites
    <3> QED BY <2>3, <3>2, <3>3 DEF CheckEnds
  <2>4. CASE EndPhaseOne
    BY <2>4 DEF EndPhaseOne
  <2>5. CASE EndPhaseTwo
    BY <2>5 DEF EndPhaseTwo
  <2>6. CASE Clean
    BY <2>6, CleanUpTyped DEF Clean
  <2>7. CASE Judge
    BY <2>7, BuildReportTyped DEF Judge
  <2>8. CASE Report
    BY <2>8, EndedIsTyped DEF Report
  <2>9. CASE EngineThrows
    BY <2>9, EndedIsTyped, CleanUpTyped DEF EngineThrows
  <2>10. CASE Kill
    BY <2>10, EndedIsTyped DEF Kill
  <2>11. CASE PersonWorks
    BY <2>11 DEF PersonWorks
  <2>12. CASE UNCHANGED runVars
    BY <2>12 DEF runVars
  <2> QED BY <1>a, <2>1, <2>2, <2>3, <2>4, <2>5, <2>6, <2>7, <2>8, <2>9,
             <2>10, <2>11, <2>12, StepCases DEF adoptionVars
<1>b. CASE [AdoptionNext]_adoptionVars /\ UNCHANGED runVars
  BY <1>b, AdoptionTypeStep DEF runVars
<1> QED BY <1>a, <1>b, RunOrAdoption

\* Every variable of a run stays within its type.
THEOREM TypeCorrect == Spec => []TypeOK
<1>1. Init => TypeOK
  <2> SUFFICES ASSUME Init PROVE TypeOK
    OBVIOUS
  <2>1. AdoptionTypeOK
    BY AdoptionTypeInit DEF Init
  <2>2. NoVerdict \in Verdict
    BY DEF NoVerdict, Verdict, File, Absent
  <2>3. Bare \in Disk
    BY DEF Bare, Disk
  <2> QED BY <2>1, <2>2, <2>3, RunAssumption
          DEF Init, RunInit, TypeOK, NoResults
<1>2. TypeOK /\ [Next]_vars => TypeOK'
  BY TypeStep
<1> QED BY <1>1, <1>2, PTL DEF Spec

-----------------------------------------------------------------------------
(* The verdict.                                                            *)

\* Counting failures against advisory failures decides as the set of those
\* that are not advisory does: there are more of the first exactly when that
\* set has a member.
LEMMA CountingIsExact ==
  ASSUME NEW failing \in SUBSET Checks, NEW file, NEW now
  PROVE  (Cardinality(failing) > Cardinality(advisoryFailures(failing, file, now)))
           <=> (\E c \in failing :
                  ~ /\ readAdoption(file, now) = "active"
                    /\ c \notin file.enforce
                    /\ c # AdoptionCheck)
<1> DEFINE adv == advisoryFailures(failing, file, now)
<1>1. adv \subseteq failing
  BY DEF advisoryFailures
<1>2. IsFiniteSet(failing)
  BY RunAssumption, FS_Subset
<1>3. /\ IsFiniteSet(adv) /\ Cardinality(adv) <= Cardinality(failing)
      /\ Cardinality(adv) = Cardinality(failing) => adv = failing
  BY <1>1, <1>2, FS_Subset
<1>4. Cardinality(adv) \in Nat /\ Cardinality(failing) \in Nat
  BY <1>2, <1>3, FS_CardinalityType
<1>5. (Cardinality(failing) > Cardinality(adv)) <=> (adv # failing)
  BY <1>3, <1>4
<1>6. (adv # failing) <=> (\E c \in failing :
                  ~ /\ readAdoption(file, now) = "active"
                    /\ c \notin file.enforce
                    /\ c # AdoptionCheck)
  BY DEF advisoryFailures
<1> QED BY <1>5, <1>6

\* What buildReport decides, said of the outcomes.
LEMMA BuildReportDecides ==
  ASSUME TypeOK
  PROVE  LET adopting == readAdoption(adoption, today) = "active"
         IN buildReport.passed <=>
              /\ \A c \in Checks : results[c] = "fail" =>
                   adopting /\ c \notin adoption.enforce /\ c # AdoptionCheck
              /\ strict /\ ~adopting => \A c \in Checks : results[c] # "unexcepted"
<1> DEFINE adopting == readAdoption(adoption, today) = "active"
<1>1. With("fail") \in SUBSET Checks
  BY DEF With
<1>2. (Cardinality(With("fail"))
         > Cardinality(advisoryFailures(With("fail"), adoption, today)))
        <=> (\E c \in With("fail") :
               ~(adopting /\ c \notin adoption.enforce /\ c # AdoptionCheck))
  BY <1>1, CountingIsExact
<1>3. buildReport.passed <=>
        ~ \/ \E c \in With("fail") :
               ~(adopting /\ c \notin adoption.enforce /\ c # AdoptionCheck)
          \/ strict /\ ~adopting /\ With("unexcepted") # {}
  BY <1>2 DEF buildReport
<1> QED BY <1>3 DEF With

LEMMA VerdictStep ==
  ASSUME TypeOK, Phases, VerdictIsExact, [Next]_vars
  PROVE  VerdictIsExact'
<1>1. CASE Judge
  <2>1. /\ verdict' = buildReport /\ results' = results /\ strict' = strict
    BY <1>1 DEF Judge
  <2>2. verdict'.file = adoption /\ verdict'.day = today
    BY <2>1 DEF buildReport
  <2>3. verdict'.passed = buildReport.passed
    BY <2>1
  <2> QED BY <2>1, <2>2, <2>3, BuildReportDecides DEF VerdictIsExact
<1>2. CASE UNCHANGED runVars
  BY <1>2 DEF VerdictIsExact, runVars
<1>3. CASE Refuse \/ PersonWorks
  BY <1>3 DEF VerdictIsExact, Refuse, PersonWorks
<1>4. ASSUME NEW c \in Checks, CheckEnds(c)
      PROVE  VerdictIsExact'
  BY <1>4 DEF VerdictIsExact, CheckEnds, Phases
<1>5. CASE Begin \/ EndPhaseOne \/ EndPhaseTwo \/ Clean
             \/ Report \/ EngineThrows \/ Kill
  BY <1>5 DEF VerdictIsExact, Begin, EndPhaseOne, EndPhaseTwo, Clean,
     Report, EngineThrows, Kill, ProcessEnds
<1> QED BY <1>1, <1>2, <1>3, <1>4, <1>5, StepCases

-----------------------------------------------------------------------------
(* The phases.                                                             *)

\* A check that ends has an outcome.
LEMMA OutcomeIsOne ==
  ASSUME NEW c \in Checks, NEW class,
         class \in IF c = AdoptionCheck
                  THEN {"fail", adoptionOutcome(readAdoption(adoption, today))}
                  ELSE Outcomes[c]
  PROVE  class # "none"
BY RunAssumption DEF adoptionOutcome, Class

\* No check depends on Socket, so that only a run asked for Socket runs it.
LEMMA SocketIsAskedFor ==
  ASSUME NEW ids \in SUBSET Checks, SocketCheck \notin ids
  PROVE  SocketCheck \notin WithDependencies(ids)
<1> DEFINE once == ids \cup UNION {DependsOn[c] : c \in ids}
<1>1. once \in SUBSET Checks /\ SocketCheck \notin once
  BY RunAssumption
<1> HIDE DEF once
<1>2. SocketCheck \notin UNION {DependsOn[c] : c \in once}
  BY <1>1, RunAssumption
<1> QED BY <1>1, <1>2 DEF WithDependencies, once

LEMMA PhasesStep ==
  ASSUME TypeOK, Phases, [Next]_vars
  PROVE  Phases'
<1>1. CASE Begin
  <2>1. PICK asked \in SUBSET Checks, kinds \in SUBSET FileKind :
          \E ids \in {asked, asked \cap selectChanged(kinds)} :
            /\ selected' = ids
            /\ pending' = WithDependencies(planPhases(ids).first)
            /\ deferred' = planPhases(ids).deferred
    BY <1>1 DEF Begin
  <2>2. /\ selected' \subseteq pending' \cup deferred'
        /\ \A c \in deferred' : c \notin pending'
    <3> DEFINE plan == planPhases(selected')
    <3>1. /\ selected' \in SUBSET Checks
          /\ pending' = WithDependencies(plan.first)
          /\ deferred' = plan.deferred
      BY <2>1
    <3>2. /\ plan.first \in SUBSET Checks
          /\ selected' \subseteq plan.first \cup plan.deferred
      BY <3>1, PlanOfChecks
    <3>3. plan.first \subseteq WithDependencies(plan.first)
      BY <3>2, DependenciesAreChecks
    <3>4. SocketCheck \notin plan.first \/ plan.deferred = {}
      BY DEF planPhases
    <3>5. \A c \in deferred' : c \notin pending'
      BY <3>1, <3>2, <3>4, PlanOfChecks, SocketIsAskedFor
    <3> QED BY <3>1, <3>2, <3>3, <3>5
  <2>3. pending' \in SUBSET Checks /\ deferred' \in SUBSET Checks
    BY TypeStep, RunAssumption DEF TypeOK
  <2>4. \A c \in Checks : results'[c] = "none"
    BY <1>1 DEF Begin, Phases, NoResults
  <2>5. pc' = "phaseOne" /\ skipped' = {}
    BY <1>1 DEF Begin, Phases
  <2> QED BY <2>2, <2>3, <2>4, <2>5 DEF Phases
<1>2. ASSUME NEW c \in Checks, CheckEnds(c)
      PROVE  Phases'
  <2>1. /\ pc \in {"phaseOne", "phaseTwo"} /\ pc' = pc /\ skipped' = skipped
        /\ deferred' = deferred /\ selected' = selected
        /\ pending' = pending \ {c}
    BY <1>2 DEF CheckEnds, Phases
  <2>2. results'[c] # "none"
    BY <1>2, OutcomeIsOne DEF CheckEnds, TypeOK
  <2>3. \A d \in Checks \ {c} : results'[d] = results[d]
    BY <1>2 DEF CheckEnds, TypeOK
  <2>4. /\ selected \in SUBSET Checks /\ pending \in SUBSET Checks
        /\ deferred \in SUBSET Checks /\ c \in pending
    BY <1>2, RunAssumption DEF TypeOK, CheckEnds
  <2> QED BY <2>1, <2>2, <2>3, <2>4 DEF Phases
<1>3. CASE EndPhaseOne
  <2>1. results' = results /\ selected' = selected /\ With("fail")' = With("fail")
    BY <1>3 DEF EndPhaseOne, With
  <2>2. CASE deferred # {} /\ PhasePassed
    <3>1. pc' = "phaseTwo" /\ pending' = deferred /\ skipped' = skipped
            /\ pc = "phaseOne" /\ pending = {}
      BY <1>3, <2>2 DEF EndPhaseOne
    <3>2. \A c \in deferred : results[c] = "none"
      BY <3>1 DEF Phases
    <3> QED BY <2>1, <3>1, <3>2 DEF Phases
  <2>3. CASE ~(deferred # {} /\ PhasePassed)
    <3>1. pc' = "cleaning" /\ pending' = {} /\ skipped' = deferred
            /\ pc = "phaseOne" /\ pending = {}
      BY <1>3, <2>3 DEF EndPhaseOne
    <3>2. skipped' # {} => With("fail") # {}
      BY <2>3, <3>1 DEF PhasePassed
    <3> QED BY <2>1, <3>1, <3>2 DEF Phases
  <2> QED BY <2>2, <2>3
<1>4. CASE EndPhaseTwo \/ Clean \/ Judge
  BY <1>4 DEF EndPhaseTwo, Clean, Judge, Phases, With
<1>5. CASE Report \/ EngineThrows \/ Kill
  BY <1>5 DEF Report, EngineThrows, Kill, ProcessEnds, Phases, With
<1>6. CASE Refuse \/ PersonWorks \/ UNCHANGED runVars
  BY <1>6 DEF Refuse, PersonWorks, runVars, Phases, With
<1> QED BY <1>1, <1>2, <1>3, <1>4, <1>5, <1>6, StepCases

\* The invariant that the verdict rests on.
RunInv == TypeOK /\ Phases /\ VerdictIsExact

THEOREM RunInvariant == Spec => []RunInv
<1>1. Init => Phases /\ VerdictIsExact
  BY DEF Init, RunInit, Phases, VerdictIsExact
<1>2. RunInv /\ [Next]_vars => RunInv'
  BY TypeStep, PhasesStep, VerdictStep DEF RunInv
<1>3. Spec => []TypeOK
  BY TypeCorrect
<1> QED BY <1>1, <1>2, <1>3, PTL DEF Spec, RunInv

\* Whatever happens to the adoption file while the checks run, a run fails
\* exactly for a failing check that the file it read does not forgive, or in
\* strict mode, outside adoption, for an unevaluated one without an exception.
THEOREM VerdictCorrect == Spec => []VerdictIsExact
BY RunInvariant, PTL DEF RunInv

\* Outside adoption no run passes that lost a check it selected on the way
\* through the two phases, or in which one failed.
THEOREM AllRanCorrect == Spec => []PassMeansAllRan
<1>1. RunInv => PassMeansAllRan
  <2> SUFFICES ASSUME RunInv, pc = "reporting", verdict.passed,
                      readAdoption(verdict.file, verdict.day) # "active",
                      NEW c \in selected
               PROVE  results[c] \notin {"none", "fail"}
    BY DEF PassMeansAllRan
  <2>1. \A d \in Checks : results[d] # "fail"
    BY DEF RunInv, VerdictIsExact
  <2>2. skipped = {}
    BY <2>1 DEF RunInv, Phases, With
  <2>3. results[c] # "none" /\ c \in Checks
    BY <2>2 DEF RunInv, Phases, TypeOK
  <2> QED BY <2>1, <2>3
<1> QED BY <1>1, RunInvariant, PTL

-----------------------------------------------------------------------------
(* Socket comes last.                                                      *)

\* Socket waits for every check of the run it was not asked for alone in.
SocketWaits ==
  LET others == WithDependencies(selected) \ {SocketCheck}
  IN /\ pc = "phaseOne" =>
          /\ SocketCheck \in pending => others = {}
          /\ \A c \in others : c \in pending \/ results[c] # "none"
     /\ pc = "phaseTwo" =>
          /\ pending \subseteq {SocketCheck}
          /\ \A c \in others : results[c] \notin {"none", "fail"}

\* The contract declares Socket with no dependency.
SocketStandsAlone == DependsOn[SocketCheck] = {}

LEMMA SocketAddsNothing ==
  ASSUME SocketStandsAlone, NEW ids \in SUBSET Checks
  PROVE  /\ WithDependencies(ids) \subseteq
              WithDependencies(ids \ {SocketCheck}) \cup {SocketCheck}
         /\ WithDependencies({SocketCheck}) = {SocketCheck}
BY DEF WithDependencies, SocketStandsAlone

LEMMA SocketWaitsStep ==
  ASSUME SocketStandsAlone, TypeOK, Phases, SocketWaits, [Next]_vars
  PROVE  SocketWaits'
<1> DEFINE others == WithDependencies(selected) \ {SocketCheck}
<1>1. CASE Begin
  <2>1. PICK asked \in SUBSET Checks, kinds \in SUBSET FileKind :
          \E ids \in {asked, asked \cap selectChanged(kinds)} :
            /\ selected' = ids
            /\ pending' = WithDependencies(planPhases(ids).first)
            /\ deferred' = planPhases(ids).deferred
    BY <1>1 DEF Begin
  <2>2. /\ selected' \in SUBSET Checks /\ pc' = "phaseOne"
        /\ pending' = WithDependencies(planPhases(selected').first)
    BY <1>1, <2>1 DEF Begin
  <2>3. CASE SocketCheck \in selected' /\ selected' # {SocketCheck}
    <3>1. pending' = WithDependencies(selected' \ {SocketCheck})
      BY <2>2, <2>3 DEF planPhases
    <3>2. SocketCheck \notin pending'
      BY <3>1, <2>2, SocketIsAskedFor
    <3>3. others' \subseteq pending'
      BY <3>1, <2>2, SocketAddsNothing
    <3> QED BY <2>2, <3>2, <3>3 DEF SocketWaits
  <2>4. CASE ~(SocketCheck \in selected' /\ selected' # {SocketCheck})
    <3>1. pending' = WithDependencies(selected')
      BY <2>2, <2>4 DEF planPhases
    <3>2. SocketCheck \in pending' => others' = {}
      BY <3>1, <2>2, <2>4, SocketIsAskedFor, SocketAddsNothing
    <3> QED BY <2>2, <3>1, <3>2 DEF SocketWaits
  <2> QED BY <2>3, <2>4
<1>2. ASSUME NEW c \in Checks, CheckEnds(c)
      PROVE  SocketWaits'
  <2>1. /\ pc' = pc /\ selected' = selected /\ pending' = pending \ {c}
        /\ c \in pending
    BY <1>2 DEF CheckEnds
  <2>2. results'[c] # "none"
    BY <1>2, OutcomeIsOne DEF CheckEnds, TypeOK
  <2>3. \A d \in Checks \ {c} : results'[d] = results[d]
    BY <1>2 DEF CheckEnds, TypeOK
  <2>4. others \in SUBSET Checks /\ others' = others
    BY <2>1, DependenciesAreChecks DEF TypeOK
  <2>5. pc = "phaseTwo" => c = SocketCheck
    BY <2>1 DEF SocketWaits
  <2> QED BY <2>1, <2>2, <2>3, <2>4, <2>5 DEF SocketWaits
<1>3. CASE EndPhaseOne
  <2>1. /\ results' = results /\ selected' = selected
        /\ pc = "phaseOne" /\ pending = {} /\ pc' \in {"phaseTwo", "cleaning"}
        /\ pc' = "phaseTwo" => PhasePassed /\ pending' = deferred
    BY <1>3 DEF EndPhaseOne
  <2>2. others \in SUBSET Checks /\ others' = others
    BY <2>1, DependenciesAreChecks DEF TypeOK
  <2>3. \A c \in others : results[c] # "none"
    BY <2>1 DEF SocketWaits
  <2>4. PhasePassed => \A c \in others : results[c] # "fail"
    BY <2>2 DEF PhasePassed, With
  <2> QED BY <2>1, <2>2, <2>3, <2>4 DEF SocketWaits, TypeOK
<1>4. CASE EndPhaseTwo \/ Clean \/ Judge \/ Report \/ EngineThrows \/ Kill
  BY <1>4 DEF EndPhaseTwo, Clean, Judge, Report, EngineThrows, Kill,
     ProcessEnds, SocketWaits
<1>5. CASE Refuse \/ PersonWorks \/ UNCHANGED runVars
  BY <1>5 DEF Refuse, PersonWorks, runVars, SocketWaits
<1> QED BY <1>1, <1>2, <1>3, <1>4, <1>5, StepCases

\* Socket never runs beside, before, or after the failure of, another check of
\* its run.
THEOREM SocketComesLastCorrect ==
  ASSUME SocketStandsAlone
  PROVE  Spec => SocketComesLast
<1>1. Init => SocketWaits
  BY DEF Init, RunInit, SocketWaits
<1>2. TypeOK /\ Phases /\ SocketWaits /\ [Next]_vars => SocketWaits'
  BY SocketWaitsStep
<1>3. TypeOK /\ Phases /\ SocketWaits /\ [Next]_vars =>
        [results'[SocketCheck] \notin {"none", results[SocketCheck]} =>
           \A c \in WithDependencies(selected) \ {SocketCheck} :
             results[c] \notin {"none", "fail"}]_vars
  <2> SUFFICES ASSUME TypeOK, Phases, SocketWaits, [Next]_vars,
                      results'[SocketCheck] \notin {"none", results[SocketCheck]}
               PROVE  \A c \in WithDependencies(selected) \ {SocketCheck} :
                        results[c] \notin {"none", "fail"}
    OBVIOUS
  <2>1. CheckEnds(SocketCheck)
    <3>1. PICK c \in Checks : CheckEnds(c)
      BY StepCases, RunAssumption
         DEF Begin, Refuse, EndPhaseOne, EndPhaseTwo, Clean, Judge, Report,
             EngineThrows, Kill, PersonWorks, ProcessEnds, NoResults, runVars
    <3>2. c = SocketCheck
      BY <3>1, RunAssumption DEF CheckEnds, TypeOK
    <3> QED BY <3>1, <3>2
  <2>2. SocketCheck \in pending
    BY <2>1 DEF CheckEnds
  <2> QED BY <2>2 DEF Phases, SocketWaits
<1> QED BY <1>1, <1>2, <1>3, RunInvariant, PTL DEF Spec, RunInv, SocketComesLast

-----------------------------------------------------------------------------
(* The working tree.                                                       *)

\* While a run lasts, what the tree held when it began is still there.
DiskKept ==
  /\ pc # "idle" =>
       /\ before.coverage => disk.coverage
       /\ before.tools => disk.tools
       /\ before.reports => disk.reports
       /\ disk.reports
  /\ CleanedUp

LEMMA DiskStep ==
  ASSUME TypeOK, Phases, DiskKept, [Next]_vars
  PROVE  DiskKept' /\ (pc # "idle" => Survives)
<1>1. CASE Begin
  BY <1>1 DEF Begin, TypeOK, Disk, DiskKept, CleanedUp
<1>2. ASSUME NEW c \in Checks, CheckEnds(c)
      PROVE  DiskKept' /\ (pc # "idle" => Survives)
  <2>1. /\ c \in pending /\ pending' = pending \ {c}
        /\ pc' = pc /\ before' = before
    BY <1>2 DEF CheckEnds
  <2>2. pc \in {"phaseOne", "phaseTwo"}
    BY <2>1 DEF Phases
  <2>3. c \in pending \ pending'
    BY <2>1
  <2> QED BY <1>2, <2>1, <2>2, <2>3, CheckWrites DEF TypeOK, DiskKept, CleanedUp, Survives
<1>3. CASE EndPhaseOne \/ EndPhaseTwo \/ Judge
  BY <1>3 DEF EndPhaseOne, EndPhaseTwo, Judge, TypeOK, Disk, DiskKept,
     CleanedUp, Survives
<1>4. CASE Clean
  BY <1>4, CleanUpTyped DEF Clean, TypeOK, Disk, DiskKept, CleanedUp,
     Survives
<1>5. CASE EngineThrows
  BY <1>5, CleanUpTyped DEF EngineThrows, ProcessEnds, TypeOK, Disk, DiskKept,
     CleanedUp, Survives
<1>6. CASE Report \/ Kill
  BY <1>6 DEF Report, Kill, ProcessEnds, DiskKept, CleanedUp, Survives
<1>7. CASE Refuse \/ PersonWorks \/ UNCHANGED runVars
  BY <1>7 DEF Refuse, PersonWorks, runVars, DiskKept, CleanedUp, Survives
<1> QED BY <1>1, <1>2, <1>3, <1>4, <1>5, <1>6, <1>7, StepCases

\* A cleaned tree is the one the run found, but for the contract's own record.
THEOREM CleanedUpCorrect == Spec => []CleanedUp
<1>1. Init => DiskKept
  BY DEF Init, RunInit, DiskKept, CleanedUp
<1>2. RunInv /\ DiskKept /\ [Next]_vars => DiskKept'
  BY DiskStep DEF RunInv
<1> QED BY <1>1, <1>2, RunInvariant, PTL DEF Spec, DiskKept

\* However a run ends, killed or thrown out of, it takes nothing with it that
\* was in the tree before it.
THEOREM PersonsFilesSurviveCorrect == Spec => PersonsFilesSurvive
<1>1. Init => DiskKept
  BY DEF Init, RunInit, DiskKept, CleanedUp
<1>2. RunInv /\ DiskKept /\ [Next]_vars =>
        DiskKept' /\ [pc # "idle" => Survives]_vars
  BY DiskStep DEF RunInv
<1> QED BY <1>1, <1>2, RunInvariant, PTL DEF Spec, PersonsFilesSurvive

-----------------------------------------------------------------------------
(* The run implements the gate.                                            *)

LEMMA GateInit ==
  ASSUME Init PROVE Gate!Init
BY DEF Init, RunInit, Decision, Gate!Init, NoResults, Gate!Nothing

\* A check that ends is found; judging decides; any end of the process leaves;
\* every other step changes nothing the gate knows.
LEMMA GateStep ==
  ASSUME RunInv, [Next]_vars
  PROVE  Gate!Next \/ (results' = results /\ Decision' = Decision)
<1> USE DEF Decision
<1>1. ASSUME NEW c \in Checks, CheckEnds(c)
      PROVE  Gate!Find
  <2>1. c \in pending /\ results[c] = "none" /\ pc' = pc /\ pc # "reporting"
    BY <1>1 DEF CheckEnds, RunInv, Phases
  <2>2. PICK class \in IF c = AdoptionCheck
                       THEN {"fail", adoptionOutcome(readAdoption(adoption, today))}
                       ELSE Outcomes[c] :
          results' = [results EXCEPT ![c] = class]
    BY <1>1 DEF CheckEnds
  <2>3. class \in Gate!Outcome
    BY <2>2, RunAssumption DEF Gate!Outcome, Class, adoptionOutcome
  <2> QED BY <2>1, <2>2, <2>3 DEF Gate!Find
<1>2. ASSUME Judge PROVE Gate!Decide
  <2> DEFINE adopting == readAdoption(adoption, today) = "active"
             forgiven == IF adopting THEN Checks \ (adoption.enforce \cup {AdoptionCheck})
                                     ELSE {}
  <2>1. /\ pc = "judging" /\ pc' = "reporting" /\ results' = results
        /\ verdict' = buildReport
    BY <1>2 DEF Judge
  <2>2. verdict'.passed <=> /\ Gate!With("fail") \subseteq forgiven
                            /\ strict /\ ~adopting => Gate!With("unexcepted") = {}
    BY <2>1, BuildReportDecides DEF RunInv, Gate!With
  <2>3. Decision' = IF verdict'.passed THEN "pass" ELSE "fail"
    BY <2>1
  <2>4. adopting \in BOOLEAN /\ strict \in BOOLEAN /\ adoption.enforce \in SUBSET Checks
    BY DEF RunInv, TypeOK, AdoptionTypeOK, File
  <2>5. Decision' = IF /\ Gate!With("fail") \subseteq forgiven
                       /\ strict /\ ~adopting => Gate!With("unexcepted") = {}
                    THEN "pass" ELSE "fail"
    BY <2>2, <2>3
  <2> QED BY <2>1, <2>4, <2>5 DEF Gate!Decide
<1>3. ASSUME Report \/ EngineThrows \/ Kill PROVE Gate!Leave
  BY <1>3 DEF Report, EngineThrows, Kill, ProcessEnds, Gate!Leave,
     NoResults, Gate!Nothing
<1>4. CASE Begin \/ EndPhaseOne \/ EndPhaseTwo \/ Clean \/ Refuse \/ PersonWorks
  BY <1>4 DEF Begin, EndPhaseOne, EndPhaseTwo, Clean, Refuse, PersonWorks
<1>5. CASE UNCHANGED runVars
  BY <1>5 DEF runVars
<1> QED BY <1>1, <1>2, <1>3, <1>4, <1>5, StepCases DEF Gate!Next

\* Whoever knows only the exit code of a run may rely on the gate: selection,
\* phases, counting and cleaning are steps it does not see.
THEOREM GateCorrect == Spec => GateSpec
<1>1. Init => Gate!Init
  BY GateInit
<1>2. RunInv /\ [Next]_vars => [Gate!Next]_<<results, Decision>>
  BY GateStep
<1> QED BY <1>1, <1>2, RunInvariant, PTL DEF Spec, GateSpec, Gate!Spec, Decision

=============================================================================
