---------------------------- MODULE MutationProofs ---------------------------
(***************************************************************************)
(* Proofs about the Mutation check, for every set of sources, of texts, of *)
(* registries and of environments, every number of slices and every bound  *)
(* on the timeouts that are run again.                                     *)
(***************************************************************************)
EXTENDS MutationEvidence, FiniteSetTheorems, TLAPS

\* The text does not change while a run goes on.
NoEdits == ~EditsWhileRunning

-----------------------------------------------------------------------------
(* Reports and plans.                                                      *)

Statuses == UNION {[S -> Status] : S \in SUBSET Files}

\* Every map from some of the sources to statuses is one.
LEMMA StatusesHold ==
  /\ NoStatus \in Statuses
  /\ \A S \in SUBSET Files : [S -> Status] \subseteq Statuses
<1>1. NoStatus \in [{} -> Status]
  BY DEF NoStatus, Status
<1> QED BY <1>1 DEF Statuses

\* What is known of a report.
LEMMA ReportShape ==
  ASSUME NEW rep \in Report
  PROVE  /\ rep = [text |-> rep.text, status |-> rep.status, caught |-> rep.caught]
         /\ rep.text \in Texts
         /\ covers(rep) \in SUBSET Files
         /\ covers(rep) # {}
         /\ rep.status \in [covers(rep) -> Status]
         /\ rep.caught \in SUBSET Files
<1>1. /\ rep = [text |-> rep.text, status |-> rep.status, caught |-> rep.caught]
      /\ rep.text \in Texts
      /\ rep.status \in UNION {[S -> Status] : S \in (SUBSET Files) \ {{}}}
      /\ rep.caught \in SUBSET Files
  BY DEF Report
<1>2. PICK S \in (SUBSET Files) \ {{}} : rep.status \in [S -> Status]
  BY <1>1
<1>3. covers(rep) = S
  BY <1>2 DEF covers
<1> QED BY <1>1, <1>2, <1>3

\* A report from its parts.
LEMMA MakeReport ==
  ASSUME NEW t \in Texts, NEW S \in SUBSET Files, S # {},
         NEW status \in [S -> Status], NEW caught \in SUBSET Files
  PROVE  /\ [text |-> t, status |-> status, caught |-> caught] \in Report
         /\ covers([text |-> t, status |-> status, caught |-> caught]) = S
<1>1. status \in UNION {[D -> Status] : D \in (SUBSET Files) \ {{}}}
  OBVIOUS
<1> QED BY <1>1 DEF Report, covers

\* No report covers nothing.
LEMMA NoReportIsEmpty == covers(NoReport) = {} /\ NoReport.text = 0 /\ NoReport.caught = {}
BY DEF covers, NoReport, NoStatus

RunAgain(rep, f, now) == [rep EXCEPT !.status[f] = now, !.caught = @ \cup {f}]

\* A mutant run again changes its own status and reason, and nothing else.
LEMMA RerunReport ==
  ASSUME NEW rep \in Report, NEW f \in covers(rep), NEW now \in Status,
         NEW new, new = RunAgain(rep, f, now)
  PROVE  /\ new \in Report
         /\ new.text = rep.text
         /\ covers(new) = covers(rep)
         /\ new.caught = rep.caught \cup {f}
         /\ \A g \in covers(rep) \ {f} : new.status[g] = rep.status[g]
<1>1. new = [text |-> rep.text, status |-> [rep.status EXCEPT ![f] = now],
             caught |-> rep.caught \cup {f}]
  <2>1. PICK t, s, c : rep = [text |-> t, status |-> s, caught |-> c]
    BY ReportShape
  <2> QED BY <2>1 DEF RunAgain
<1>2. [rep.status EXCEPT ![f] = now] \in [covers(rep) -> Status]
  BY ReportShape
<1>3. rep.caught \cup {f} \in SUBSET Files
  BY ReportShape
<1>4. /\ new \in Report
      /\ covers(new) = covers(rep)
  <2>1. rep.text \in Texts /\ covers(rep) \in SUBSET Files /\ covers(rep) # {}
    BY ReportShape
  <2> DEFINE s == [rep.status EXCEPT ![f] = now]
             c == rep.caught \cup {f}
  <2>2. s \in [covers(rep) -> Status] /\ c \in SUBSET Files
    BY <1>2, <1>3
  <2>3. new = [text |-> rep.text, status |-> s, caught |-> c]
    BY <1>1
  <2> HIDE DEF s, c
  <2>4. PICK t, S : t = rep.text /\ S = covers(rep)
    OBVIOUS
  <2>5. /\ [text |-> t, status |-> s, caught |-> c] \in Report
        /\ covers([text |-> t, status |-> s, caught |-> c]) = S
    BY <2>1, <2>2, <2>4, MakeReport
  <2> QED BY <2>3, <2>4, <2>5
<1> QED BY <1>1, <1>2, <1>4, ReportShape

\* As many slices as asked for can be made of at least as many files.
LEMMA SlicesExist ==
  ASSUME NEW files \in SUBSET Files, Cardinality(files) >= Shards
  PROVE  /\ planShards(files) \in [1 .. Shards -> (SUBSET files) \ {{}}]
<1> DEFINE n == Cardinality(files)
<1>1. /\ IsFiniteSet(files)
      /\ n \in Nat
      /\ ExistsBijection(1 .. n, files)
  BY MutationAssumption, FS_Subset, FS_CardinalityType
<1>2. PICK b : b \in Bijection(1 .. n, files)
  BY <1>1 DEF ExistsBijection
<1>3. /\ b \in [1 .. n -> files]
      /\ \A i, j \in 1 .. n : b[i] = b[j] => i = j
      /\ \A x \in files : \E i \in 1 .. n : b[i] = x
  BY <1>2 DEF Bijection, Injection, Surjection, IsInjective
<1>4. Shards \in Nat \ {0} /\ n >= Shards
  BY MutationAssumption
<1> DEFINE slice(i) == {x \in files : \E j \in 1 .. n :
                          /\ b[j] = x
                          /\ j = i \/ (i = Shards /\ j >= Shards)}
           slices == [i \in 1 .. Shards |-> slice(i)]
<1>5. ASSUME NEW i \in 1 .. Shards PROVE slice(i) \in (SUBSET files) \ {{}}
  <2>1. i \in 1 .. n /\ b[i] \in slice(i)
    BY <1>3, <1>4, <1>1
  <2> QED BY <2>1
<1>6. slices \in [1 .. Shards -> (SUBSET files) \ {{}}]
  BY <1>5
<1>7. ASSUME NEW x \in files PROVE \E i \in 1 .. Shards : x \in slices[i]
  <2>1. PICK j \in 1 .. n : b[j] = x
    BY <1>3
  <2>2. CASE j <= Shards
    <3>1. j \in 1 .. Shards
      BY <2>2, <1>4, <1>1
    <3> QED BY <2>1, <3>1
  <2>3. CASE j > Shards
    <3>1. Shards \in 1 .. Shards /\ x \in slice(Shards)
      BY <2>1, <2>3, <1>4, <1>1
    <3> QED BY <3>1
  <2> QED BY <2>2, <2>3, <1>4, <1>1
<1>8. UNION {slices[i] : i \in 1 .. Shards} = files
  <2>1. \A i \in 1 .. Shards : slices[i] \subseteq files
    OBVIOUS
  <2> QED BY <1>7, <2>1
<1>9. ASSUME NEW i \in 1 .. Shards, NEW j \in 1 .. Shards, i # j
      PROVE  slices[i] \cap slices[j] = {}
  <2> SUFFICES ASSUME NEW x \in slice(i) \cap slice(j) PROVE FALSE
    OBVIOUS
  <2>1. PICK k \in 1 .. n : b[k] = x /\ (k = i \/ (i = Shards /\ k >= Shards))
    OBVIOUS
  <2>2. PICK l \in 1 .. n : b[l] = x /\ (l = j \/ (j = Shards /\ l >= Shards))
    OBVIOUS
  <2>3. k = l
    BY <1>3, <2>1, <2>2
  <2> QED BY <2>1, <2>2, <2>3, <1>4, <1>9
<1>10. \E s \in [1 .. Shards -> (SUBSET files) \ {{}}] :
         /\ UNION {s[i] : i \in 1 .. Shards} = files
         /\ \A i, j \in 1 .. Shards : i # j => s[i] \cap s[j] = {}
  <2> HIDE DEF slices
  <2> QED BY <1>6, <1>8, <1>9
<1> QED BY <1>10 DEF planShards

\* What a run mutates is some of the sources, unless it skips or is refused.
LEMMA PlanIsSome ==
  ASSUME NEW r, r.mutate \in SUBSET Files, r.env \in Env,
         ~Skip(r), ~shardRefuses(r)
  PROVE  plan(r) \in SUBSET Files /\ plan(r) # {}
<1>1. targets(r) \in SUBSET Files /\ targets(r) # {}
  BY MutationAssumption DEF targets, Skip
<1>2. CASE shardOf(r) = 0
  BY <1>1, <1>2 DEF plan
<1>3. CASE shardOf(r) # 0
  <2>1. shardOf(r) \in 1 .. Shards
    BY <1>3, MutationAssumption DEF shardOf, Env
  <2>2. Cardinality(targets(r)) >= Shards
    <3>1. IsFiniteSet(targets(r))
      BY <1>1, MutationAssumption, FS_Subset
    <3>2. Cardinality(targets(r)) \in Nat
      BY <3>1, FS_CardinalityType
    <3>3. ~(Cardinality(targets(r)) < Shards)
      BY <1>3 DEF shardRefuses
    <3> QED BY <3>2, <3>3, MutationAssumption
  <2>3. planShards(targets(r)) \in [1 .. Shards -> (SUBSET targets(r)) \ {{}}]
    BY <1>1, <2>2, SlicesExist
  <2>4. plan(r) = planShards(targets(r))[shardOf(r)]
    BY <1>3 DEF plan
  <2>5. plan(r) \in (SUBSET targets(r)) \ {{}}
    BY <2>1, <2>3, <2>4
  <2> QED BY <1>1, <2>5
<1> QED BY <1>2, <1>3

\* What is fixed when a run starts fixes what it mutates.
LEMMA PlanIsFixed ==
  ASSUME NEW r, NEW s,
         s.env = r.env, s.affected = r.affected, s.mutate = r.mutate
  PROVE  /\ Skip(s) = Skip(r)
         /\ shardRefuses(s) = shardRefuses(r)
         /\ plan(s) = plan(r)
<1>1. Skip(s) = Skip(r) /\ targets(s) = targets(r) /\ shardOf(s) = shardOf(r)
  BY DEF Skip, targets, shardOf
<1>2. shardRefuses(s) = shardRefuses(r)
  BY <1>1 DEF shardRefuses
<1>3. plan(s) = plan(r)
  BY <1>1 DEF plan
<1> QED BY <1>1, <1>2, <1>3

-----------------------------------------------------------------------------
(* Types, with what a run knows at each point.                             *)

Reports == Report \cup {NoReport}

Runs == [env : Env, affected : BOOLEAN, mutate : SUBSET Files, supplied : Reports,
         text : Texts \cup {0}, copied : Texts \cup {0}, exit : {0, 1},
         threw : BOOLEAN, first : Statuses]

TypeInv ==
  /\ TypeOK
  /\ run \in Runs
  /\ pc # "idle" => run.text \in Texts /\ run.env \in Envs
  /\ pc = "mutating" => run.copied \in Texts /\ ~Skip(run) /\ ~shardRefuses(run)
  /\ pc = "confirming" => todo \subseteq covers(report)

\* Before the first run, and between two.
LEMMA NoRunIsRun == NoRun \in Runs
<1>1. NoRun.env \in Env
  BY MutationAssumption DEF NoRun, Env
<1> QED BY <1>1, StatusesHold DEF NoRun, Runs, Reports

\* Only timeouts are run again.
LEMMA ConfirmsTimeouts ==
  ASSUME NEW rep
  PROVE  ToConfirm(rep) \subseteq timedOut(rep) /\ timedOut(rep) \subseteq covers(rep)
BY DEF ToConfirm, timedOut

\* A report covers sources only.
LEMMA ReportsCover == \A rep \in Reports : covers(rep) \in SUBSET Files
BY ReportShape, NoReportIsEmpty DEF Reports

LEMMA TypeInit == Init => TypeInv
<1> SUFFICES ASSUME Init PROVE TypeInv
  OBVIOUS
<1>1. memo.report = NoReport
  BY DEF Init, NoMemo
<1>2. run \in Runs /\ NoRun.env \in Env /\ NoRun.mutate = {}
  BY NoRunIsRun DEF Init, Runs, NoRun
<1> QED BY <1>1, <1>2 DEF Init, TypeInv, TypeOK

\* Each step leaves the files and the run well-typed.
LEMMA TypeStep == TypeInv /\ [Next]_vars => TypeInv'
<1> SUFFICES ASSUME TypeInv, [Next]_vars PROVE TypeInv'
  OBVIOUS
<1> USE DEF TypeInv, TypeOK, runVars
<1>0. /\ Envs \subseteq Env
      /\ \A r \in Runs : r.env \in Env /\ r.mutate \in SUBSET Files
  BY MutationAssumption DEF Runs
<1>1. CASE Edit
  BY <1>1 DEF Edit
<1>2. CASE EditRegistry
  BY <1>2 DEF EditRegistry
<1>3. CASE Begin
  <2>1. PICK env \in Envs, affected \in BOOLEAN :
          \E mutate \in IF affected THEN SUBSET Files ELSE {{}} :
          \E supplied \in IF env.adopted THEN Supplied \cup {NoReport} ELSE {NoReport} :
            run' = [NoRun EXCEPT !.env = env, !.affected = affected, !.mutate = mutate,
                                 !.supplied = supplied, !.text = text]
    BY <1>3 DEF Begin
  <2>2. PICK mutate \in IF affected THEN SUBSET Files ELSE {{}},
             supplied \in IF env.adopted THEN Supplied \cup {NoReport} ELSE {NoReport} :
          run' = [NoRun EXCEPT !.env = env, !.affected = affected, !.mutate = mutate,
                               !.supplied = supplied, !.text = text]
    BY <2>1
  <2>3. mutate \in SUBSET Files /\ supplied \in Reports
    BY DEF Supplied, Reports
  <2>4. run' \in Runs /\ run'.text = text /\ run'.env = env
    BY <2>2, <2>3, <1>0, NoRunIsRun DEF Runs
  <2> QED BY <1>3, <2>4, <1>0 DEF Begin
<1>4. ASSUME pc = "started", NEW code \in {0, 1}, NEW threw \in BOOLEAN,
             pc' = "judging", run' = [run EXCEPT !.exit = code, !.threw = threw],
             evidence' \in Reports, memo' = memo,
             UNCHANGED <<text, registry, report, todo, verdict>>
      PROVE  TypeInv'
  <2>1. run' \in Runs /\ run'.text = run.text /\ run'.env = run.env
    BY <1>4 DEF Runs
  <2> QED BY <1>4, <2>1, <1>0 DEF Reports
<1>5. ASSUME pc = "started", NEW code \in {0, 1}, ToolExits(code),
             evidence' \in Reports, memo' = memo
      PROVE  TypeInv'
  <2>1. run' = [run EXCEPT !.exit = code, !.threw = run.threw] /\ run.threw \in BOOLEAN
    BY <1>5 DEF ToolExits, Runs
  <2> QED BY <1>4, <1>5, <2>1 DEF ToolExits
<1>6. ASSUME pc = "started", ToolThrows PROVE TypeInv'
  <2>1. evidence' \in Reports
    BY <1>6 DEF ToolThrows, Reports
  <2> QED BY <1>4, <1>6, <2>1 DEF ToolThrows
<1>7. CASE ShardRefused \/ ConfigFails
  BY <1>6, <1>7 DEF ShardRefused, ConfigFails
<1>8. CASE Adopt
  <2>1. run.supplied \in Reports /\ NoReport \in Reports
    BY DEF Runs, Reports
  <2>2. CASE evidence' = run.supplied /\ ToolExits(0)
    BY <1>5, <1>8, <2>1, <2>2 DEF Adopt
  <2>3. CASE evidence' = NoReport /\ ToolExits(1)
    BY <1>5, <1>8, <2>1, <2>3 DEF Adopt
  <2> QED BY <1>8, <2>2, <2>3 DEF Adopt
<1>9. CASE SkipAll \/ recall
  <2>1. evidence' \in Reports
    BY <1>9 DEF SkipAll, recall, Reports
  <2> QED BY <1>5, <1>9, <2>1 DEF SkipAll, recall
<1>10. CASE StrykerStarts
  <2>1. /\ run' \in Runs /\ run'.text = run.text /\ run'.copied = text
        /\ run'.env = run.env /\ run'.affected = run.affected /\ run'.mutate = run.mutate
    BY <1>10 DEF StrykerStarts, Runs
  <2>2. ~Skip(run)' /\ ~shardRefuses(run)'
    <3>1. Skip(run') = Skip(run) /\ shardRefuses(run') = shardRefuses(run)
      BY <2>1, PlanIsFixed
    <3> QED BY <1>10, <3>1 DEF StrykerStarts
  <2> QED BY <1>10, <2>1, <2>2, <1>0 DEF StrykerStarts
<1>11. CASE StrykerEnds
  <2>1. PICK status \in [plan(run) -> Status], exit \in {0, 1} :
          /\ evidence' = [text |-> run.copied, status |-> status, caught |-> {}]
          /\ report' = evidence'
          /\ todo' = ToConfirm(evidence')
          /\ run' = [run EXCEPT !.exit = exit, !.first = status]
    BY <1>11 DEF StrykerEnds
  <2>2. plan(run) \in SUBSET Files /\ plan(run) # {}
    BY <1>11, <1>0, PlanIsSome DEF StrykerEnds
  <2>3. evidence' \in Report
    <3>1. run.copied \in Texts
      BY <1>11 DEF StrykerEnds
    <3> QED BY <2>1, <2>2, <3>1, MakeReport
  <2>4. status \in Statuses
    BY <2>2, StatusesHold
  <2>5. run' \in Runs /\ run'.text = run.text /\ run'.env = run.env
    BY <2>1, <2>4 DEF Runs
  <2>6. todo' \subseteq covers(report') /\ covers(report') \in SUBSET Files
    BY <2>1, <2>3, ConfirmsTimeouts, ReportShape
  <2>7. covers(report)' = covers(report')
    BY DEF covers
  <2> QED BY <1>11, <2>1, <2>3, <2>5, <2>6, <2>7, <1>0 DEF StrykerEnds
<1>12. CASE StrykerFails
  <2>1. run' \in Runs /\ run'.text = run.text /\ run'.env = run.env
    BY <1>12 DEF StrykerFails, Runs
  <2>2. todo' \subseteq covers(report') /\ covers(report') \in SUBSET Files
    <3>1. report' = evidence /\ todo' \in {{}, ToConfirm(evidence)} /\ evidence \in Reports
      BY <1>12 DEF StrykerFails, Reports
    <3> QED BY <3>1, ConfirmsTimeouts, ReportsCover
  <2>3. covers(report)' = covers(report')
    BY DEF covers
  <2> QED BY <1>12, <2>1, <2>2, <2>3, <1>0 DEF StrykerFails
<1>13. CASE Rerun
  <2>1. PICK f \in todo :
          /\ todo' = todo \ {f}
          /\ \/ evidence' = NoReport /\ report' = report
             \/ \E now \in Status :
                  /\ evidence' = [text |-> text, status |-> [g \in {f} |-> now], caught |-> {}]
                  /\ report' = IF now = "Timeout" THEN report
                               ELSE [report EXCEPT !.status[f] = now, !.caught = @ \cup {f}]
    BY <1>13 DEF Rerun
  <2>2. f \in covers(report) /\ f \in Files
    BY <1>13 DEF Rerun
  <2>3. report \in Report
    BY <2>2, NoReportIsEmpty
  <2>4. evidence' \in Reports
    <3>1. CASE evidence' = NoReport
      BY <3>1 DEF Reports
    <3>2. ASSUME NEW now \in Status,
                 evidence' = [text |-> text, status |-> [g \in {f} |-> now], caught |-> {}]
          PROVE  evidence' \in Report
      <4>1. [g \in {f} |-> now] \in [{f} -> Status] /\ {f} \in SUBSET Files /\ {f} # {}
        BY <2>2
      <4> DEFINE one == [g \in {f} |-> now]
      <4> HIDE DEF one
      <4>2. [text |-> text, status |-> one, caught |-> {}] \in Report
        BY <4>1, MakeReport DEF one
      <4> QED BY <3>2, <4>2 DEF one
    <3> QED BY <2>1, <3>1, <3>2 DEF Reports
  <2>5. report' \in Report /\ covers(report') = covers(report)
    <3>1. CASE report' = report
      BY <2>3, <3>1
    <3>2. ASSUME NEW now \in Status,
                 report' = [report EXCEPT !.status[f] = now, !.caught = @ \cup {f}]
          PROVE  report' \in Report /\ covers(report') = covers(report)
      <4>1. report' = RunAgain(report, f, now)
        BY <3>2 DEF RunAgain
      <4> QED BY <2>2, <2>3, <4>1, RerunReport
    <3> QED BY <2>1, <3>1, <3>2
  <2>6. covers(report)' = covers(report')
    BY DEF covers
  <2> QED BY <1>13, <2>1, <2>4, <2>5, <2>6 DEF Rerun, Reports
<1>14. CASE PutBack
  BY <1>14 DEF PutBack
<1>15. CASE Forget
  <2>1. NoMemo.report = NoReport
    BY DEF NoMemo
  <2> QED BY <1>15, <2>1 DEF Forget
<1>16. CASE Remember
  <2>1. memo'.report = evidence
    BY <1>16 DEF Remember
  <2> QED BY <1>16, <2>1 DEF Remember
<1>17. CASE RememberNothing
  BY <1>17 DEF RememberNothing
<1>18. CASE Judge
  BY <1>18 DEF Judge, policy
<1>19. ASSUME RunOver, evidence' \in Reports, memo'.report \in Reports PROVE TypeInv'
  <2>1. NoRun \in Runs /\ NoReport \in Reports
    BY NoRunIsRun DEF Reports
  <2> QED BY <1>0, <1>19, <2>1 DEF RunOver, Reports
<1>20. CASE Finish \/ Kill
  <2>1. NoMemo.report = NoReport /\ NoReport \in Reports
    BY DEF NoMemo, Reports
  <2> QED BY <1>19, <1>20, <2>1 DEF Finish, Kill, Reports
<1>21. CASE UNCHANGED vars
  BY <1>21 DEF vars, covers, Skip, shardRefuses
<1> QED BY <1>1, <1>2, <1>3, <1>7, <1>8, <1>9, <1>10, <1>11, <1>12, <1>13, <1>14,
           <1>15, <1>16, <1>17, <1>18, <1>20, <1>21 DEF Next, RunStep

\* What the files and the run hold is what the tools write and read, the report
\* judged or kept among them, and a timeout run again is one of the report.
THEOREM MutationTypeCorrect == Spec => []TypeOK
<1>1. TypeInv => TypeOK
  BY DEF TypeInv
<1> QED BY <1>1, TypeInit, TypeStep, PTL DEF Spec

\* A run starts with the text on disk and nothing seen.
LEMMA BeginsAnew ==
  Begin => run'.first = NoStatus /\ run'.text = text /\ run'.threw = FALSE
<1> SUFFICES ASSUME Begin PROVE run'.first = NoStatus /\ run'.text = text /\ run'.threw = FALSE
  OBVIOUS
<1>1. \E env, affected, mutate, supplied :
        run' = [NoRun EXCEPT !.env = env, !.affected = affected, !.mutate = mutate,
                             !.supplied = supplied, !.text = text]
  <2>1. PICK env \in Envs, affected \in BOOLEAN :
          \E mutate \in IF affected THEN SUBSET Files ELSE {{}} :
          \E supplied \in IF env.adopted THEN Supplied \cup {NoReport} ELSE {NoReport} :
            LET r == [NoRun EXCEPT !.env = env, !.affected = affected, !.mutate = mutate,
                                   !.supplied = supplied, !.text = text]
            IN (shardRefuses(r) => "shard" \in Failures) /\ run' = r
    BY Zenon DEF Begin
  <2>2. PICK mutate \in IF affected THEN SUBSET Files ELSE {{}},
             supplied \in IF env.adopted THEN Supplied \cup {NoReport} ELSE {NoReport} :
          run' = [NoRun EXCEPT !.env = env, !.affected = affected, !.mutate = mutate,
                               !.supplied = supplied, !.text = text]
    BY <2>1
  <2> QED BY <2>2, Zenon
<1>2. PICK env, affected, mutate, supplied :
        run' = [NoRun EXCEPT !.env = env, !.affected = affected, !.mutate = mutate,
                             !.supplied = supplied, !.text = text]
  BY <1>1
<1> QED BY <1>2 DEF NoRun

-----------------------------------------------------------------------------
(* What a pass of the policy says.                                         *)

\* The verdict "pass" outlives the step that reached it only as a verdict about
\* the files as they still are.
PassSays ==
  Passed =>
    /\ covers(evidence) # {}
    /\ \A f \in covers(evidence) : \/ evidence.status[f] = "Killed"
                                   \/ evidence.status[f] = "Survived" /\ Excused(f)

\* A pass, read back from the policy.
LEMMA PolicyPasses ==
  ASSUME policy(run, evidence) = "pass", ~Skip(run)
  PROVE  /\ covers(evidence) # {}
         /\ \A f \in covers(evidence) : \/ evidence.status[f] = "Killed"
                                        \/ evidence.status[f] = "Survived" /\ Excused(f)
<1>1. /\ covers(evidence) # {}
      /\ \A f \in covers(evidence) \ suppressed(evidence) : evidence.status[f] = "Killed"
  BY DEF policy
<1>2. \A f \in suppressed(evidence) : evidence.status[f] = "Survived" /\ Excused(f)
  BY DEF suppressed, Excused
<1> QED BY <1>1, <1>2

\* Only Judge reaches a verdict, and nothing but the text moves before Finish.
LEMMA PassSaysStep == PassSays /\ [Next]_vars => PassSays'
<1> SUFFICES ASSUME PassSays, [Next]_vars PROVE PassSays'
  OBVIOUS
<1>1. CASE Edit \/ UNCHANGED vars
  BY <1>1 DEF Edit, vars, runVars, PassSays, Passed, Skip, covers, Excused
<1>2. CASE Judge
  <2> SUFFICES ASSUME Passed' PROVE PassSays'
    BY DEF PassSays
  <2>1. UNCHANGED <<registry, evidence, run>> /\ policy(run, evidence) = "pass" /\ ~Skip(run)
    BY <1>2 DEF Judge, Passed, Skip
  <2> QED BY <2>1, PolicyPasses DEF PassSays, covers, Excused
<1>3. CASE \/ EditRegistry \/ Begin \/ ShardRefused \/ Adopt \/ ConfigFails \/ SkipAll \/ recall
           \/ StrykerStarts \/ StrykerEnds \/ StrykerFails \/ Rerun \/ PutBack
           \/ Forget \/ Remember \/ RememberNothing \/ Finish \/ Kill
  <2>1. pc' # "judged"
    BY <1>3 DEF EditRegistry, Begin, ShardRefused, Adopt, ConfigFails, SkipAll, recall,
                StrykerStarts, StrykerEnds, StrykerFails, Rerun, PutBack, Forget, Remember,
                RememberNothing, Finish, Kill, RunOver, ToolExits, ToolThrows, runVars
  <2> QED BY <2>1 DEF PassSays, Passed
<1> QED BY <1>1, <1>2, <1>3 DEF Next, RunStep

LEMMA PassSaysInit == Init => PassSays
BY DEF Init, PassSays, Passed

-----------------------------------------------------------------------------
(* What the full run saw.                                                  *)

\* A report says of every mutant what the full run saw, but for the timeouts
\* that were caught when run alone.
Seen(rep) ==
  /\ DOMAIN run.first = covers(rep)
  /\ \A f \in covers(rep) : \/ f \in rep.caught /\ run.first[f] = "Timeout"
                            \/ f \notin rep.caught /\ rep.status[f] = run.first[f]

FirstInv ==
  /\ pc \in {"started", "mutating"} => run.first = NoStatus
  /\ pc = "confirming" =>
       \/ run.first = NoStatus
       \/ Seen(report) /\ \A f \in todo : run.first[f] = "Timeout"
  /\ pc \in {"remembering", "keeping", "judging", "judged"} =>
       run.first = NoStatus \/ Seen(evidence)

\* Statuses leave the report only with a re-run of that mutant.
LEMMA FirstStep == TypeInv /\ FirstInv /\ [Next]_vars => FirstInv'
<1> SUFFICES ASSUME TypeInv, FirstInv, [Next]_vars PROVE FirstInv'
  OBVIOUS
<1> USE DEF FirstInv, runVars
<1>1. CASE Edit \/ UNCHANGED vars
  BY <1>1 DEF Edit, vars, Seen, covers
<1>2. CASE EditRegistry
  BY <1>2 DEF EditRegistry
<1>3. CASE Begin
  BY <1>3, BeginsAnew DEF Begin
<1>4. CASE ShardRefused \/ Adopt \/ ConfigFails \/ SkipAll \/ recall
  <2>1. pc = "started" /\ pc' = "judging"
    BY <1>4 DEF ShardRefused, Adopt, ConfigFails, SkipAll, recall, ToolExits, ToolThrows
  <2>2. \E code \in {0, 1} : \/ run' = [run EXCEPT !.exit = code]
                             \/ run' = [run EXCEPT !.exit = code, !.threw = TRUE]
    BY <1>4 DEF ShardRefused, Adopt, ConfigFails, SkipAll, recall, ToolExits, ToolThrows
  <2>3. run'.first = run.first
    BY <2>2 DEF TypeInv, Runs
  <2> QED BY <2>1, <2>3
<1>5. CASE StrykerStarts
  BY <1>5 DEF StrykerStarts, TypeInv, Runs
<1>6. CASE StrykerEnds
  <2>1. PICK status \in [plan(run) -> Status], exit \in {0, 1} :
          /\ report' = [text |-> run.copied, status |-> status, caught |-> {}]
          /\ todo' = ToConfirm(report')
          /\ run' = [run EXCEPT !.exit = exit, !.first = status]
    BY <1>6 DEF StrykerEnds
  <2>2. run'.first = status /\ report'.status = status /\ report'.caught = {}
    BY <2>1 DEF TypeInv, Runs
  <2>3. Seen(report)'
    BY <2>2 DEF Seen, covers
  <2>4. \A f \in todo' : run'.first[f] = "Timeout"
    BY <2>1, <2>2, ConfirmsTimeouts DEF timedOut
  <2> QED BY <1>6, <2>3, <2>4 DEF StrykerEnds
<1>7. CASE StrykerFails
  BY <1>7 DEF StrykerFails, TypeInv, Runs
<1>8. CASE Rerun
  <2>1. PICK f \in todo :
          /\ todo' = todo \ {f}
          /\ \/ report' = report
             \/ \E now \in Status : report' = RunAgain(report, f, now)
    BY <1>8 DEF Rerun, RunAgain
  <2>2. f \in covers(report) /\ pc = "confirming" /\ run' = run /\ pc' = pc
    BY <1>8, <2>1 DEF TypeInv, Rerun
  <2>3. report \in Report
    BY <2>2, NoReportIsEmpty DEF TypeInv, TypeOK
  <2>4. CASE run.first = NoStatus
    BY <2>2, <2>4
  <2>5. CASE Seen(report) /\ \A g \in todo : run.first[g] = "Timeout"
    <3>1. CASE report' = report
      BY <2>1, <2>2, <2>5, <3>1 DEF Seen, covers
    <3>2. ASSUME NEW now \in Status, report' = RunAgain(report, f, now)
          PROVE  Seen(report)'
      <4>1. /\ covers(report') = covers(report)
            /\ report'.caught = report.caught \cup {f}
            /\ \A g \in covers(report) \ {f} : report'.status[g] = report.status[g]
        BY <2>2, <2>3, <3>2, RerunReport
      <4>2. run.first[f] = "Timeout"
        BY <2>1, <2>5
      <4> QED BY <2>2, <2>5, <4>1, <4>2 DEF Seen, covers
    <3> QED BY <2>1, <2>2, <2>5, <3>1, <3>2
  <2> QED BY <2>2, <2>4, <2>5
<1>9. CASE PutBack
  BY <1>9 DEF PutBack, Seen, covers
<1>10. CASE Forget \/ Remember \/ RememberNothing \/ Judge
  BY <1>10 DEF Forget, Remember, RememberNothing, Judge, Seen, covers
<1>11. CASE Finish \/ Kill
  BY <1>11 DEF Finish, Kill, RunOver
<1> QED BY <1>1, <1>2, <1>3, <1>4, <1>5, <1>6, <1>7, <1>8, <1>9, <1>10, <1>11 DEF Next, RunStep

\* What the full run saw decides, however many timeouts are run again, whatever
\* they end with, and whether or not people edit the text meanwhile.
THEOREM FullRunDecidesCorrect == Spec => []FullRunDecides
<1>1. Init => FirstInv
  BY DEF Init, FirstInv
<1>2. PassSays /\ FirstInv => FullRunDecides
  <2> SUFFICES ASSUME PassSays, FirstInv, Passed, NEW f \in DOMAIN run.first
               PROVE  /\ run.first[f] = "Survived" => Excused(f)
                      /\ run.first[f] = "Timeout" => f \in evidence.caught
    BY DEF FullRunDecides
  <2>1. run.first # NoStatus
    BY DEF NoStatus
  <2>2. Seen(evidence)
    BY <2>1 DEF FirstInv, Passed
  <2> QED BY <2>2 DEF PassSays, Seen
<1> QED BY <1>1, <1>2, TypeInit, TypeStep, PassSaysInit, PassSaysStep, FirstStep, PTL DEF Spec

-----------------------------------------------------------------------------
(* Whose evidence it is.                                                   *)

\* Evidence about the text and the plan of the run.
Own(rep) == rep.text = run.text /\ covers(rep) = plan(run)

\* The report is the run's own from the moment Stryker writes it to the verdict,
\* while the evidence file is another's again and again between.
OwnInv ==
  /\ pc # "idle" => run.text = text
  /\ run.threw => run.exit = 1
  /\ pc \in {"started", "mutating"} => ~run.threw
  /\ pc = "mutating" => run.copied = run.text
  /\ pc = "confirming" /\ ~run.threw => Own(report)
  /\ pc = "remembering" /\ ~run.threw => Own(evidence)
  /\ pc = "keeping" => Own(evidence) /\ \A f \in covers(evidence) : evidence.status[f] = "Killed"
  /\ pc \in {"judging", "judged"} /\ ~run.threw =>
       Skip(run) \/ evidence = NoReport \/ Own(evidence)
  /\ MemoIsFaithful

\* What is handed back was kept for the text and the plan of this run.
LEMMA RecallsOwn ==
  ASSUME TypeInv, OwnInv, pc = "started", memo.hash = inputsHash(run)
  PROVE  Own(memo.report)
<1>1. memo.hash.text = run.text /\ memo.hash.mutate = plan(run)
  BY DEF inputsHash
<1>2. run.text # 0
  BY MutationAssumption DEF TypeInv
<1>3. memo # NoMemo
  BY <1>1, <1>2 DEF NoMemo
<1> QED BY <1>1, <1>3 DEF OwnInv, MemoIsFaithful, Own

\* No step takes evidence for another's, given what is known at each point.
LEMMA OwnStep == NoEdits /\ TypeInv /\ OwnInv /\ [Next]_vars => OwnInv'
<1> SUFFICES ASSUME NoEdits, TypeInv, OwnInv, [Next]_vars PROVE OwnInv'
  OBVIOUS
<1> USE DEF OwnInv, runVars
<1>0. run \in Runs
  BY DEF TypeInv
<1>m. ASSUME memo' = memo PROVE MemoIsFaithful'
  BY <1>m DEF MemoIsFaithful, covers
<1>1. CASE Edit
  <2>1. pc = "idle" /\ UNCHANGED <<pc, run, evidence, report, memo>>
    BY <1>1 DEF Edit, NoEdits
  <2> QED BY <2>1, <1>m
<1>2. CASE EditRegistry
  BY <1>2, <1>m DEF EditRegistry
<1>3. CASE Begin
  <2>1. run'.text = text /\ run'.threw = FALSE /\ text' = text /\ pc' = "started" /\ memo' = memo
    BY <1>3, BeginsAnew DEF Begin
  <2> QED BY <2>1, <1>m
<1>4. ASSUME pc = "started", ToolThrows PROVE OwnInv'
  <2>1. run'.text = run.text /\ run'.threw = TRUE /\ run'.exit = 1
    BY <1>0, <1>4 DEF ToolThrows, Runs
  <2> QED BY <2>1, <1>4, <1>m DEF ToolThrows
<1>5. ASSUME pc = "started", NEW code \in {0, 1}, ToolExits(code), memo' = memo,
             Skip(run) \/ evidence' = NoReport
               \/ (evidence'.text = run.text /\ covers(evidence') = plan(run))
      PROVE  OwnInv'
  <2>1. /\ run'.text = run.text /\ run'.threw = run.threw
        /\ run'.env = run.env /\ run'.affected = run.affected /\ run'.mutate = run.mutate
    BY <1>0, <1>5 DEF ToolExits, Runs
  <2>2. Skip(run') = Skip(run) /\ plan(run') = plan(run)
    BY <2>1, PlanIsFixed
  <2>3. Skip(run)' \/ evidence' = NoReport \/ Own(evidence)'
    BY <1>5, <2>1, <2>2 DEF Own, covers
  <2> QED BY <2>1, <2>3, <1>5, <1>m DEF ToolExits
<1>6. CASE ShardRefused \/ ConfigFails
  BY <1>4, <1>6 DEF ShardRefused, ConfigFails
<1>7. CASE Adopt
  <2>1. pc = "started" /\ run.env.adopted /\ memo' = memo
    BY <1>7 DEF Adopt
  <2>2. plan(run) = targets(run)
    BY <2>1 DEF plan, shardOf
  <2>3. CASE /\ covers(run.supplied) = targets(run) /\ run.supplied.text = text
             /\ evidence' = run.supplied /\ ToolExits(0)
    BY <1>5, <2>1, <2>2, <2>3
  <2>4. CASE evidence' = NoReport /\ ToolExits(1)
    BY <1>5, <2>1, <2>4
  <2> QED BY <1>7, <2>3, <2>4 DEF Adopt
<1>8. CASE SkipAll
  BY <1>5, <1>8 DEF SkipAll
<1>9. CASE recall
  <2>1. Own(memo.report)
    BY <1>9, RecallsOwn DEF recall, CanRecall
  <2> QED BY <1>5, <1>9, <2>1 DEF recall, Own
<1>10. CASE StrykerStarts
  <2>1. run'.text = run.text /\ run'.threw = run.threw /\ run'.copied = text
    BY <1>0, <1>10 DEF StrykerStarts, Runs
  <2> QED BY <2>1, <1>10, <1>m DEF StrykerStarts
<1>11. CASE StrykerEnds
  <2>1. PICK status \in [plan(run) -> Status], exit \in {0, 1} :
          /\ report' = [text |-> run.copied, status |-> status, caught |-> {}]
          /\ run' = [run EXCEPT !.exit = exit, !.first = status]
    BY <1>11 DEF StrykerEnds
  <2>2. /\ run'.text = run.text /\ run'.threw = run.threw
        /\ run'.env = run.env /\ run'.affected = run.affected /\ run'.mutate = run.mutate
    BY <1>0, <2>1 DEF Runs
  <2>3. plan(run') = plan(run)
    BY <2>2, PlanIsFixed
  <2>4. Own(report)'
    BY <1>11, <2>1, <2>2, <2>3 DEF StrykerEnds, Own, covers
  <2> QED BY <1>11, <2>2, <2>4, <1>m DEF StrykerEnds
<1>12. CASE StrykerFails
  <2>1. run'.text = run.text /\ run'.threw = TRUE /\ run'.exit = 1
    BY <1>0, <1>12 DEF StrykerFails, Runs
  <2> QED BY <2>1, <1>12, <1>m DEF StrykerFails
<1>13. CASE Rerun
  <2>1. PICK f \in todo : \/ report' = report
                          \/ \E now \in Status : report' = RunAgain(report, f, now)
    BY <1>13 DEF Rerun, RunAgain
  <2>2. f \in covers(report) /\ report \in Report
    <3>1. f \in covers(report)
      BY <1>13 DEF Rerun, TypeInv
    <3> QED BY <3>1, NoReportIsEmpty DEF TypeInv, TypeOK
  <2>3. report'.text = report.text /\ covers(report') = covers(report)
    BY <2>1, <2>2, RerunReport
  <2>4. pc = "confirming" /\ pc' = pc /\ run' = run /\ text' = text /\ memo' = memo
    BY <1>13 DEF Rerun
  <2>5. ~run.threw => Own(report)'
    BY <2>3, <2>4 DEF Own, covers
  <2> QED BY <2>4, <2>5, <1>m
<1>14. CASE PutBack
  BY <1>14, <1>m DEF PutBack, Own, covers
<1>15. CASE Forget
  <2>1. ~run.threw /\ \A f \in covers(evidence) : evidence.status[f] = "Killed"
    BY <1>15 DEF Forget, Kept, isClean
  <2>2. MemoIsFaithful'
    BY <1>15 DEF Forget, MemoIsFaithful
  <2> QED BY <1>15, <2>1, <2>2 DEF Forget, Own, covers
<1>16. CASE Remember
  <2>1. memo'.report = evidence /\ memo'.hash.text = run.text /\ memo'.hash.mutate = plan(run)
    BY <1>16 DEF Remember, inputsHash
  <2>2. MemoIsFaithful'
    BY <1>16, <2>1 DEF Remember, Own, MemoIsFaithful, covers
  <2> QED BY <1>16, <2>2 DEF Remember, Own, covers
<1>17. CASE RememberNothing \/ Judge
  BY <1>17, <1>m DEF RememberNothing, Judge, Own, covers, Skip
<1>18. CASE Finish \/ Kill
  <2>1. pc' = "idle" /\ run'.threw = FALSE
    BY <1>18 DEF Finish, Kill, RunOver, NoRun
  <2>2. MemoIsFaithful'
    <3>1. CASE memo' = memo
      BY <3>1, <1>m
    <3>2. CASE memo' = NoMemo
      BY <3>2 DEF MemoIsFaithful
    <3> QED BY <1>18, <3>1, <3>2 DEF Finish, Kill
  <2> QED BY <2>1, <2>2
<1>19. CASE UNCHANGED vars
  BY <1>19, <1>m DEF vars, Own, covers, Skip
<1> QED BY <1>1, <1>2, <1>3, <1>6, <1>7, <1>8, <1>9, <1>10, <1>11, <1>12, <1>13, <1>14,
           <1>15, <1>16, <1>17, <1>18, <1>19 DEF Next, RunStep

LEMMA OwnInit == Init => OwnInv
BY DEF Init, OwnInv, MemoIsFaithful, NoRun

\* While nobody edits the package during a run, what is kept is a clean result
\* for exactly the inputs it is kept for.
THEOREM MemoIsFaithfulCorrect ==
  ASSUME NoEdits
  PROVE  Spec => []MemoIsFaithful
<1>1. OwnInv => MemoIsFaithful
  BY DEF OwnInv
<1>2. TypeInv /\ OwnInv /\ [Next]_vars => OwnInv'
  BY OwnStep
<1> QED BY <1>1, <1>2, TypeInit, TypeStep, OwnInit, PTL DEF Spec

\* While nobody edits the package during a run, a pass rests on evidence about
\* the text and the plan of the run, whatever was killed, refused, reused, run
\* again or left behind before: all that is needed is that no tool threw.
THEOREM PassIsEarnedCorrect ==
  ASSUME NoEdits
  PROVE  Spec => []PassIsEarned
<1>1. OwnInv /\ PassSays => PassIsEarned
  <2> SUFFICES ASSUME OwnInv, PassSays, Passed, ~run.threw
               PROVE  /\ evidence.text = run.text
                      /\ covers(evidence) = plan(run)
                      /\ \A f \in plan(run) : \/ evidence.status[f] = "Killed"
                                              \/ evidence.status[f] = "Survived" /\ Excused(f)
    BY DEF PassIsEarned
  <2>1. covers(evidence) # {}
    BY DEF PassSays
  <2>2. Own(evidence)
    BY <2>1, NoReportIsEmpty DEF OwnInv, Passed
  <2> QED BY <2>2 DEF PassSays, Own
<1>2. TypeInv /\ OwnInv /\ [Next]_vars => OwnInv'
  BY OwnStep
<1> QED BY <1>1, <1>2, TypeInit, TypeStep, OwnInit, PassSaysInit, PassSaysStep, PTL DEF Spec

=============================================================================
