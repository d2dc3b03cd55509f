-------------------------- MODULE MutationEvidence --------------------------
(***************************************************************************)
(* The Mutation check: scripts/run-mutation.mjs decides whether to mutate, *)
(* to reuse or to adopt a report, leaves its evidence in                   *)
(* reports/mutation/mutation.json, and the policy of checks/mutation.ts    *)
(* judges what it finds there.  The two are different processes that share *)
(* that file only: the policy sees whether the tool was terminated, not    *)
(* what it exited with.                                                    *)
(*                                                                         *)
(* A source file has one mutant.  The text of the package is a version.    *)
(***************************************************************************)
EXTENDS Naturals, FiniteSets

CONSTANTS
  Files,              \* the sources a full run mutates
  Texts,              \* the versions of the package's text, numbers from 1
  Shards,             \* n of IPC_MUTATION_SHARD=i/n
  MAXIMUM_CONFIRMED,  \* the most timeouts that are run again
  Registries,         \* the exception registries a person may keep
  Envs,               \* the environments a run may be given
  Failures,           \* which tools may fail: "stryker", "shard", "config"
  EditsWhileRunning   \* whether the text may change during a run

VARIABLES
  text,       \* the version on disk
  registry,   \* .repo-contract/exceptions/mutation.json
  evidence,   \* reports/mutation/mutation.json
  memo,       \* the kept report and the inputs it is for
  pc,         \* where the run is
  run,        \* what the run was given and computed once; history: `copied`,
              \* `first` (what the full run saw) and `threw`
  report,     \* the report confirmEvidence holds in memory
  todo,       \* the timeouts it has still to run again
  verdict     \* the policy's outcome

runVars == <<pc, run, report, todo, verdict>>
vars == <<text, registry, evidence, memo, runVars>>

Status == {"Killed", "Survived", "Timeout"}
NoStatus == [f \in {} |-> "Killed"]

\* `caught`: the mutants whose reason says they were caught when run alone.
Report == [text : Texts,
           status : UNION {[S -> Status] : S \in (SUBSET Files) \ {{}}},
           caught : SUBSET Files]
Supplied == {rep \in Report : rep.caught = {}}
NoReport == [text |-> 0, status |-> NoStatus, caught |-> {}]

covers(rep) == DOMAIN rep.status
timedOut(rep) == {f \in covers(rep) : rep.status[f] = "Timeout"}

\* A record for the mutant of a file, or for one that is gone; it is complete
\* when it has every field the exception policy requires.
Gone == "gone"
Record == [of : Files \cup {Gone}, complete : BOOLEAN]

\* shard: 0 for none; adopted: IPC_MUTATION_REPORT; reuse: neither CI nor
\* IPC_MUTATION_MEMO=0; affected: the scope is "affected", of `mutate`.
Env == [shard : 0 .. Shards, adopted : BOOLEAN, reuse : BOOLEAN]

ASSUME MutationAssumption ==
  /\ IsFiniteSet(Files) /\ Files # {} /\ Gone \notin Files
  /\ Texts \subseteq Nat \ {0}
  /\ Shards \in Nat \ {0}
  /\ MAXIMUM_CONFIRMED \in Nat
  /\ Registries \subseteq SUBSET Record
  /\ Envs \subseteq Env
  /\ Failures \subseteq {"stryker", "shard", "config"}
  /\ EditsWhileRunning \in BOOLEAN

-----------------------------------------------------------------------------
(* What a run mutates.                                                     *)

\* External: the slices of a plan, the same for the same files.
planShards(files) ==
  CHOOSE slices \in [1 .. Shards -> (SUBSET files) \ {{}}] :
    /\ UNION {slices[i] : i \in 1 .. Shards} = files
    /\ \A i, j \in 1 .. Shards : i # j => slices[i] \cap slices[j] = {}

\* The sources of an unsharded run.
targets(r) == IF r.affected THEN r.mutate ELSE Files

Skip(r) == r.affected /\ r.mutate = {}

\* A report to judge takes precedence over the shard.
shardOf(r) == IF r.env.adopted THEN 0 ELSE r.env.shard

shardRefuses(r) ==
  shardOf(r) # 0 /\ ~Skip(r) /\ Cardinality(targets(r)) < Shards

plan(r) == IF shardOf(r) = 0 THEN targets(r) ELSE planShards(targets(r))[shardOf(r)]

\* Fault: what the run was restricted to is no input.
inputsHash_TextOnly(r) == [text |-> r.text, key |-> "full", mutate |-> Files]

\* The text and what the run was restricted to.
inputsHash(r) ==
  [text   |-> r.text,
   key    |-> IF shardOf(r) # 0 THEN "shard" ELSE IF r.affected THEN "affected" ELSE "full",
   mutate |-> plan(r)]

NoMemo == [hash |-> [text |-> 0, key |-> "full", mutate |-> {}], report |-> NoReport]

isClean(rep) == covers(rep) # {} /\ \A f \in covers(rep) : rep.status[f] = "Killed"

-----------------------------------------------------------------------------
(* The policy.                                                             *)

Matched(rec, rep) == rec.of \in covers(rep)

stale(rep) == {rec \in registry : ~Matched(rec, rep)}
insufficient(rep) == {rec \in registry : Matched(rec, rep) /\ ~rec.complete}

\* Fault: an exception excuses its mutant whatever became of it.
suppressed_AnyStatus(rep) ==
  {f \in covers(rep) : \E rec \in registry : rec.of = f /\ rec.complete}

\* An exception excuses a survivor, never a timeout.
suppressed(rep) ==
  {f \in covers(rep) : /\ rep.status[f] = "Survived"
                       /\ \E rec \in registry : rec.of = f /\ rec.complete}

\* Only an unnarrowed and unsharded run says a record is stale; the policy
\* takes the shard from the environment.
policy(r, rep) ==
  IF Skip(r) THEN IF r.env.adopted THEN "fail" ELSE "pass"
  ELSE IF /\ covers(rep) # {}
          /\ insufficient(rep) = {}
          /\ r.affected \/ r.env.shard # 0 \/ stale(rep) = {}
          /\ \A f \in covers(rep) \ suppressed(rep) : rep.status[f] = "Killed"
       THEN "pass" ELSE "fail"

-----------------------------------------------------------------------------
NoRun == [env |-> [shard |-> 0, adopted |-> FALSE, reuse |-> FALSE],
          affected |-> FALSE, mutate |-> {}, supplied |-> NoReport,
          text |-> 0, copied |-> 0, exit |-> 0, threw |-> FALSE, first |-> NoStatus]

Init ==
  /\ text \in Texts
  /\ registry \in Registries
  /\ evidence = NoReport
  /\ memo = NoMemo
  /\ pc = "idle"
  /\ run = NoRun
  /\ report = NoReport
  /\ todo = {}
  /\ verdict = "none"

\* A person, or `git checkout`, changes the package.
Edit ==
  /\ pc = "idle" \/ EditsWhileRunning
  /\ text' \in Texts
  /\ UNCHANGED <<registry, evidence, memo, runVars>>

EditRegistry ==
  /\ pc = "idle"
  /\ registry' \in Registries
  /\ UNCHANGED <<text, evidence, memo, runVars>>

\* A run starts: its scope is read, its targets are planned and its inputs
\* hashed.  `supplied` is the file IPC_MUTATION_REPORT names: slices that were
\* merged elsewhere, perhaps of another text or plan.
Begin ==
  /\ pc = "idle"
  /\ \E env \in Envs, affected \in BOOLEAN :
     \E mutate \in IF affected THEN SUBSET Files ELSE {{}} :
     \E supplied \in IF env.adopted THEN Supplied \cup {NoReport} ELSE {NoReport} :
       LET r == [NoRun EXCEPT !.env = env, !.affected = affected, !.mutate = mutate,
                              !.supplied = supplied, !.text = text]
       IN /\ shardRefuses(r) => "shard" \in Failures
          /\ run' = r
  /\ pc' = "started"
  /\ UNCHANGED <<text, registry, evidence, memo, report, todo, verdict>>

\* The tool ends without having mutated.
ToolExits(code) ==
  /\ pc' = "judging"
  /\ run' = [run EXCEPT !.exit = code]
  /\ UNCHANGED <<text, registry, report, todo, verdict>>

\* It ends with an exception, and the evidence stays as it was.
ToolThrows ==
  /\ pc' = "judging"
  /\ run' = [run EXCEPT !.exit = 1, !.threw = TRUE]
  /\ UNCHANGED <<text, registry, evidence, memo, report, todo, verdict>>

\* More slices than files, or a selector that cannot be read: it throws.
ShardRefused ==
  /\ pc = "started" /\ shardRefuses(run)
  /\ ToolThrows

\* Fault: the evidence of an earlier run stays when a report is refused.
Adopt_KeepsOld ==
  /\ pc = "started" /\ run.env.adopted
  /\ IF /\ ~Skip(run) /\ run.supplied # NoReport
        /\ covers(run.supplied) = targets(run) /\ run.supplied.text = text
     THEN evidence' = run.supplied /\ ToolExits(0)
     ELSE evidence' = evidence /\ ToolExits(1)
  /\ UNCHANGED memo

\* The old evidence is removed; the report becomes the evidence when it covers
\* the files of the plan and holds the text on disk.
Adopt ==
  /\ pc = "started" /\ run.env.adopted
  /\ IF /\ ~Skip(run) /\ run.supplied # NoReport
        /\ covers(run.supplied) = targets(run) /\ run.supplied.text = text
     THEN evidence' = run.supplied /\ ToolExits(0)
     ELSE evidence' = NoReport /\ ToolExits(1)
  /\ UNCHANGED memo

\* The Stryker configuration, which names the files of the plan, is loaded
\* before the old evidence is removed; when it does not load, that throws.
ConfigFails ==
  /\ pc = "started" /\ "config" \in Failures
  /\ ~Skip(run) /\ ~run.affected
  /\ run.env.adopted \/ shardOf(run) # 0
  /\ ToolThrows

SkipAll ==
  /\ pc = "started" /\ ~run.env.adopted /\ Skip(run)
  /\ ToolExits(0)
  /\ UNCHANGED <<evidence, memo>>

CanRecall == run.env.reuse /\ memo.hash = inputsHash(run)

recall ==
  /\ pc = "started" /\ ~run.env.adopted /\ ~Skip(run) /\ ~shardRefuses(run)
  /\ CanRecall
  /\ evidence' = memo.report
  /\ ToolExits(0)
  /\ UNCHANGED memo

\* Stryker copies the package into its sandbox.
StrykerStarts ==
  /\ pc = "started" /\ ~run.env.adopted /\ ~Skip(run) /\ ~shardRefuses(run)
  /\ ~CanRecall
  /\ pc' = "mutating"
  /\ run' = [run EXCEPT !.copied = text]
  /\ UNCHANGED <<text, registry, evidence, memo, report, todo, verdict>>

\* confirmEvidence reads the evidence and finds what it will run again.
ToConfirm(rep) ==
  IF Cardinality(timedOut(rep)) > MAXIMUM_CONFIRMED THEN {} ELSE timedOut(rep)

\* Stryker writes a report; a threshold of the package may make it exit 1.
StrykerEnds ==
  /\ pc = "mutating"
  /\ \E status \in [plan(run) -> Status], exit \in {0, 1} :
       LET rep == [text |-> run.copied, status |-> status, caught |-> {}]
       IN /\ evidence' = rep
          /\ report' = rep
          /\ todo' = ToConfirm(rep)
          /\ run' = [run EXCEPT !.exit = exit, !.first = status]
  /\ pc' = "confirming"
  /\ UNCHANGED <<text, registry, memo, verdict>>

\* Stryker fails before it writes one (its dry run fails, it does not start):
\* the evidence of an earlier run stays, and its timeouts are run again.
StrykerFails ==
  /\ pc = "mutating" /\ "stryker" \in Failures
  /\ report' = evidence
  /\ todo' \in {{}, ToConfirm(evidence)}
  /\ run' = [run EXCEPT !.exit = 1, !.threw = TRUE]
  /\ pc' = "confirming"
  /\ UNCHANGED <<text, registry, evidence, memo, verdict>>

\* Fault: a re-run whose report lacks the mutant gives it no status.
Rerun_NoStatus ==
  /\ pc = "confirming"
  /\ \E f \in todo, now \in Status \cup {"undefined"} :
       /\ todo' = todo \ {f}
       /\ evidence' = NoReport
       /\ report' = IF now = "Timeout" THEN report ELSE [report EXCEPT !.status[f] = now]
  /\ UNCHANGED <<text, registry, memo, pc, run, verdict>>

\* One timeout is run again alone.  Stryker's report of it takes the place of
\* the full one; without one the mutant stays what it was.
Rerun ==
  /\ pc = "confirming"
  /\ \E f \in todo :
       /\ todo' = todo \ {f}
       /\ \/ /\ evidence' = NoReport
             /\ UNCHANGED report
          \/ \E now \in Status :
               /\ evidence' = [text |-> text, status |-> [g \in {f} |-> now], caught |-> {}]
               /\ report' = IF now = "Timeout" THEN report
                            ELSE [report EXCEPT !.status[f] = now, !.caught = @ \cup {f}]
  /\ UNCHANGED <<text, registry, memo, pc, run, verdict>>

\* The full report goes back, with what the re-runs found.
PutBack ==
  /\ pc = "confirming" /\ todo = {}
  /\ evidence' = report
  /\ pc' = "remembering"
  /\ UNCHANGED <<text, registry, memo, run, report, todo, verdict>>

Kept == run.exit = 0 /\ isClean(evidence)

\* remember removes what was kept before it keeps the new evidence.
Forget ==
  /\ pc = "remembering" /\ Kept
  /\ memo' = NoMemo
  /\ pc' = "keeping"
  /\ UNCHANGED <<text, registry, evidence, run, report, todo, verdict>>

Remember ==
  /\ pc = "keeping"
  /\ memo' = [hash |-> inputsHash(run), report |-> evidence]
  /\ pc' = "judging"
  /\ UNCHANGED <<text, registry, evidence, run, report, todo, verdict>>

RememberNothing ==
  /\ pc = "remembering" /\ ~Kept
  /\ pc' = "judging"
  /\ UNCHANGED <<text, registry, evidence, memo, run, report, todo, verdict>>

\* The tool has ended and the policy reads the evidence.
Judge ==
  /\ pc = "judging"
  /\ verdict' = policy(run, evidence)
  /\ pc' = "judged"
  /\ UNCHANGED <<text, registry, evidence, memo, run, report, todo>>

RunOver ==
  /\ pc' = "idle"
  /\ run' = NoRun /\ report' = NoReport /\ todo' = {} /\ verdict' = "none"
  /\ UNCHANGED <<text, registry>>

\* The contract's cleanUp may remove the tool reports.
Finish ==
  /\ pc = "judged"
  /\ \/ UNCHANGED <<evidence, memo>>
     \/ evidence' = NoReport /\ memo' = NoMemo
  /\ RunOver

\* The tool is killed, or exceeds its time limit: the check fails.
Kill ==
  /\ pc \notin {"idle", "judged"}
  /\ RunOver
  /\ UNCHANGED <<evidence, memo>>

RunStep ==
  \/ ShardRefused \/ Adopt \/ ConfigFails \/ SkipAll \/ recall
  \/ StrykerStarts \/ StrykerEnds \/ StrykerFails
  \/ Rerun \/ PutBack
  \/ Forget \/ Remember \/ RememberNothing
  \/ Judge \/ Finish

Next == Edit \/ EditRegistry \/ Begin \/ RunStep \/ Kill

Spec == Init /\ [][Next]_vars

-----------------------------------------------------------------------------
(* Properties.                                                             *)

TypeOK ==
  /\ text \in Texts
  /\ registry \in Registries
  /\ evidence \in Report \cup {NoReport}
  /\ memo.report \in Report \cup {NoReport}
  /\ pc \in {"idle", "started", "mutating", "confirming", "remembering",
             "keeping", "judging", "judged"}
  /\ run.env \in Env /\ run.mutate \in SUBSET Files
  /\ report \in Report \cup {NoReport}
  /\ todo \in SUBSET Files
  /\ verdict \in {"none", "pass", "fail"}

Passed == pc = "judged" /\ verdict = "pass" /\ ~Skip(run)

Excused(f) == \E rec \in registry : rec.of = f /\ rec.complete

\* A pass is earned by evidence about this run: the evidence judged is of the
\* text the run was started on and of exactly the files it planned, not of an
\* earlier run, of another slice, of one mutant run again, or of a refused
\* report - and every mutant in it was killed or has a complete exception.  Of
\* a tool that threw without a report this is false, see FailedToolFails.
PassIsEarned ==
  Passed /\ ~run.threw =>
    /\ evidence.text = run.text
    /\ covers(evidence) = plan(run)
    /\ \A f \in plan(run) : \/ evidence.status[f] = "Killed"
                            \/ evidence.status[f] = "Survived" /\ Excused(f)

\* What the full run saw decides: a pass never hides a mutant that survived it
\* without an exception, nor a timeout that was not seen to end when run alone.
FullRunDecides ==
  Passed =>
    \A f \in DOMAIN run.first :
      /\ run.first[f] = "Survived" => Excused(f)
      /\ run.first[f] = "Timeout" => f \in evidence.caught

\* What is kept was a clean result for exactly the inputs it is kept for, so
\* that handing it back says what mutating again would be judged by.
MemoIsFaithful ==
  memo # NoMemo =>
    /\ memo.report.text = memo.hash.text
    /\ covers(memo.report) = memo.hash.mutate
    /\ \A f \in covers(memo.report) : memo.report.status[f] = "Killed"

-----------------------------------------------------------------------------
(* What the repository says of the check and the code does not do.         *)

\* "Stryker's own dry run fails ... and so does the check"
\* (scripts/run-mutation.mjs:10) and "a failed adoption can never be judged as
\* if it had succeeded" (scripts/mutation/adopt.mjs:7): a tool that threw is
\* not judged by the evidence of an earlier run.
FailedToolFails == Passed => ~run.threw

=============================================================================
