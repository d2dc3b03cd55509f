# internal-package-contract in TLA+

`internal-package-contract` is the standard a set of npm packages keeps: a
command, `contract`, that runs dozens of checks over a package and sets an exit
code, the scripts the checks call, and the workflows that release a package once
its checks pass. What it decides is trusted without being read: a green run is
merged, a merged version is published. This directory models how those decisions
are reached - not what each linter or scanner finds - and proves what it can
about them. Paths below are those of the repository (`scripts/...`).

| Module | What it is |
|---|---|
| `ContractGate` | abstract: what the exit code of a run promises |
| `CheckSelection` | which checks a run selects, and in which phase each runs |
| `Adoption` | adoption mode: the file, the clock, promotion, forgiveness |
| `ContractRun` | a run of the contract, from the checks asked for to the exit code |
| `ChangedRun` | `--changed` over a working tree that people change |
| `MutationEvidence` | the Mutation check: wrapper, memo, re-runs, evidence, policy |
| `ApiClassifier` | how a change of declarations is rated |
| `SurfaceClassifier` | how a change of CLIs, schemas and the action is rated |
| `SemverGate` | the two semver checks and the baselines, as functions of a commit |
| `SemverRelease` | from a merged change to a published version |
| `ExceptionPolicy` | what a record may be, and what it excuses |
| `Exceptions` | one check with a registry that people edit while it runs |
| `ToolReports`, `RepositoryChecks` | what each check makes of its tool's output |
| `SuppressionScan` | which comments the Suppressions check asks a record for |
| `SocketScore` | the score lookup: retries, fallback, cache |
| `ManagedFiles` | sync and upgrade of the files this package owns in another |
| `RegistryRuns` | the last seven together: thirteen checks at work |
| `ContractRunProofs`, `ChangedRunProofs`, `MutationProofs`, `ClassifierProofs`, `SemverProofs` | theorems about the modules they are named after; adoption's are in the first |
| `ToolProofs`, `ManagedProofs`, `RegistryProofs` | theorems about `RegistryRuns`: its tools' reports, its commands, and the whole |
| `MCContractRun`, `MCChangedRun`, `MCMutationEvidence`, `MCSemverRelease`, `MCRegistryRuns` | instances for TLC |

## The system

Each entry: what the part keeps, what it does, whom it talks to, what is hard
about it, and what makes it correct.

**Contract run loop** (`scripts/contract-run.mjs`, `contract-args`,
`contract-phases`, `contract-report`, `contract-prepare`). Keeps, in memory, the
selected checks and their results, and on disk `reports/contract`; it writes and
cleans `coverage/`, `reports/` and `.stryker-tmp`. It selects, starts the engine
(`repo-contract`, a dependency) for one or two phases, cleans up, reads the
adoption file, builds the report and sets the exit code. Hard: checks end in any
order; the adoption file may be promoted, edited or expire while they run and is
read once by AdoptionMode and again at the end; the process may be killed
anywhere; the verdict is reached by counting. Correct when the exit code is the
one the rules describe, no selected check is lost, the metered Socket scan comes
last, and a run deletes only what it made.

**Changed-file selection** (`scripts/changed.mjs`). Keeps nothing: asks git three
questions and maps kinds of changed file to checks. Hard: a change is committed,
in the index, in the tree or new, moves from one to the other, and may be hidden
by another; a push changes what git compares with; git may fail. Correct when no
check is dropped that a file can affect which is not as it was.

**Adoption mode** (`scripts/adoption/mode.mjs`, `checks/adoption-mode.ts`). Keeps
`.repo-contract/adoption.json`: an end date and the promoted checks. `init` writes
it, `promote` edits or deletes it, people edit it. Hard: time passes, the date may
be none. Correct when adopting ends and forgives only unpromoted failures.

**Mutation check** (`scripts/run-mutation.mjs`, `scripts/mutation/*`,
`checks/mutation.ts`). Keeps `reports/mutation/mutation.json` (the evidence), a
memo of the last clean result and the inputs it was for, and a person's exception
registry. Two processes, the tool and the policy, share only the evidence file.
Hard: evidence of an earlier run, another slice or a single re-run mutant may be
lying there; timeouts are run again one by one through that same file; kills,
edits and failing tools come between. Correct when a pass rests on evidence about
this text and this plan.

**Semver checks** (`checks/api-contract.ts`, `scripts/api-contract/*`,
`checks/surface-contract.ts`, `scripts/surface-contract/*`). Keep a committed
baseline per API entry point and one for the CLIs, schemas and action. They
rate the difference (`compatibility-classifier.ts`, `classify.ts`), derive the
version bump it needs and ask whether the changesets declare it or the version
already has it. Hard: every kind of change is rated by itself and the whole by the
worst; the rules shift at 1.0.0; one version stands for all baselines; a version
that was bumped counts as declared; an unclassifiable difference only warns.
Correct when "compatible" is, and what npm receives keeps semantic versioning.

**Release pipeline** (`.github/workflows/release-npm-changesets.yml`,
`api-baseline-sync.yml`, `scripts/generate-changeset-from-commits.mjs`). Keeps a
release pull request that it rebuilds on every push to `main`, and publishes `main`
when no changeset is pending. Hard: rebuilds drop the synced baselines; people merge
at any moment; a crash between `npm publish` and the tag. Correct when releases
are neither stuck nor wrong.

**Exception registries** (`checks/exception-record.ts`,
`checks/environment-exceptions.ts`, `scripts/exceptions-inventory.mjs`). JSON
files in `.repo-contract/exceptions`, one per check, each record excusing one
finding; `environment.json` accepts reasons for which a check could not run. A
check loads its file, reconciles it with what was found - a blank record for a new
finding, a stale one kept and reported - and writes it back before it decides.
Hard: people edit while a tool runs for minutes and the file is then rewritten
whole; writes fail or are killed; days pass. Correct when a green check owes
nothing to an incomplete, foreign or expired record, and no record is lost.

**CodeRabbit review** (`scripts/coderabbitai/*`). A reviewer's command line prints
a stream of events; the findings become registry records. Hard: a stream that was
cut, mangled, or belongs to an earlier attempt reads like a clean review. Correct
when only a whole review is judged.

**Socket score** (`scripts/socket-package-score.mjs`, `socket-score-cache.mjs`).
A metered API asked with retries, first about the own version, then about the
latest published one, with a cache that lives a day. Hard: every try may be
refused; what was cached grows old while alerts and versions appear. Correct when
the lookup ends and what is judged was said at most a day ago.

**Dependency and code scanning** (`checks/security-deps.ts`, `security-dev-deps.ts`,
`code-scanning.ts`, `dist-no-urls.ts`, `suppressions.ts` and their scripts). Each
turns one tool's output into findings; GitHub's alerts come in pages that change
while they are read, and suppressions are read off source text. Correct when
the list that is judged is whole and exact.

**Managed files** (`scripts/managed-files/*`, `scripts/upgrade/*`,
`checks/managed-files.ts`). Keep files of this package in other repositories:
workflows whose calls are pinned to a commit, and copies. `sync` writes file by
file under four flags, `upgrade` installs, repins, syncs and generates. Hard: any
step may be skipped, fail or be killed after the others; people edit the files and
`package.json`, commit and restore. Correct when success means that every file the
package lists is there and current.

**Repository and package checks** (`checks/docs-links.ts`, `accessibility.ts`,
`commits.ts`, `branch-protection.ts`, `packed-consumer.ts`, `bin/scaffold.mjs` and
`scripts/github-repo.mjs` for the rulesets). Each may be unable to run where it is
run and then asks `environment.json`. Hard: telling "could not run" from "found
nothing"; `init` completes rulesets it did not write, and goes on when GitHub
refuses. Correct when what init says it left is what the check asks for.

**Affected scope** (`scripts/affected-scope.mjs`): a pure function from changed
globs to what one check is restricted to. An input of `MutationEvidence`.

`PROJECT.json` lists every component with its sources, those that are not modelled
too; the reasons are under Not modelled.

## Plan

The order in which the modules were written, the most important behaviour first.

1. **Run, selection, adoption** - `Adoption`, `CheckSelection`, `ContractRun` which
   extends the first and instantiates the second, `ChangedRun` which extends the
   second; abstract specification `ContractGate`. *Checked and proved.*
2. **Mutation evidence** - `MutationEvidence`. *Checked and proved.*
3. **Semver and releases** - `SemverGate`, `SemverRelease` which extends it, and the
   classifiers that stand behind its constant `Impact`. *Checked and proved.*
4. **Registries and their checks** - `ExceptionPolicy`, `Exceptions`, the modules of
   their tools, and `RegistryRuns` which composes them. *Checked and proved.*
5. Left, and worth doing next: publication as separate steps (npm, tag, floating tag,
   release) below `SemverRelease`'s `Publish`; a baseline as the three files it is;
   the `init` and `recipes` commands beyond the rulesets and the adoption file.

## Run, selection, adoption

### From the code to the model

`ContractRun` follows one process through `runContract`.

| State | Code |
|---|---|
| `selected`, `strict` | the parsed arguments, narrowed by `--changed` |
| `pending`, `deferred`, `skipped` | `planPhases` and the two `runRepoContract` calls |
| `results` | `result.outcome` of each check, with `unexcepted` for a `not-evaluated` that has no exception |
| `disk`, `before` | `coverage/`, `reports/`, tool reports in it, `.stryker-tmp`; `before` is what `created` is computed from |
| `verdict` | the object `buildReport` returns |
| `exitCode` | `process.exitCode` |
| `adoption`, `today`, `begun` | `.repo-contract/adoption.json`, the clock; history |

| Action | Code |
|---|---|
| `Begin`, `Refuse` | `runContract` up to the first phase; `selectChecks` throwing |
| `CheckEnds(c)` | a policy returns; AdoptionMode's reads the file then. Its tool has added to the tree; Mutation's may also have removed the evidence (`scripts/mutation/adopt.mjs:41`, `confirm-timeouts.mjs:81`) or the sandbox |
| `EndPhaseOne`, `EndPhaseTwo` | the branch on the first phase's `verdict.passed` |
| `Clean` | the `finally`: `cleanUp` |
| `EngineThrows` | the same `finally` with an exception passing through |
| `Judge`, `Report` | `readAdoption` and `buildReport`; the report files and the exit code |
| `Kill` | no `finally` |
| `PersonWorks`, `StartAdoption`, `Promote`, `PromoteAll`, `HandEdit`, `DayPasses` | everyone else |

The engine is external: it runs the checks it is given and those they depend on,
and its verdict passes when no outcome is `fail`. What the engine does with an empty
list of checks, the `npm` script of `prepare`, logs and Markdown are left out.

`ChangedRun` is a clone: `base`, `upstream`, `head` and `files` are trees, from paths
to texts - where the branch left the default one, what was pushed of it, its last
commit, the working tree - and `added` is what the index knows of new paths. People
edit, add, commit, push, delete and move files, and branches are merged. What git
prints is computed from the trees (`Differing`, `DiffNames`, `Listings`), and
`SelectChanged` is `changedFiles` and `selectChanged` on it. A file is moved when one
with its text appears; that git also takes similar texts for a move is left out. The
three listings are read in one step: people who edit between two `git` calls of one
run are left out.

### Checked

| Run | States | Shows |
|---|---|---|
| `gate` | 253 thousand | exit code, selection, order, end of a run and of adoption |
| `workspace` | 2.9 million | what a run leaves behind and what it deletes |
| `changed` | 1.6 million | `--changed` drops nothing while git answers |
| `promoted_skipped` | violation | see Findings |
| `changed_git_fails` | violation | see Findings |

*Bounds.* `gate` has three checks: an ordinary one, AdoptionMode and SecuritySocket,
the only two the code names; every outcome for each. Failures forgiven and not
forgiven together need two failing checks, and there are three. `Days = 0` and
`MaxDay = 1` make a mode expire on the second day, so it may expire before, while
or after the checks run. People may write an invalid file but no file of their own
end date, which would make `AdoptionEnds` false by design. No check depends on
another here; `SocketComesLastCorrect` is proved with dependencies. `workspace` has
two checks that write and every working tree that may exist. `changed` has a check of
every kind the selection distinguishes, a document, two workflows with the same text,
one of which the other may become, and a source file, in every clone that people can
make of them; a file that is moved stays of its kind (see Also seen).

*Properties.* `VerdictIsExact` and the refinement `GateSpec` state the exit code
twice: once of the final state, from the results and the file read, and once as
behaviour - `ContractGate` knows nothing of phases, counts, files or clocks, and a
run implements it with `found <- results` and `decision` read off `pc` and
`verdict`. `PassMeansAllRan` is about checks that fall between the phases,
`SocketComesLast` about quota, `PersonsFilesSurvive` and `CleanedUp` about the disk,
over any sequence of finished and killed runs. `ChangedCoversTree` compares the working
tree with the tree git compares it with, file by file and knowing nothing of listings:
a file may be committed, then edited back, or new and hidden by a deletion. It is
about the tree git compares with, which of a branch that was pushed is its upstream and not
the default branch (see Also seen).

*Fairness.* `WF_vars(RunStep)` and nothing else: the engine gives every check a
time limit, so checks end, and a process that can go on does. Nobody is obliged to
start a run, promote a check or let a day pass, and a kill is only possible.
`RunEnds` uses it; every other property is safety. A run may be idle for ever but
never stuck, so deadlock is checked in every run.

### Proved

In `ContractRunProofs`, for every set of checks, dependencies,
outcomes, writes, working trees, length of adoption and clock:

* `TypeCorrect`, `AdoptionTypeCorrect`.
* `AdoptionEndsCorrect`, assuming people write only files that end in time
  (`HandWrittenEnds`). `AdoptionEnds` mentions the clock and is not inductive: a
  file with a far end date is active today and violates it later. `EndIsFixed`, a
  valid file ends at most `Days` after the adoption was begun, is, because
  `promote` keeps the dates.
* `VerdictCorrect`, from `RunInv == TypeOK /\ Phases /\ VerdictIsExact`. The code
  compares two cardinalities; the step that builds the verdict uses that the
  advisory failures are a subset of the failures and that both are finite, which is
  where the finiteness of `Checks` is needed.
* `AllRanCorrect`: `Phases` says of every program counter where a selected check
  can be - pending, deferred, skipped or finished - and a pass excludes skipped
  because only a failed first phase skips.
* `SocketComesLastCorrect`, under `SocketStandsAlone` (Socket is declared without a
  `dependsOn`), from `SocketWaits`: in the second phase only Socket is pending and
  every other check of the run, with what it depends on, has ended without failing.
* `CleanedUpCorrect`, `PersonsFilesSurviveCorrect`, from `DiskKept`: while a run
  goes on the disk holds at least what it held before.
* `GateCorrect`: the refinement, one lemma per step.

`ChangedRunProofs` adds, for every set of checks, files and texts:

* `ChangedTypeCorrect`.
* `ChangedCoversTreeCorrect`, assuming git answers (`GitWorks`) and files that may have
  the same text are of the same kind (`TextTellsKind`). A file that is not what it was in
  the tree git compares with differs between two neighbours of the trees between, and
  is named there or, if it was moved, another of its kind is
  (`DiffNamesTheKind`). What people do later forgets the selection, so an old one is never
  held against a new tree.

`RunEnds` is liveness and only model-checked.

## The Mutation check

`MutationEvidence` is one package on one disk. A source file has one mutant and the
package's text is a number, so that "evidence about this text" is an equation.
`evidence`, `memo` and `registry` are the three files; `run`, `report` and `todo`
are what the wrapper's process holds; `verdict` is the policy's. The actions are the
wrapper's steps in their order (`ShardRefused`, `Adopt`, `ConfigFails`, `SkipAll`,
`recall`, `StrykerStarts`, `StrykerEnds`, `StrykerFails`, `Rerun`, `PutBack`,
`Forget`, `Remember`), then `Judge`, the policy, which reads the evidence file
whatever the tool exited with, and `Finish`, after which the contract's clean-up may
have removed the tool reports. `Kill` may come at any of them. `run.copied`,
`run.first` and `run.threw` are history. Which globs select which files and how
slices are weighed are left out; `planShards` is any fixed partition.

The run `mutation` (6 million states) has two files, so a plan can be partial, a
report can cover the wrong one and one slice of two differs from the other; two
texts, so evidence and memo can be about another one, and a text can come back; one
confirmed timeout at most, so "too many to confirm" happens with two; four
registries (none, complete, incomplete, matching nothing) and five environments: CI, a
developer's machine, a slice, and a job that judges a report made elsewhere, with and
without the selector of a slice that it inherits.
Beyond two files or texts a third only repeats what the second does, since every
comparison in the code is of one report with one plan.

`PassIsEarned` is what a green check means. `FullRunDecides` says re-running
timeouts does not wash out survivors. `MemoIsFaithful` says reuse is sound. No property
says that a stale record fails a run: the policy asks whether the run was one of the
whole package, and a property could only repeat the question.

One thing is excluded by a constant, because the code does not handle it:
`EditsWhileRunning = FALSE`, since the inputs are hashed before Stryker copies the
package and an edit between the two is remembered under the wrong hash. A re-run that ends
with "Survived" is recorded with the reason that it was caught when
run alone, while its status decides as it should; `caught` is that reason. A full
run that throws before writing its report is judged by the previous one, so
`PassIsEarned` speaks of tools that did not throw and the run
`mutation_failed_tool` shows the rest (see Findings). `Files` is
not empty: a package with a mutation check has something to mutate.

### Proved

In `MutationProofs`, for every set of sources, texts, registries and environments,
every number of slices and every bound on the re-runs:

* `MutationTypeCorrect`, from `TypeInv`, which adds to the types that the run is one
  that can be (its plan never empty: `SlicesExist` splits the files into as many
  slices as are asked for) and that what is still to be run again is of the report.
* `FullRunDecidesCorrect`, without any assumption. `FirstInv` relates the report as it
  is edited to the copy kept of the full run: they agree on every mutant but timeouts
  that were caught when run alone, and what is still to be run again was a timeout.
* `MemoIsFaithfulCorrect` and `PassIsEarnedCorrect`, while nobody edits during a run
  (`NoEdits`). `OwnInv` says of each program counter whose report is held and whose is
  in the file: from the end of Stryker to the verdict the report in hand is of this
  run's text and plan, even while the file is missing or holds the one mutant being
  run again, and a tool that threw has exit code 1, so that nothing it left behind is
  remembered. Without that last conjunct a thrown tool's old evidence could enter the
  memo and be handed back much later.

## Semver and releases

`SemverGate` is pure. A commit is a record, `Tree`: the package version, the level its
changesets declare, what each part exposes and the baseline committed for it. The
parts are the API entry points, in the order of `typedoc.json`, and the surface (CLIs,
schemas, action) as one. A shape is a value and the classifiers are the constant
`Impact`, any function from pairs of shapes to verdicts that finds nothing changed
between equal shapes. `apiContract` and `surfaceContract` are the two checks'
policies, `bootstrap` the first baselines that a local run writes, `updateBaseline`
the `update-baseline` commands, `satisfied` the rule that a declared level or an
already bumped version will do.

`SemverRelease` has `main`, the release pull request (`releasePr`, empty or one
tree), what npm has (`published`) and one history variable. `waived` is true from a
release whose baselines were not synced, or from a change that replaced a baseline
or could not be classified, until the next publication of a synced tree: in between,
the checks cannot know what the user of npm has. `MergePR` is a change, in any
shape, with any changeset and any of the baselines a person may commit, that passed
the contract up to date with `main`, as the branch rules demand
(`scripts/github-repo.mjs`). `VersionRun` consumes the changesets, `SyncBaselines` is
the sync workflow, `MergeRelease` and `Publish` what they say. A baseline's three
files are one value.

`ApiClassifier` and `SurfaceClassifier` are what stands behind `Impact`. The first
has declarations as records (kind, parent, name, release tag, parameters, type,
modifiers) and follows `normalizeApiPackage`, `compareMatchedMember` with its
per-kind comparisons, the overload sets, `checkAssignability` and the drift of schema
versions. A type is a text that denotes a set of values; some texts cannot be rebuilt
for TypeScript to compare them (`Rebuildable`), which is where "unknown" comes from.
The second has a schema as its leaves, from path to value, a command line as exit
code, flags and help, and the action as inputs and outputs. Each is asked about one
change after another: `ApiChanges`, `SurfaceChanges`.

| Run | States | Shows |
|---|---|---|
| `semver` | 109 thousand | the release process, with entry points that may come but not leave, and the two classifiers |
| `semver_readded` | violation | see Findings |

Two entry points and a surface make one baseline stand for another; the versions
0.1.0 (published first), 0.1.1, 1.0.0 and 1.1.0 have a patch release below 1.0.0, the
crossing and a minor release above it, and `Versions` bounds the releases, so a
behaviour has at most three. The shapes are an entry point that is not there, one
that exports more, one with a type that cannot be rebuilt, and a surface with a
command; coming, widening, breaking, unknown and coming back are among their
pairs. `MCImpact` is a table, and `MCImpactAssumption` compares it with what the
two classifier modules say of packages of these shapes, so the release process is
checked with verdicts the code gives. "stale" only occurs in the histories of the
classifiers and in the proofs. The variable `asked` fixes whether a behaviour is
one of the process or of a classifier. A classifier is asked about all pairs of
functions of at most two overloads with at most two parameters, of interfaces of at
most three properties, of enums, aliases, variables and methods over four texts, of
schemas with two properties - one named `title`, as a documentation keyword is -, of
commands and of actions: two of anything let one change hide another, and calls have
at most two arguments because no function has more parameters.

`SemverKept` is the reason for the checks, stated of npm and not of them: across any
number of merges, rebuilt and abandoned release pull requests and merged but never
published versions, the next published version is as far from the last as what
changed between them needs. What that is cannot be the rating of the two versions
compared directly, because ratings do not add up: a function that first takes one
more optional parameter and then gets one more overload is widened twice, while the
two changes at once are rated breaking, since overloads are compared as sets
(`compatibility-classifier.ts`). The constant `Keeps` is what a rating promises: per
rating a relation between shapes that contains the steps so rated, is transitive and
grows as ratings get worse. In the instance "widening" promises that no user breaks, by
the classifiers' own properties (`MCKeeps`), so from 1.0.0 on a minor release
that npm gets breaks nobody, through however many steps it came about. `ReleasePasses` says the pipeline cannot block
itself: a release pull request, whose changesets are gone and whose required level may
rise by crossing 1.0.0, passes the checks `main` passed. `BaselinesAgree` is the
assumption the code writes in a comment.

`CompatibleKeepsUsers` says what "compatible" means to those who use a package, in
terms the classifier does not have: every call that was accepted is, every name
that was exported is, every object that was read or built as an interface still
is. `CompatibleKeepsSurface` says it of scripts that call a command, of documents
that were valid and of workflows that use the action. What they leave
aside, because the code rates it compatible all the same, is in their comments and
under Also seen.

### Proved

In `SemverProofs`, for every list of entry points, set of shapes, classification (of
the surface: one that always classifies, as its classifier does) and version:

* `SemverTypeCorrect`.
* `ReleasePassesCorrect`. The invariant, `ReleaseInv`, says of `main` and of the
  release pull request that they pass *and* that no committed baseline is of a later
  version than the package (`NotAhead`); without the second a bump may not reach the
  version demanded. `ReleaseIsSound` is the heart: on one side of 1.0.0, the
  required level is what it was, and either it was declared, then bumping a later
  version by at least that level is monotone (`BumpMonotone`), or the version had
  reached it already. Across 1.0.0 the level may have risen or become known, and
  any version 1.0.0 or later is far enough from any 0.x (`CrossingSuffices`).
  `SyncIsSound` says synced baselines leave nothing to declare.
* `BaselinesAgreeCorrect`, assuming no entry point leaves. `VersionsInv` adds that an
  entry point that is not there has no baseline, in `main` and in the release.

* `SemverKeptCorrect`, under the same assumption and for every `Keeps`. Its invariant,
  `KeptInv`, says that outside the waived times every baseline of `main` is of `main`'s
  version and that this version is far enough from npm's for the published shapes to have
  become the shapes in the baselines; and that a release pull request bumps what `main`
  is by at least what it declares. `ChangeIsDeclared` is what the checks add: the level
  from the baselines on is declared, because with baselines of the package's own version
  nothing counts as bumped already. `RatingsChain` joins the two halves by the transitivity
  of `Keeps`, `ReleaseReaches` does so across 1.0.0, where both are far enough at once.
  If an entry point leaves and returns its baseline is older, `KeptInv` fails, and
  finding 4 shows what happens then.

`baselineVersion` is the version of the *first* entry point with a baseline, a
`CHOOSE` over positions: that one exists is the lemma `Least`.

In `ClassifierProofs`:

* `CompatibleKeepsUsersCorrect`, for every set of texts and everything they denote.
  `WorstIsWorst` turns the rating of the whole into one of every part;
  `NormalizedComparable` says which members of a normalised package are compared with
  which; then one lemma per kind of member, first what its rating implies (`...Rated`)
  and then what that does for users (`...Harmless`).
* `CompatibleKeepsSurfaceCorrect`, for schemas of any depth. `EntriesOf` and
  `LeafKept` relate the flattened entries to the leaves they came from, and
  `DocumentsKept` follows a document through each entry that was kept.

## Registries and their checks

`RegistryRuns` is one check, run again and again in one checkout. Which of the
thirteen checks it is, is fixed in a behaviour (`check`), and of what surrounds it
only what that check's tool looks at moves: no two of these checks share a file but
`environment.json`, which they only read.

| State | Code |
|---|---|
| `own`, `environment` | the check's registry and `environment.json`: readable or not, and records |
| `pc`, `tool`, `read`, `outcome` | where the check is, what its tool printed, the registry as loaded, the verdict |
| `at`, `target`, `tries`, `answer`, `cache` | the score lookup's process and its cache directory |
| `now`, `socket`, `published`, `scored` | Socket and npm: what is said of which version at which hour |
| `files`, `manifest`, `installed`, `head` | the managed files, `package.json` and its lock, `node_modules`, the last commit |
| `job`, `todo`, `before` | `sync` or `upgrade` at work; `before` is history |
| `rulesets`, `said` | the repository's rulesets; what `init` says it did to them |
| `truth` | history: what there really was to find |

| Action | Code |
|---|---|
| `StartCheck`, `ToolEnds` | the engine starts the tool; the policy looks at its output |
| `Load`, `Reconcile`, `WriteFails` | `reconcileAndPersistExceptionRegistry` and the policy after it |
| `JudgeEnvironment` | `degraded` in `environment-exceptions.ts` |
| `SkipLookup`, `UseCached`, `ViewExact`, `ViewLatest`, `RateLimited`, `ScoreFails`, `ScoreNotFound`, `Scored`, `Fallback` | `socket-package-score.mjs`, request by request |
| `Sync`, `SyncFile`, `SyncEnds`, `Upgrade`, `Install`, `Repin`, `Generate`, `StepFails` | `managed-files/sync.mjs`, `upgrade/run.mjs` |
| `Protect` | `init` on the rulesets (`bin/scaffold.mjs`), which may be refused at any of its calls to GitHub and then succeeds without having written any, or someone who disables one |
| `KillCheck`, `KillCommand` | a time limit, Ctrl-C |
| `EditRegistry`, `EditFile`, `EditManifest`, `Commit`, `RestoreTree`, `DayPasses`, `HourPasses`, `PublishVersion`, `SocketScores` | everyone else |

A finding is an id and a category; a record is which of its texts are written, its
method and type, and whether its id is the one its identity fields give. What a tool
prints is a function: `parseAgentStream` is a fold over events and the environment
gives it every stream of a review that was cut short, mangled, repeated or ended
otherwise (`Captured`); `readAlerts` reads page after page of a list that changes in
between; `scan` reads the lines of a file. `truth` is what the review raised, the
list held or the lines say, however it was read.

In `package.json` and its lock, `manifest` has the copies that are listed, the release
that is asked for and the release whose commit the lock names, 0 for none. A person
edits the first two: the list need not hold what its copies import, nor does `sync` ask.
A release may let a copy import others than before (`Requires` is by release), and
`upgrade` does not enrol them. When the lock names no commit after the installation, or
there is no workflow, `upgrade` goes on without re-pinning
(`scripts/upgrade/run.mjs:134`) and succeeds with the calls where they were. A private
package owns no managed file and is exempt.

### Checked

| Run | States | Shows |
|---|---|---|
| `exceptions` | 356 thousand | the properties below, for each check |
| `exceptions_expired` | violation | see Findings |
| `upgrade_undo` | violation | see Findings |

*Bounds.* Two ids can be found and records may be about a third, which is what makes
one stale. People write complete records and, for one id, those that lack each thing
a policy asks for: two edits suffice to put a record in and change it under a run,
and a third lets managed files be edited, committed and upgraded. Two days make a
dated record expire before, while or after the check runs. For Socket, two
versions and three hours with a time to live of one (`LastHour = 3`,
`CACHE_TTL = 1`) let a cache entry be fresh, old, and about a version that is no
longer the latest; one retry is enough to run out of them, since the code counts
down. Alerts are read one per page on at most three pages, so that a full last page
and an unfinished list occur; reviews raise up to two findings; scanned files are
all files of up to three lines. The rulesets are 169 repositories with up to two
rulesets, where each setting is missing once. Two releases, one
workflow and two copies, of which one imports the other from the second release on,
distinguish all that `sync` does under its flags. Which copies there are is the same in all
releases. What these bounds hide is more of the same: no rule compares
three records, versions or files.

*Properties.* `PassIsExcused` is what a green check promises: for all there was to
find a full record by a person is in the file as it *now* is, not as it was loaded,
and nothing among it was of a kind that no record excuses (`Inexcusable`).
`ReportIsWhole` holds the tools' output against `truth`. `RecordsSurvive` is about the
rewriting of the registry: what was read is not dropped. What someone saved since it was
read is; nothing locks the file, so no property says otherwise. `AcceptedIsCurrent` is about
`environment.json` and its dates, `SocketPassIsFresh` about the cache against what Socket
and npm say by now. `CommandSettles` says what exit code 0 of `sync --apply` and `upgrade`
means for every file, whatever was edited or interrupted before: it is there and as the
installed release has it, and after an upgrade calls the shared workflows at the new
commit or, if the lock names none, where it did before. `InitProtects` says that what
`init` reports as protected is what the check asks for, and that no ruleset was
loosened or taken out of force whether or not it was; when it reports that it skipped
the step the branch may be unprotected. `CheckEnds` is the liveness of a check and of a
command.

*Fairness.* `WF_vars(ToolReportsStep \/ Look \/ Judge)`: the engine kills a tool at
its time limit, requests have timeouts, and a policy that can go on does.
`WF_vars(Work)`: so does a command. People, npm, Socket and the clock owe nothing, so
that `CheckEnds` holds also when Socket answers 429 for ever. While a verdict stands
(`pc = "done"`) nobody edits and no day passes: it is about what was there then.

### Proved

For every set of ids, records, files, timelines, rulesets and every bound:

* `RecordsSurviveCorrect` and `AcceptedIsCurrentCorrect`, the second from `AcceptedInv`:
  while a verdict stands, so do the environment file and the day.
* `SocketPassIsFreshCorrect`, from `ScoreInv` (a cached score is one Socket gave at that
  hour, of a version that is published) and `FreshInv` (the age is bounded from the
  moment the cache is read to the verdict). `LatestIsOne` says there is a latest
  version.
* `InitProtectsCorrect`, by `UpsertProtects` over lists of any length and `StepsOfRulesets`:
  nothing else touches a ruleset but someone who disables one.
* `ReportIsWholeCorrect`, from `ToolInv`: what the check holds
  is no report or an `Honest` one of `truth`. `ToolProofs` has a lemma for each of the
  thirteen tools that its report is honest. Three of them carry the weight.
  `CapturedIsWhole`: whatever was captured of a review, a stream that the parser takes
  for complete has shown every finding raised - a stream that lost one lacks its end, has
  an event that is refused, or has another count than its end announces.
  `AlertsAreRead`: when the reading stopped on a page that was not full and nothing was
  closed meanwhile, every alert open at first was on some page; `ListGrows`
  says that opening alerts moves the others away from the beginning, never towards
  pages already read. `ScanIsTheRule`: the words above a directive, summed by walking
  upwards, reach two units if and only if one comment of the run has two or two of them
  have one (`WordsAbove`), which is what the rule says without walking.
* `PassIsExcusedCorrect`, from `PassInv`: registries hold only what people wrote and the
  stubs of the check itself, and what is decided on was found valid. `ReconciledAccounts`
  and `ReadingAccounts` say, for the registries that are rewritten and those that are only
  read, that what the policy lets by has a full account; the stub CodeScanning writes
  is one and no other stub is. `OwesTheSame` is the other half: until the verdict is taken nobody
  changes what it rests on.
* `CommandSettlesCorrect`, in `ManagedProofs`, from `ManagedInv`: what `sync` has passed
  without leaving anything is current (`SyncInv`); and from the installation on an
  upgrade knows one release only, and of each call either the new commit or the one it
  had before (`UpgradeInv`).
* `TypeCorrect`. Proving it found a value the types had left out: Socket's severity
  "middle", which the instance now has too. The numbers in it are not trivial: the lookup's tries
  stay within their budget through the fallback, which starts anew.

`StepsOfRegistry`, `StepsOfManaged`, `StepsOfScore` and `StepsOfRuns` split a step of the
composition into what it does to each part, so that an invariant is proved once and not
once per tool.

The library's induction theorems are out of reach (they take an operator as a parameter),
but induction along a list is not: `AlongTheList` takes the property as a set of numbers and
looks at the least one that is not in it, and `ThereIsOne` gives every function that is
defined by its first value and a step. The parser's fold, GitHub's list (`Listed`) and
the walk above a directive (`blockReasonAbove`) are written so that these two
apply. `CheckEnds` is liveness and only model-checked.

## What is proved and what is only checked

| Property | Checked in | Proved |
|---|---|---|
| `VerdictIsExact`, `PassMeansAllRan`, `SocketComesLast`, `GateSpec`, `AdoptionEnds` | `gate` | yes; `AdoptionEnds` if people write files that end, `SocketComesLast` if Socket depends on nothing |
| `CleanedUp`, `PersonsFilesSurvive` | `workspace` | yes |
| `ChangedCoversTree` | `changed` | yes, if git answers and files of one text are of one kind |
| `PassIsEarned`, `MemoIsFaithful` | `mutation` | yes, if nobody edits during a run |
| `FullRunDecides` | `mutation` | yes |
| `ReleasePasses`, `BaselinesAgree`, `SemverKept` | `semver` | yes; the last two if no entry point leaves |
| `CompatibleKeepsUsers`, `CompatibleKeepsSurface` | `semver` | yes |
| `PassIsExcused`, `ReportIsWhole`, `RecordsSurvive`, `AcceptedIsCurrent`, `SocketPassIsFresh` | `exceptions` | yes |
| `CommandSettles`, `InitProtects` | `exceptions` | yes |
| the type invariant of each module | its run | yes |
| `RunEnds`, `CheckEnds` | `gate`, `exceptions` | no: liveness under fairness is out of the prover's reach |

The conditions are the assumptions under which TLC checks them too, and the findings
show what happens without two of them. So every safety property of every passing run
holds for all values of the constants that the named assumptions allow; what the proof
system cannot reach is liveness and ENABLED, and `RunEnds` and `CheckEnds` are only as good as
their instances.

## Findings

1. `promoted_skipped`: while a package adopts, an advisory failure still fails the
   engine's first phase, so SecuritySocket is skipped even when it is promoted, and
   the run passes; `scripts/adoption/mode.mjs:7` says the promoted checks decide.
2. `changed_git_fails`: a git listing that fails or has no base reads as "nothing
   changed" and checks are dropped; `scripts/changed.mjs:4` says the selection errs
   toward running more.
3. `mutation_failed_tool`: a Stryker configuration that does not load throws before
   the old evidence is removed, and the policy judges, and may pass, the evidence of
   an earlier run; `scripts/mutation/adopt.mjs:7` says that can never happen.
4. `semver_readded`: an entry point that leaves and comes back brings an old
   baseline along; if it is the first in `typedoc.json` its version stands for all,
   and a breaking change elsewhere counts as bumped already;
   `scripts/api-contract/check.ts:350` says they should all agree.
5. `exceptions_expired`: in the checks that rewrite their registry a record goes on
   excusing its finding after its date, because `evaluateFindingVerdict` (`checks/exception-record.ts:481`)
   never looks at `expires`; `EXCEPTIONS.md:31` says that a record no longer counts
   after its date. The checks that only read their registry do look.
6. `upgrade_undo`: `sync` creates files git does not track and replaces managed text
   that was not committed, so `git restore .` does not give back the tree as it was,
   which `scripts/upgrade/run.mjs:126` prints that it does.

Also seen, and left as they are:

* An `expiresAt` of the right form that is not a date never expires
  (`scripts/adoption/mode.mjs:57`): `HandWritten` has no such file, and `AdoptionEnds`
  says nothing of one.
* Once a branch has an upstream, `--changed` compares with that
  (`scripts/changed.mjs:93`), so pushed commits no longer count. `README.md:409` says
  "what changed since the default branch", `scripts/changed.mjs:4` that the selection errs
  toward running more and line 89 that it is about the branch this one came from.
  `ChangedCoversTree` holds of such a branch because it is about what git compares with.
* `git diff --name-only` prints the new path of a file that was moved and not the old
  one, so a source file moved to `docs/` runs no check of the code
  (`scripts/changed.mjs:103`). `TextTellsKind` and the texts of `changed` leave it out.
* An edit between the hashing of the inputs (`scripts/run-mutation.mjs:96`) and Stryker's
  copy of them is remembered under the wrong hash (`EditsWhileRunning`).
* A job that judges a report and inherits `IPC_MUTATION_SHARD` passes over a stale
  exception: the tool ignores the selector (`scripts/run-mutation.mjs:71` says
  "whatever else it inherits"), the policy reads it (`checks/mutation.ts:554`, `:610`), and
  `scripts/mutation/adopt.mjs:3` says stale exceptions are included. The instance has
  such a job.
* A suppression that names its rule and says why passes without a record
  (`checks/suppressions.ts:12`, `:142`), and so it does here: `truth` is what has no reason or
  names no rule. `EXCEPTIONS.md:6` says nothing is allowed by a comment alone, and
  `EXCEPTIONS.md:93` that a directive "that no registry knows about is itself a finding".
* A registry that is reconciled is written whether or not anything changed
  (`checks/exception-record.ts:543`): the directory and the file are made where there were
  none, the layout is the writer's, and what someone saved between the load and the
  write is lost.
* `init` ends successfully with the branch unprotected when there is no `gh`, no remote on
  GitHub, no right to read or to write, an answer that refuses the change, or
  `--no-github` (`bin/scaffold.mjs:252`, `:330`, `:361`, `:372`).
* An `upgrade` whose lock names no commit leaves the calls where they were, and nothing
  enrols a copy that a listed one imports from this release on, or that a person left
  out of `package.json` (`scripts/managed-files/inspect.mjs:195`).
* Tool reports outlive runs after the first, since `reports/` existed before them.
* A release merged before its baselines are synced lets the next undeclared change
  pass, because its version counts as bumped; the sync runs on `pull_request`, which
  a push with `GITHUB_TOKEN` does not trigger. `waived` covers the time until the
  next synced release.
* One unclassified entry point turns the API check into a warning for all of them.
* An entry point that is removed is not compared; a surface removed together with
  its baseline passes; `update-baseline` without a version bump silences the gate.
  `waived` and the conditions of `SemverKept` name these.
* The comment at `checks/exception-record.ts:279` calls `required-for-package-to-exist`
  the only type SecuritySocket accepts; line 307 lists four. CodeRabbit accepts the
  method `policy-rule`, though its message asks for an independent human review.
* A record excuses an advisory that was rated again, since an id has no severity;
  suppressions that share directive, rule and code share an id; of two Socket alerts
  with one id the last counts.
* A JSON error of `npm audit` reads as a clean audit (`checks/security-deps.ts:256`).
* `checks/coderabbitai.ts:364` drops the failure of an unreadable registry when the
  review did not apply or was unavailable, though line 143 says it fails regardless,
  and warns where it says that `error` fails closed. A review that was skipped makes
  every record of its registry stale.
* Alerts are paged by position, so one that closes while they are read hides another
  (`scripts/code-scanning-alerts.mjs:126`); `truth` leaves such readings out.
* `EXCEPTIONS.md:68` says a record whose finding is gone fails as stale, and names one
  other registry as the exception; in those of CodeScanning and ManagedFiles none does.
* `sync` refuses to write a call at no commit only where the file is missing
  (`scripts/managed-files/sync.mjs:113`); a drifted one is replaced by it, with exit code 0
  (line 125). `test/managed-files.test.ts:233` says it will not write one, and
  `CommandSettles` calls such a file current, as the check does. After an upgrade that is restored,
  `node_modules` keeps the new release.
* Two lookups write the score cache through one temporary name.
* PackedConsumer reports a failed installation instead of promised files that are
  missing; a ruleset's `exclude` is not read; Accessibility opens only the first pages.
* What counts as CI differs between the review (any value of `CI`), the surface check
  (`CI=true`) and the run; the change report may quote an earlier run's report
  (`scripts/report/collect.mjs:10`).
* The API classifier rates as compatible: a property that became optional or readonly,
  a required method added to an interface, a narrower readonly property that
  someone builds, another order of overloads. It rates as breaking a parameter that is
  renamed in a set of overloads. Of two overloads with one signature it keeps the last.
  Two changes may each be rated as widening and both at once as breaking, so what is
  declared depends on whether they are merged together.
* The surface classifier rates as compatible a property added to an open schema, or a
  constraint on an unconstrained one, although documents may already have it, and
  does not notice an unconstrained property removed from a closed schema
  (`scripts/surface-contract/classify.ts:8` says what rejects old documents breaks).

## Not modelled

* The publication job as separate steps: ended between `npm publish` and the tag, it
  finds the version on npm when run again and never tags it
  (`.github/workflows/release-npm-changesets.yml:264`). `Publish` is one step. The
  workflow keeps no state of its own to relate the steps by but npm's and git's.
* A baseline as three files (`scripts/api-contract/baseline-store.ts:256`): their
  hashes are compared when they are read, and a baseline here is one value.
* What `npm audit` could not say (`checks/security-deps.ts:256`): the code cannot tell
  it from an audit that found nothing, so no property of the code can.
* API Extractor, which reads the declarations, and the collection of the surface
  (`scripts/surface-contract/collect.ts`): inputs. TypeScript's `any` is not a set of
  values and has no text here.
* The affected scope, contract assembly, pins: pure comparisons without state, whose
  results are inputs of `MutationEvidence` and `ContractRun`.
* Mutation report merging and badges, help, logs, rendered reports, package tools, the
  site and its runtime: text for a reader.
* `init`, `recipes`, `generate` and `doctor` beyond the adoption file, the rulesets and
  the managed files: they create files that are absent.
* Benchmarks: statistics over timings, real numbers, out of TLC's reach.
* The other package and documentation checks: one pass over files or one tool's output
  and no state between runs; their outcome is an input of `ContractRun`.

## Reading order and running

`ContractGate`, `Adoption`, `ContractRun`; then `MutationEvidence`; then `ApiClassifier`,
`SurfaceClassifier`, `SemverGate`, `SemverRelease`; then `ExceptionPolicy`, `Exceptions`,
`ToolReports` and the other tools, `RegistryRuns`. Operators named `..._Something`
preceded by "Fault:" are what a bug in the definition after them would look like;
each property is violated when one of them takes its place.

    tlc -workers 2 -config gate.cfg MCContractRun
    tlapm ContractRunProofs.tla
