---------------------------- MODULE SemverRelease ----------------------------
(***************************************************************************)
(* From a merged change to a published version: pull requests that the     *)
(* semver checks gate, the release pull request that the release workflow  *)
(* (.github/workflows/release-npm-changesets.yml) rebuilds on every push   *)
(* to main, the baseline sync on its branch (api-baseline-sync.yml), and   *)
(* the publication of what main holds when no changeset is pending.        *)
(*                                                                         *)
(* The branch rule makes a pull request be up to date with main and have   *)
(* passed the contract, so a merge is one step.                            *)
(***************************************************************************)
EXTENDS SemverGate

CONSTANTS
  PartShapes,       \* what each part may expose
  Keeps,            \* per rating, the steps that keep what it promises
  Versions,         \* bound: the versions there may be
  EntryPointsLeave  \* whether a change may take an entry point away

VARIABLES
  main,        \* the tree of the default branch
  head,        \* its last commit: "release", or any other "change"
  releasePr,   \* the release pull request, when it is up to date with main
  published,   \* the latest version on npm and what it exposes
  waived       \* history: the baselines may not be those of what npm has, or
               \* a person was left to judge a change since

vars == <<main, head, releasePr, published, waived>>

NoRelease == [version |-> [major |-> 0, minor |-> 0, patch |-> 0],
              exposes |-> [p \in Parts |-> Absent]]

Ratings == {"unchanged", "compatible", "widening", "breaking"}

\* A promise: the step that is rated keeps it, so do two steps one after the
\* other, and the less a rating promises the more steps keep it.  The ratings
\* themselves do not add up: of a function that takes an optional parameter
\* more, and then has an overload more, each step is rated as widening and both
\* at once as breaking (compatibility-classifier.ts compares overloads as sets).
ASSUME KeepsAssumption ==
  /\ Keeps \in [Ratings -> SUBSET (Shapes \X Shapes)]
  /\ \A s, t \in Shapes : Impact[<<s, t>>] \in Ratings => <<s, t>> \in Keeps[Impact[<<s, t>>]]
  /\ \A rating \in Ratings : \A s, t, u \in Shapes :
       <<s, t>> \in Keeps[rating] /\ <<t, u>> \in Keeps[rating] => <<s, u>> \in Keeps[rating]
  /\ Keeps["unchanged"] \subseteq Keeps["compatible"]
  /\ Keeps["compatible"] \subseteq Keeps["widening"]
  /\ Keeps["breaking"] = Shapes \X Shapes

ASSUME ReleaseAssumption ==
  /\ PartShapes \in [Parts -> SUBSET Shapes]
  /\ \A s, t \in PartShapes[Surface] \cup {Absent} : Impact[<<s, t>>] \notin {"stale", "unknown"}
  /\ Versions \subseteq Version
  /\ EntryPointsLeave \in BOOLEAN

FirstVersion == [major |-> 0, minor |-> 1, patch |-> 0]

\* The first commit whose contract passed: it may lack the baselines of its
\* entry points, never that of its surface.
Init ==
  /\ \E exposes \in [Parts -> Shapes] :
       LET new == [version |-> FirstVersion, declared |-> "none", exposes |-> exposes,
                   baseline |-> [p \in Parts |-> NoBaseline]]
       IN /\ \A p \in Parts : exposes[p] \in PartShapes[p]
          /\ main \in {new, bootstrap(new)}
          /\ contract(main)
  /\ head = "change"
  /\ releasePr = {}
  /\ published = NoRelease
  /\ waived = TRUE

\* What a change may leave the parts exposing: it changes one of them, and
\* takes no entry point away unless they may leave.
Exposing ==
  {exposes \in UNION {{[main.exposes EXCEPT ![p] = s] : s \in PartShapes[p]} : p \in Parts} :
     EntryPointsLeave \/ \A t \in Apis : exposes[t] = Absent => main.exposes[t] = Absent}

\* The baselines a change may commit: those of before, with the first ones the
\* checks write, or those update-baseline writes.
Committing(change) ==
  {change, bootstrap(change)} \cup (IF refused(change) THEN {} ELSE {updateBaseline(change)})

\* The change replaced a baseline that was there, or was not classified.
LeftToPerson(tree) ==
  \/ \E p \in Parts : main.baseline[p].committed /\ tree.baseline[p] # main.baseline[p]
  \/ apiRequired(tree) = "unknown"

\* A change is merged, perhaps with a changeset of its own.  The release pull
\* request is out of date from now on.
MergePR ==
  /\ \E exposes \in Exposing,
        level \in {l \in Level : rankAtLeast(l, main.declared)} :
       \E tree \in Committing([main EXCEPT !.exposes = exposes, !.declared = level]) :
         /\ contract(tree)
         /\ main' = tree
         /\ waived' = (waived \/ LeftToPerson(tree))
  /\ head' = "change"
  /\ releasePr' = {}
  /\ UNCHANGED published

\* Fault: with its changesets consumed, the release declares no level at all.
VersionRun_NoLevel ==
  /\ \E level \in {l \in Level \ {"none"} : rankAtLeast(l, main.declared)} :
       LET next == bumpForLevel(main.version, level)
       IN /\ head = "release" => level = main.declared
          /\ next \in Versions
          /\ releasePr' = {[main EXCEPT !.version = next, !.declared = "undefined"]}
  /\ UNCHANGED <<main, head, published, waived>>

\* The release workflow consumes the pending changesets, with those it
\* generates from commit messages when the last commit is no release.
VersionRun ==
  /\ \E level \in {l \in Level \ {"none"} : rankAtLeast(l, main.declared)} :
       LET next == bumpForLevel(main.version, level)
       IN /\ head = "release" => level = main.declared
          /\ next \in Versions
          /\ releasePr' = {[main EXCEPT !.version = next, !.declared = "none"]}
  /\ UNCHANGED <<main, head, published, waived>>

\* The baselines are committed on its branch, all or none of them.
SyncBaselines ==
  /\ \E tree \in releasePr :
       /\ ~refused(tree)
       /\ releasePr' = {updateBaseline(tree)}
  /\ UNCHANGED <<main, head, published, waived>>

\* A person merges it, perhaps before its baselines were synced.
MergeRelease ==
  /\ \E tree \in releasePr :
       /\ contract(tree)
       /\ main' = tree
       /\ waived' = (waived \/ ~InSync(tree))
  /\ head' = "release"
  /\ releasePr' = {}
  /\ UNCHANGED published

\* Without a pending changeset, main is published unless npm has its version.
Publish ==
  /\ main.declared = "none"
  /\ main.version # published.version
  /\ published' = [version |-> main.version, exposes |-> main.exposes]
  /\ waived' = ~InSync(main)
  /\ UNCHANGED <<main, head, releasePr>>

Next == MergePR \/ VersionRun \/ SyncBaselines \/ MergeRelease \/ Publish

Spec == Init /\ [][Next]_vars

-----------------------------------------------------------------------------
(* Properties.                                                             *)

TypeOK ==
  /\ main \in Tree
  /\ head \in {"change", "release"}
  /\ \A tree \in releasePr : tree \in Tree
  /\ published.version \in Version
  /\ published.exposes \in [Parts -> Shapes]
  /\ waived \in BOOLEAN

\* A version is far enough from an earlier one for a step that keeps no more
\* than this rating promises.
farEnough(from, to, rating) ==
  atLeast(to, bumpForLevel(from, requiredLevelFor(rating, preOne(to))))

\* What a user of npm relies on: whatever the last version and the next expose
\* of an entry point, the next is as far from the last as its level promises,
\* through any number of changes, changesets, rebuilt release pull requests and
\* versions that were merged and never published - as long as the checks could
\* classify every change and the baselines were those of the last version.
SemverKept ==
  [][published' # published /\ published # NoRelease /\ ~waived =>
       \A p \in Parts :
         published.exposes[p] # Absent /\ published'.exposes[p] # Absent =>
           \E rating \in Ratings :
             /\ <<published.exposes[p], published'.exposes[p]>> \in Keeps[rating]
             /\ farEnough(published.version, published'.version, rating)]_vars

\* A release is never stuck: whatever was merged and however far its baselines
\* lag, a release pull request passes the checks that main passed, before and
\* after its baselines are synced.
ReleasePasses == \A tree \in releasePr : contract(tree)

\* "All targets share one package.json version; pick baselineVersion from any
\* target that has a historical baseline (they should all agree)"
\* (scripts/api-contract/check.ts:350).
Agree(tree) ==
  \A s, t \in Compared(tree) : tree.baseline[s].version = tree.baseline[t].version
BaselinesAgree == ~waived => Agree(main)

=============================================================================
