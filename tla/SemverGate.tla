----------------------------- MODULE SemverGate -----------------------------
(***************************************************************************)
(* The two semver checks as functions of a tree: ApiContract               *)
(* (scripts/api-contract) compares the types of every entry point with the *)
(* committed baseline of that entry point, SurfaceContract                 *)
(* (scripts/surface-contract) the CLIs, schemas and action, and each asks  *)
(* whether the pending changesets declare the level the difference needs.  *)
(*                                                                         *)
(* What a part of the package exposes is a shape; how the classifier rates *)
(* the step from one shape to another is the constant Impact.              *)
(***************************************************************************)
EXTENDS Integers, Sequences

CONSTANTS
  Targets,     \* the API entry points, in the order of typedoc.json
  Surface,     \* the CLIs, schemas and action, as one part
  Shapes,      \* what a part may expose
  Absent,      \* the shape of an entry point or a surface that is not there
  Impact       \* how a step from a shape to a shape is classified

Apis == {Targets[i] : i \in 1 .. Len(Targets)}
Parts == Apis \cup {Surface}

\* "widening": compatible and adding to the public API; "stale": a schema
\* whose shape changed while its version literal did not.
ContractImpact == {"unchanged", "compatible", "widening", "breaking", "stale", "unknown"}

ASSUME GateAssumption ==
  /\ Len(Targets) \in Nat
  /\ Surface \notin Apis
  /\ Absent \in Shapes
  /\ Impact \in [Shapes \X Shapes -> ContractImpact]
  /\ \A s \in Shapes : Impact[<<s, s>>] = "unchanged"

Level == {"none", "patch", "minor", "major"}
LevelRank == [none |-> 0, patch |-> 1, minor |-> 2, major |-> 3]

Version == [major : Nat, minor : Nat, patch : Nat]

NoBaseline == [shape |-> Absent, version |-> [major |-> 0, minor |-> 0, patch |-> 0],
               committed |-> FALSE]
Baseline == [shape : Shapes, version : Version, committed : {TRUE}] \cup {NoBaseline}

\* A commit: its package.json version, the largest bump its pending changesets
\* declare, what it exposes and the baselines committed in it.
Tree == [version : Version, declared : Level,
         exposes : [Parts -> Shapes], baseline : [Parts -> Baseline]]

-----------------------------------------------------------------------------
(* Levels and versions (levels.ts, semver.ts).                             *)

rankAtLeast(a, b) == LevelRank[a] >= LevelRank[b]

maxLevel(levels) ==
  IF "major" \in levels THEN "major"
  ELSE IF "minor" \in levels THEN "minor"
  ELSE IF "patch" \in levels THEN "patch" ELSE "none"

atLeast(v, w) ==
  \/ v.major > w.major
  \/ v.major = w.major /\ v.minor > w.minor
  \/ v.major = w.major /\ v.minor = w.minor /\ v.patch >= w.patch

bumpForLevel(v, level) ==
  CASE level = "major" -> [major |-> v.major + 1, minor |-> 0, patch |-> 0]
    [] level = "minor" -> [major |-> v.major, minor |-> v.minor + 1, patch |-> 0]
    [] level = "patch" -> [major |-> v.major, minor |-> v.minor, patch |-> v.patch + 1]
    [] level = "none"  -> v

preOne(v) == v.major = 0

\* The level a difference needs, one step lower before 1.0.0.
requiredLevelFor(impact, pre) ==
  CASE impact = "unknown"               -> "unknown"
    [] impact \in {"breaking", "stale"} -> IF pre THEN "minor" ELSE "major"
    [] impact = "widening"              -> IF pre THEN "patch" ELSE "minor"
    [] impact = "compatible"            -> "patch"
    [] impact = "unchanged"             -> "none"

\* What the difference between a part and its baseline needs.
impactOf(tree, p) == Impact[<<tree.baseline[p].shape, tree.exposes[p]>>]
levelOf(tree, p) == requiredLevelFor(impactOf(tree, p), preOne(tree.version))

\* Fault: only what the changesets declare counts.
satisfied_DeclaredOnly(tree, level, from) == rankAtLeast(tree.declared, level)

\* Fault: any changeset at all will do.
satisfied_AnyBump(tree, level, from) ==
  \/ level = "none" \/ tree.declared # "none"
  \/ atLeast(tree.version, bumpForLevel(from, level))

\* The changesets declare the level, or the version has been bumped already, as
\* it has in a release pull request.
satisfied(tree, level, from) ==
  \/ rankAtLeast(tree.declared, level)
  \/ atLeast(tree.version, bumpForLevel(from, level))

-----------------------------------------------------------------------------
(* ApiContract (check.ts, checks/api-contract.ts).                         *)

\* An entry point that is not in typedoc.json any more is not compared, and
\* one without a baseline has only its first one written.
Compared(tree) ==
  {t \in Apis : tree.exposes[t] # Absent /\ tree.baseline[t].committed}

\* The largest known level; none can be named while an entry point is
\* unclassified, unless the known ones need the largest there is.
apiRequired(tree) ==
  LET compared == Compared(tree)
      known == {t \in compared : impactOf(tree, t) # "unknown"}
      worst == maxLevel({"none"} \cup {levelOf(tree, t) : t \in known})
  IN IF known = compared \/ worst = (IF preOne(tree.version) THEN "minor" ELSE "major")
     THEN worst ELSE "unknown"

\* The version of the first entry point that has a baseline stands for all.
baselineVersion(tree) ==
  LET first == CHOOSE i \in 1 .. Len(Targets) :
                 /\ Targets[i] \in Compared(tree)
                 /\ \A j \in 1 .. i - 1 : Targets[j] \notin Compared(tree)
  IN tree.baseline[Targets[first]].version

\* An unknown level only warns; "none" is always declared.
apiContract(tree) ==
  LET required == apiRequired(tree)
  IN /\ \A t \in Compared(tree) : impactOf(tree, t) # "stale"
     /\ required \notin {"unknown", "none"} =>
          satisfied(tree, required, baselineVersion(tree))

-----------------------------------------------------------------------------
(* SurfaceContract (run.ts), as CI runs it.                                *)

surfaceContract(tree) ==
  IF tree.baseline[Surface].committed
  THEN satisfied(tree, levelOf(tree, Surface), tree.baseline[Surface].version)
  ELSE tree.exposes[Surface] = Absent

contract(tree) == apiContract(tree) /\ surfaceContract(tree)

-----------------------------------------------------------------------------
(* Baselines: the first one, written by the checks, and update-baseline.   *)

asBaseline(tree, p) == [shape |-> tree.exposes[p], version |-> tree.version, committed |-> TRUE]

\* Run locally, each check writes the baseline it does not find.
bootstrap(tree) ==
  [tree EXCEPT !.baseline =
     [p \in Parts |-> IF tree.exposes[p] # Absent /\ ~tree.baseline[p].committed
                      THEN asBaseline(tree, p) ELSE tree.baseline[p]]]

\* The baselines the command looks at: those of the present entry points, and
\* the surface's if there is a surface or was one.
Updatable(tree) ==
  {p \in Parts : \/ tree.exposes[p] # Absent
                 \/ p = Surface /\ tree.baseline[p].committed}

\* It fails when one of them is of a later version.
refused(tree) ==
  \E p \in Updatable(tree) : /\ tree.baseline[p].committed
                             /\ ~atLeast(tree.version, tree.baseline[p].version)

\* Fault: a baseline with the same contents is left at its old version.
updateBaseline_ContentsOnly(tree) ==
  [tree EXCEPT !.baseline =
     [p \in Parts |-> IF p \in Updatable(tree) /\ tree.baseline[p].shape # tree.exposes[p]
                      THEN asBaseline(tree, p) ELSE tree.baseline[p]]]

updateBaseline(tree) ==
  [tree EXCEPT !.baseline =
     [p \in Parts |-> IF p \in Updatable(tree)
                      THEN asBaseline(tree, p) ELSE tree.baseline[p]]]

\* Every part has the baseline of this very version.
InSync(tree) == updateBaseline(tree) = tree

=============================================================================
