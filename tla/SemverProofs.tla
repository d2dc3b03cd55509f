---------------------------- MODULE SemverProofs ----------------------------
(***************************************************************************)
(* What is proved of the semver checks and the releases they gate, for     *)
(* every list of entry points, every set of shapes, every way of           *)
(* classifying the step from one shape to another and every version.       *)
(***************************************************************************)
EXTENDS SemverRelease, NaturalsInduction, WellFoundedInduction, TLAPS

(***************************************************************************)
(* Versions and levels.                                                    *)
(***************************************************************************)

LEMMA MaxLevelType ==
  ASSUME NEW levels
  PROVE  maxLevel(levels) \in Level
BY DEF maxLevel, Level

LEMMA BumpType ==
  ASSUME NEW v \in Version, NEW level \in Level
  PROVE  bumpForLevel(v, level) \in Version
<1>1. CASE level = "none"
  BY <1>1 DEF bumpForLevel
<1>2. CASE level = "patch"
  BY <1>2 DEF bumpForLevel, Version
<1>3. CASE level = "minor"
  BY <1>3 DEF bumpForLevel, Version
<1>4. CASE level = "major"
  BY <1>4 DEF bumpForLevel, Version
<1> QED BY <1>1, <1>2, <1>3, <1>4 DEF Level

\* A bump of a later version by a level at least as large is at least as far.
LEMMA BumpMonotone ==
  ASSUME NEW v \in Version, NEW w \in Version, NEW l \in Level, NEW r \in Level,
         atLeast(v, w), rankAtLeast(l, r)
  PROVE  atLeast(bumpForLevel(v, l), bumpForLevel(w, r))
<1> USE DEF Version, Level, LevelRank, atLeast, rankAtLeast, bumpForLevel
<1>1. CASE l = "none"
  BY <1>1
<1>2. CASE l = "patch"
  BY <1>2
<1>3. CASE l = "minor"
  BY <1>3
<1>4. CASE l = "major"
  BY <1>4
<1> QED BY <1>1, <1>2, <1>3, <1>4

LEMMA BumpIsLater ==
  ASSUME NEW v \in Version, NEW l \in Level
  PROVE  atLeast(bumpForLevel(v, l), v)
BY DEF Version, Level, atLeast, bumpForLevel

LEMMA AtLeastTransitive ==
  ASSUME NEW u \in Version, NEW v \in Version, NEW w \in Version,
         atLeast(u, v), atLeast(v, w)
  PROVE  atLeast(u, w)
BY DEF Version, atLeast

\* A release that crosses 1.0.0 is far enough for any level over any earlier
\* 0.x version, although what is required rises with the crossing.
LEMMA CrossingSuffices ==
  ASSUME NEW v \in Version, NEW w \in Version, NEW l \in Level, NEW r \in Level,
         atLeast(v, w), preOne(v), ~preOne(bumpForLevel(v, l))
  PROVE  atLeast(bumpForLevel(v, l), bumpForLevel(w, r))
BY DEF Version, Level, atLeast, bumpForLevel, preOne

LEMMA PreOneStays ==
  ASSUME NEW v \in Version, NEW l \in Level, preOne(bumpForLevel(v, l))
  PROVE  preOne(v)
BY DEF Version, Level, bumpForLevel, preOne

LEMMA RankTransitive ==
  ASSUME NEW a \in Level, NEW b \in Level, NEW c \in Level,
         rankAtLeast(a, b), rankAtLeast(b, c)
  PROVE  rankAtLeast(a, c)
BY DEF Level, LevelRank, rankAtLeast

\* What a bumped version reaches, when the bump is at least what was declared
\* and the level was declared or reached before, unless the bump crosses 1.0.0.
LEMMA BumpReaches ==
  ASSUME NEW v \in Version, NEW w \in Version,
         NEW l \in Level, NEW d \in Level, NEW r \in Level,
         rankAtLeast(l, d), atLeast(v, w),
         (preOne(v) <=> preOne(bumpForLevel(v, l))) =>
           rankAtLeast(d, r) \/ atLeast(v, bumpForLevel(w, r))
  PROVE  atLeast(bumpForLevel(v, l), bumpForLevel(w, r))
<1> DEFINE next == bumpForLevel(v, l)
<1>1. next \in Version /\ bumpForLevel(w, r) \in Version
  BY BumpType
<1>2. CASE preOne(v) /\ ~preOne(next)
  BY <1>2, CrossingSuffices
<1>3. CASE rankAtLeast(d, r)
  BY <1>3, RankTransitive, BumpMonotone
<1>4. CASE atLeast(v, bumpForLevel(w, r))
  <2>1. atLeast(next, v)
    BY BumpIsLater
  <2> QED
    BY <1>1, <1>4, <2>1, AtLeastTransitive
<1> QED
  BY <1>2, <1>3, <1>4, PreOneStays

(***************************************************************************)
(* The checks of a tree.                                                   *)
(***************************************************************************)

LEMMA Least ==
  ASSUME NEW T, T \subseteq Nat, T # {}
  PROVE  \E m \in T : \A k \in T : m <= k
<1> DEFINE R == {ss \in Nat \X Nat : ss[1] < ss[2]}
<1>1. IsWellFoundedOn(R, Nat)
  BY NatLessThanWellFounded DEF OpToRel
<1>2. \E x \in T : \A y \in T : ~ (<<y, x>> \in R)
  <2> HIDE DEF R
  <2> QED
    BY <1>1, WFMin
<1>3. PICK x \in T : \A y \in T : ~ (<<y, x>> \in R)
  BY <1>2
<1>4. \A y \in T : x <= y
  <2> SUFFICES ASSUME NEW y \in T, ~ (x <= y)
               PROVE  FALSE
    OBVIOUS
  <2>1. <<y, x>> \in Nat \X Nat /\ y < x
    OBVIOUS
  <2>2. <<y, x>> \in R
    BY <2>1
  <2> QED
    BY <1>3, <2>2
<1> QED
  BY <1>4

\* No baseline that is committed is of a later version than the package.
NotAhead(tree) ==
  \A p \in Parts : tree.baseline[p].committed =>
                     atLeast(tree.version, tree.baseline[p].version)

\* A step of the surface is always classified.
SurfaceKnown(tree) ==
  /\ tree.exposes[Surface] \in PartShapes[Surface] \cup {Absent}
  /\ tree.baseline[Surface].shape \in PartShapes[Surface] \cup {Absent}

Consistent(tree) == tree \in Tree /\ NotAhead(tree) /\ SurfaceKnown(tree)

\* The version the API is compared from is one of a committed baseline.
LEMMA BaselineVersionIsCommitted ==
  ASSUME NEW tree \in Tree, Compared(tree) # {}
  PROVE  \E t \in Compared(tree) : baselineVersion(tree) = tree.baseline[t].version
<1> DEFINE I == {i \in 1 .. Len(Targets) : Targets[i] \in Compared(tree)}
           First(i) == /\ Targets[i] \in Compared(tree)
                       /\ \A j \in 1 .. i - 1 : Targets[j] \notin Compared(tree)
           first == CHOOSE i \in 1 .. Len(Targets) : First(i)
<1>0. Len(Targets) \in Nat
  BY GateAssumption DEF GateAssumption
<1>1. I # {} /\ I \subseteq Nat
  <2>1. PICK t \in Compared(tree) : TRUE
    OBVIOUS
  <2>2. PICK i \in 1 .. Len(Targets) : t = Targets[i]
    BY <2>1 DEF Compared, Apis
  <2> QED
    BY <1>0, <2>1, <2>2
<1>2. PICK m \in I : \A k \in I : m <= k
  BY <1>1, Least
<1>3. m \in 1 .. Len(Targets) /\ First(m)
  BY <1>0, <1>2
<1>4. first \in 1 .. Len(Targets) /\ First(first)
  BY <1>3
<1> QED
  BY <1>4 DEF baselineVersion

LEMMA RequiredType ==
  ASSUME NEW impact \in ContractImpact \ {"unknown"}, NEW pre \in BOOLEAN
  PROVE  requiredLevelFor(impact, pre) \in Level
BY DEF ContractImpact, requiredLevelFor, Level

LEMMA ApiRequiredType ==
  ASSUME NEW tree
  PROVE  apiRequired(tree) \in Level \cup {"unknown"}
BY MaxLevelType DEF apiRequired

LEMMA NothingCompared ==
  ASSUME NEW tree, Compared(tree) = {}
  PROVE  apiRequired(tree) = "none"
BY DEF apiRequired, maxLevel

LEMMA SurfaceLevelType ==
  ASSUME NEW tree, Consistent(tree)
  PROVE  levelOf(tree, Surface) \in Level
<1>1. tree.baseline[Surface].shape \in Shapes /\ tree.exposes[Surface] \in Shapes
  BY GateAssumption, ReleaseAssumption
  DEF Consistent, SurfaceKnown, GateAssumption, ReleaseAssumption, Parts
<1>2. impactOf(tree, Surface) \in ContractImpact \ {"unknown"}
  BY <1>1, GateAssumption, ReleaseAssumption
  DEF Consistent, SurfaceKnown, GateAssumption, ReleaseAssumption, impactOf
<1> QED
  BY <1>2, RequiredType DEF levelOf, preOne

\* What a tree is compared on, and with, is what it exposes and its baselines.
LEMMA SameComparison ==
  ASSUME NEW tree, NEW other,
         other.exposes = tree.exposes, other.baseline = tree.baseline
  PROVE  /\ Compared(other) = Compared(tree)
         /\ \A p : impactOf(other, p) = impactOf(tree, p)
         /\ baselineVersion(other) = baselineVersion(tree)
         /\ (preOne(other.version) <=> preOne(tree.version)) =>
              /\ \A p : levelOf(other, p) = levelOf(tree, p)
              /\ apiRequired(other) = apiRequired(tree)
<1>1. Compared(other) = Compared(tree)
  BY DEF Compared
<1>2. \A p : impactOf(other, p) = impactOf(tree, p)
  BY DEF impactOf
<1>3. baselineVersion(other) = baselineVersion(tree)
  BY <1>1 DEF baselineVersion
<1>4. ASSUME preOne(other.version) <=> preOne(tree.version)
      PROVE  /\ \A p : levelOf(other, p) = levelOf(tree, p)
             /\ apiRequired(other) = apiRequired(tree)
  <2>1. preOne(other.version) = preOne(tree.version)
    BY <1>4 DEF preOne
  <2>2. \A p : levelOf(other, p) = levelOf(tree, p)
    BY <1>2, <2>1 DEF levelOf
  <2>3. {t \in Compared(other) : impactOf(other, t) # "unknown"}
          = {t \in Compared(tree) : impactOf(tree, t) # "unknown"}
    BY <1>1, <1>2
  <2>4. apiRequired(other) = apiRequired(tree)
    BY <1>1, <2>1, <2>2, <2>3 DEF apiRequired
  <2> QED
    BY <2>2, <2>4
<1> QED
  BY <1>1, <1>2, <1>3, <1>4

LEMMA CommittedIsBehind ==
  ASSUME NEW tree, Consistent(tree), NEW p \in Parts, tree.baseline[p].committed
  PROVE  /\ tree.baseline[p].version \in Version
         /\ atLeast(tree.version, tree.baseline[p].version)
<1>1. tree.baseline[p] \in Baseline
  BY DEF Consistent, Tree
<1>2. ~ NoBaseline.committed
  BY DEF NoBaseline
<1>3. tree.baseline[p] \in [shape : Shapes, version : Version, committed : {TRUE}]
  BY <1>1, <1>2 DEF Baseline
<1> QED
  BY <1>3 DEF Consistent, NotAhead

LEMMA BaselineVersionIsBehind ==
  ASSUME NEW tree, Consistent(tree), Compared(tree) # {}
  PROVE  /\ baselineVersion(tree) \in Version
         /\ atLeast(tree.version, baselineVersion(tree))
<1>1. PICK t \in Compared(tree) : baselineVersion(tree) = tree.baseline[t].version
  BY BaselineVersionIsCommitted DEF Consistent
<1>2. t \in Parts /\ tree.baseline[t].committed
  BY DEF Compared, Parts
<1> QED
  BY <1>1, <1>2, CommittedIsBehind

(***************************************************************************)
(* The trees a release goes through.                                       *)
(***************************************************************************)

Sound(tree) == Consistent(tree) /\ contract(tree)

\* Versioning: with its changesets consumed, the bumped version stands for
\* what they declared, on both sides of 1.0.0.
LEMMA ReleaseIsSound ==
  ASSUME NEW tree, Sound(tree),
         NEW level \in Level, rankAtLeast(level, tree.declared),
         NEW release, release = [tree EXCEPT !.version = bumpForLevel(tree.version, level),
                                             !.declared = "none"]
  PROVE  Sound(release)
<1> DEFINE v == tree.version
           next == bumpForLevel(v, level)
<1>1. Consistent(tree) /\ apiContract(tree) /\ surfaceContract(tree) /\ tree \in Tree
  BY DEF Sound, contract, Consistent
<1>2. v \in Version /\ next \in Version /\ tree.declared \in Level
  BY <1>1, BumpType DEF Tree
<1>3. /\ release.version = next /\ release.declared = "none"
      /\ release.exposes = tree.exposes /\ release.baseline = tree.baseline
      /\ release \in Tree
  BY <1>1, <1>2 DEF Tree, Level
<1>4. NotAhead(release)
  <2> SUFFICES ASSUME NEW p \in Parts, tree.baseline[p].committed
               PROVE  atLeast(next, tree.baseline[p].version)
    BY <1>3 DEF NotAhead
  <2> QED
    BY <1>1, <1>2, CommittedIsBehind, BumpIsLater, AtLeastTransitive
<1>5. Consistent(release)
  BY <1>1, <1>3, <1>4 DEF Consistent, SurfaceKnown
<1>6. apiContract(release)
  <2>1. \A t \in Compared(release) : impactOf(release, t) # "stale"
    <3>1. /\ Compared(release) = Compared(tree)
          /\ \A t : impactOf(release, t) = impactOf(tree, t)
      BY <1>3, SameComparison
    <3> QED
      BY <1>1, <3>1 DEF apiContract
  <2> DEFINE r == apiRequired(release)
  <2>2. ASSUME r \notin {"unknown", "none"}
        PROVE  satisfied(release, r, baselineVersion(release))
    <3>1. r \in Level
      BY <2>2, ApiRequiredType
    <3>2. Compared(tree) # {} /\ baselineVersion(release) = baselineVersion(tree)
      BY <2>2, <1>3, NothingCompared, SameComparison
    <3>3. /\ baselineVersion(tree) \in Version
          /\ atLeast(v, baselineVersion(tree))
      BY <1>1, <3>2, BaselineVersionIsBehind
    <3>4. ASSUME preOne(v) <=> preOne(next)
          PROVE  \/ rankAtLeast(tree.declared, r)
                 \/ atLeast(v, bumpForLevel(baselineVersion(tree), r))
      <4>1. r = apiRequired(tree)
        BY <1>3, <3>4, SameComparison
      <4> QED
        BY <1>1, <2>2, <4>1 DEF apiContract, satisfied
    <3> HIDE DEF r
    <3>5. atLeast(next, bumpForLevel(baselineVersion(tree), r))
      BY <1>2, <3>1, <3>3, <3>4, BumpReaches
    <3> QED
      BY <1>3, <3>2, <3>5 DEF satisfied
  <2> QED
    BY <2>1, <2>2 DEF apiContract
<1>7. surfaceContract(release)
  <2>1. CASE ~tree.baseline[Surface].committed
    BY <1>1, <1>3, <2>1 DEF surfaceContract
  <2>2. CASE tree.baseline[Surface].committed
    <3> DEFINE r == levelOf(release, Surface)
               w == tree.baseline[Surface].version
    <3>1. r \in Level
      BY <1>5, SurfaceLevelType
    <3>2. w \in Version /\ atLeast(v, w)
      BY <1>1, <2>2, CommittedIsBehind DEF Parts
    <3>3. ASSUME preOne(v) <=> preOne(next)
          PROVE  rankAtLeast(tree.declared, r) \/ atLeast(v, bumpForLevel(w, r))
      <4>1. r = levelOf(tree, Surface)
        BY <1>3, <3>3, SameComparison
      <4> QED
        BY <1>1, <2>2, <4>1 DEF surfaceContract, satisfied
    <3> HIDE DEF r
    <3>4. atLeast(next, bumpForLevel(w, r))
      BY <1>2, <3>1, <3>2, <3>3, BumpReaches
    <3> QED
      BY <1>3, <2>2, <3>4 DEF surfaceContract, satisfied, r
  <2> QED
    BY <2>1, <2>2
<1> QED
  BY <1>5, <1>6, <1>7 DEF Sound, contract

LEMMA WritingIsConsistent ==
  ASSUME NEW tree, Consistent(tree), NEW written \in {bootstrap(tree), updateBaseline(tree)}
  PROVE  /\ Consistent(written)
         /\ written.version = tree.version /\ written.declared = tree.declared
         /\ written.exposes = tree.exposes
<1>1. tree \in Tree
  BY DEF Consistent
<1>2. \A p \in Parts : /\ tree.baseline[p] \in Baseline
                       /\ asBaseline(tree, p) \in Baseline
  BY <1>1 DEF Tree, asBaseline, Baseline
<1>3. /\ written \in Tree /\ written.version = tree.version
      /\ written.declared = tree.declared /\ written.exposes = tree.exposes
      /\ \A p \in Parts : written.baseline[p] \in {tree.baseline[p], asBaseline(tree, p)}
  <2>1. CASE written = bootstrap(tree)
    BY <1>1, <1>2, <2>1 DEF bootstrap, Tree
  <2>2. CASE written = updateBaseline(tree)
    BY <1>1, <1>2, <2>2 DEF updateBaseline, Tree
  <2> QED
    BY <2>1, <2>2
<1>4. NotAhead(written)
  <2> SUFFICES ASSUME NEW p \in Parts, written.baseline[p].committed
               PROVE  atLeast(tree.version, written.baseline[p].version)
    BY <1>3 DEF NotAhead
  <2>1. CASE written.baseline[p] = tree.baseline[p]
    BY <2>1, CommittedIsBehind
  <2>2. CASE written.baseline[p] = asBaseline(tree, p)
    BY <1>1, <2>2 DEF asBaseline, atLeast, Tree, Version
  <2> QED
    BY <1>3, <2>1, <2>2
<1>5. SurfaceKnown(written)
  BY <1>3 DEF Consistent, SurfaceKnown, asBaseline, Parts
<1> QED
  BY <1>3, <1>4, <1>5 DEF Consistent

\* Updating the baselines leaves nothing to declare.
LEMMA SyncIsSound ==
  ASSUME NEW tree, Sound(tree)
  PROVE  Sound(updateBaseline(tree))
<1> DEFINE sync == updateBaseline(tree)
<1>1. Consistent(tree) /\ surfaceContract(tree) /\ tree \in Tree
  BY DEF Sound, contract, Consistent
<1>2. /\ Consistent(sync) /\ sync \in Tree
      /\ sync.version = tree.version /\ sync.exposes = tree.exposes
  BY <1>1, WritingIsConsistent DEF Consistent
<1>3. \A p \in Parts :
        sync.baseline[p] = IF p \in Updatable(tree) THEN asBaseline(tree, p)
                                                    ELSE tree.baseline[p]
  BY <1>1 DEF updateBaseline, Tree
<1> HIDE DEF sync
<1>4. \A p \in Updatable(tree) : impactOf(sync, p) = "unchanged"
  <2> SUFFICES ASSUME NEW p \in Updatable(tree)
               PROVE  impactOf(sync, p) = "unchanged"
    OBVIOUS
  <2>1. p \in Parts /\ sync.baseline[p] = asBaseline(tree, p)
    BY <1>3 DEF Updatable
  <2>2. sync.baseline[p].shape = tree.exposes[p]
    BY <2>1 DEF asBaseline
  <2>3. tree.exposes[p] \in Shapes
    BY <1>1, <2>1 DEF Tree
  <2> QED
    BY <1>2, <2>2, <2>3, GateAssumption DEF impactOf, GateAssumption
<1>5. \A p \in Updatable(tree) : levelOf(sync, p) = "none"
  BY <1>4 DEF levelOf, requiredLevelFor
<1>6. Compared(sync) \subseteq Updatable(tree)
  BY <1>2 DEF Compared, Updatable, Parts
<1>7. apiContract(sync)
  <2>1. {levelOf(sync, t) : t \in {t \in Compared(sync) : impactOf(sync, t) # "unknown"}}
          \subseteq {"none"}
    BY <1>5, <1>6
  <2>2. {t \in Compared(sync) : impactOf(sync, t) # "unknown"} = Compared(sync)
    BY <1>4, <1>6
  <2>3. apiRequired(sync) = "none"
    BY <2>1, <2>2 DEF apiRequired, maxLevel
  <2> QED
    BY <1>4, <1>6, <2>3 DEF apiContract
<1>8. surfaceContract(sync)
  <2>1. CASE Surface \in Updatable(tree)
    <3>1. asBaseline(tree, Surface).committed
      BY DEF asBaseline
    <3>2. sync.baseline[Surface].committed /\ levelOf(sync, Surface) = "none"
      BY <1>3, <1>5, <2>1, <3>1 DEF Parts
    <3>3. sync.declared \in Level
      BY <1>2 DEF Tree
    <3> QED
      BY <3>2, <3>3 DEF surfaceContract, satisfied, rankAtLeast, LevelRank, Level
  <2>2. CASE Surface \notin Updatable(tree)
    BY <1>1, <1>2, <1>3, <2>2 DEF surfaceContract, Updatable, Parts
  <2> QED
    BY <2>1, <2>2
<1> QED
  BY <1>2, <1>7, <1>8 DEF Sound, contract, sync

LEMMA ChangeIsConsistent ==
  ASSUME Consistent(main), NEW exposes \in Exposing, NEW level \in Level,
         NEW change, change = [main EXCEPT !.exposes = exposes, !.declared = level]
  PROVE  /\ Consistent(change)
         /\ change.version = main.version /\ change.baseline = main.baseline
         /\ change.exposes = exposes
<1>1. main \in Tree
  BY DEF Consistent
<1>2. PICK p \in Parts : \E s \in PartShapes[p] : exposes = [main.exposes EXCEPT ![p] = s]
  BY DEF Exposing
<1> PICK s \in PartShapes[p] : exposes = [main.exposes EXCEPT ![p] = s]
  BY <1>2
<1>3. s \in Shapes /\ main.exposes \in [Parts -> Shapes]
  BY <1>1, ReleaseAssumption DEF ReleaseAssumption, Tree
<1>4. exposes \in [Parts -> Shapes] /\ exposes[Surface] \in {main.exposes[Surface]} \cup PartShapes[Surface]
  BY <1>3 DEF Parts
<1>5. /\ change \in Tree
      /\ change.version = main.version /\ change.baseline = main.baseline
      /\ change.exposes = exposes
  BY <1>1, <1>4 DEF Tree
<1> QED
  BY <1>4, <1>5 DEF Consistent, SurfaceKnown, NotAhead

\* Whatever baselines are committed with a change.
LEMMA CommittingIsConsistent ==
  ASSUME NEW change, Consistent(change), NEW tree \in Committing(change)
  PROVE  Consistent(tree) /\ tree.version = change.version /\ tree.exposes = change.exposes
BY WritingIsConsistent DEF Committing

(***************************************************************************)
(* The releases.                                                           *)
(***************************************************************************)

ReleaseInv ==
  /\ Sound(main)
  /\ \A tree \in releasePr : Sound(tree)

LEMMA InitEstablishes == Init => TypeOK /\ ReleaseInv
<1> SUFFICES ASSUME Init
             PROVE  TypeOK /\ ReleaseInv
  OBVIOUS
<1>1. PICK exposes \in [Parts -> Shapes] :
        LET new == [version |-> FirstVersion, declared |-> "none", exposes |-> exposes,
                    baseline |-> [p \in Parts |-> NoBaseline]]
        IN /\ \A p \in Parts : exposes[p] \in PartShapes[p]
           /\ main \in {new, bootstrap(new)}
           /\ contract(main)
  BY DEF Init
<1> DEFINE new == [version |-> FirstVersion, declared |-> "none", exposes |-> exposes,
                   baseline |-> [p \in Parts |-> NoBaseline]]
<1>2. /\ new.version = FirstVersion /\ new.declared = "none" /\ new.exposes = exposes
      /\ \A p \in Parts : new.baseline[p] = NoBaseline
      /\ new.baseline \in [Parts -> Baseline]
  BY DEF Baseline
<1>3. FirstVersion \in Version /\ "none" \in Level
  BY DEF FirstVersion, Version, Level
<1>4. new \in Tree
  BY <1>3 DEF Tree, Baseline
<1> HIDE DEF new
<1>5. ~ NoBaseline.committed /\ NoBaseline.shape = Absent
  BY DEF NoBaseline
<1>6. Consistent(new)
  BY <1>1, <1>2, <1>4, <1>5 DEF Consistent, NotAhead, SurfaceKnown, Parts
<1>7. Consistent(main) /\ contract(main)
  BY <1>1, <1>6, WritingIsConsistent DEF new
<1>8. published.version \in Version /\ published.exposes \in [Parts -> Shapes]
  BY GateAssumption DEF Init, NoRelease, Version, GateAssumption
<1> QED
  BY <1>7, <1>8 DEF Init, TypeOK, ReleaseInv, Sound, Consistent

LEMMA StepPreserves == TypeOK /\ ReleaseInv /\ [Next]_vars => TypeOK' /\ ReleaseInv'
<1> SUFFICES ASSUME TypeOK, ReleaseInv, [Next]_vars
             PROVE  TypeOK' /\ ReleaseInv'
  OBVIOUS
<1>0. Sound(main) /\ Consistent(main) /\ main \in Tree
  BY DEF ReleaseInv, Sound, Consistent
<1>1. CASE MergePR
  <2>1. PICK exposes \in Exposing, level \in Level :
          \E tree \in Committing([main EXCEPT !.exposes = exposes, !.declared = level]) :
            /\ contract(tree)
            /\ main' = tree
            /\ waived' = (waived \/ LeftToPerson(tree))
    BY <1>1 DEF MergePR
  <2> DEFINE change == [main EXCEPT !.exposes = exposes, !.declared = level]
  <2> PICK tree \in Committing(change) :
            /\ contract(tree)
            /\ main' = tree
            /\ waived' = (waived \/ LeftToPerson(tree))
    BY <2>1
  <2>2. Consistent(tree)
    BY <1>0, ChangeIsConsistent, CommittingIsConsistent
  <2>3. waived' \in BOOLEAN
    OBVIOUS
  <2> QED
    BY <1>1, <2>2, <2>3 DEF MergePR, TypeOK, ReleaseInv, Sound, Consistent
<1>2. CASE VersionRun
  <2>1. PICK level \in {l \in Level \ {"none"} : rankAtLeast(l, main.declared)} :
               releasePr' = {[main EXCEPT !.version = bumpForLevel(main.version, level),
                                          !.declared = "none"]}
    BY <1>2 DEF VersionRun
  <2>2. \A tree \in releasePr' : Sound(tree)
    BY <1>0, <2>1, ReleaseIsSound
  <2> QED
    BY <1>2, <2>2 DEF VersionRun, TypeOK, ReleaseInv, Sound, Consistent
<1>3. CASE SyncBaselines
  <2>1. \A tree \in releasePr' : Sound(tree)
    BY <1>3, SyncIsSound DEF SyncBaselines, ReleaseInv
  <2> QED
    BY <1>3, <2>1 DEF SyncBaselines, TypeOK, ReleaseInv, Sound, Consistent
<1>4. CASE MergeRelease
  <2>1. PICK tree \in releasePr : main' = tree /\ waived' = (waived \/ ~InSync(tree))
    BY <1>4 DEF MergeRelease
  <2>2. Sound(main') /\ waived' \in BOOLEAN
    BY <2>1 DEF ReleaseInv
  <2> QED
    BY <1>4, <2>2 DEF MergeRelease, TypeOK, ReleaseInv, Sound, Consistent
<1>5. CASE Publish
  <2>1. /\ published'.version \in Version /\ published'.exposes \in [Parts -> Shapes]
        /\ waived' \in BOOLEAN
    BY <1>0, <1>5 DEF Publish, Tree
  <2> QED
    BY <1>5, <2>1 DEF Publish, TypeOK, ReleaseInv
<1>6. CASE UNCHANGED vars
  BY <1>6 DEF vars, TypeOK, ReleaseInv
<1> QED
  BY <1>1, <1>2, <1>3, <1>4, <1>5, <1>6 DEF Next

\* Every commit, release pull request and release is of the types the module
\* declares, whatever is merged.
THEOREM SemverTypeCorrect == Spec => []TypeOK
<1>1. Spec => [](TypeOK /\ ReleaseInv)
  BY InitEstablishes, StepPreserves, PTL DEF Spec
<1> QED
  BY <1>1, PTL

\* Every release pull request passes the checks that main passed, from any main
\* the checks accepted, on both sides of 1.0.0 and before and after its
\* baselines are synced.
THEOREM ReleasePassesCorrect == Spec => []ReleasePasses
<1>1. Spec => [](TypeOK /\ ReleaseInv)
  BY InitEstablishes, StepPreserves, PTL DEF Spec
<1>2. ReleaseInv => ReleasePasses
  BY DEF ReleaseInv, ReleasePasses, Sound
<1> QED
  BY <1>1, <1>2, PTL

(***************************************************************************)
(* The versions of the baselines.                                          *)
(***************************************************************************)

\* An entry point that is gone has left no baseline behind.
NoOrphan(tree) ==
  \A t \in Apis : tree.exposes[t] = Absent => ~ tree.baseline[t].committed

AtItsVersion(tree) ==
  \A t \in Apis : tree.baseline[t].committed => tree.baseline[t].version = tree.version

VersionsInv ==
  /\ NoOrphan(main)
  /\ \A tree \in releasePr : NoOrphan(tree)
  /\ ~ waived => AtItsVersion(main)

\* Only what a tree exposes gets a baseline, of that tree's version.
LEMMA WritingNoOrphan ==
  ASSUME NEW tree, tree \in Tree, NoOrphan(tree),
         NEW written \in {bootstrap(tree), updateBaseline(tree)}
  PROVE  /\ NoOrphan(written)
         /\ \A t \in Apis : \/ written.baseline[t] = tree.baseline[t]
                            \/ written.baseline[t].version = tree.version
<1>1. written.exposes = tree.exposes
  BY DEF bootstrap, updateBaseline, Tree
<1>2. \A t \in Apis : \/ written.baseline[t] = tree.baseline[t]
                      \/ /\ tree.exposes[t] # Absent
                         /\ written.baseline[t] = asBaseline(tree, t)
  <2>1. CASE written = bootstrap(tree)
    BY <2>1 DEF bootstrap, Tree, Parts
  <2>2. CASE written = updateBaseline(tree)
    BY <2>2, GateAssumption DEF updateBaseline, Updatable, Tree, Parts, GateAssumption
  <2> QED
    BY <2>1, <2>2
<1>3. \A t \in Apis : asBaseline(tree, t).version = tree.version
  BY DEF asBaseline
<1> QED
  BY <1>1, <1>2, <1>3 DEF NoOrphan

LEMMA SyncedIsAtItsVersion ==
  ASSUME NEW tree, tree \in Tree, NoOrphan(tree), InSync(tree)
  PROVE  AtItsVersion(tree)
<1> SUFFICES ASSUME NEW t \in Apis, tree.baseline[t].committed
             PROVE  tree.baseline[t].version = tree.version
  BY DEF AtItsVersion
<1>1. t \in Updatable(tree)
  BY DEF NoOrphan, Updatable, Parts
<1>2. updateBaseline(tree).baseline[t] = asBaseline(tree, t)
  BY <1>1 DEF updateBaseline, Tree, Parts
<1> QED
  BY <1>2 DEF InSync, asBaseline

LEMMA VersionsInit == Init => VersionsInv
<1> SUFFICES ASSUME Init
             PROVE  VersionsInv
  OBVIOUS
<1>1. PICK exposes \in [Parts -> Shapes] :
        main \in {[version |-> FirstVersion, declared |-> "none", exposes |-> exposes,
                   baseline |-> [p \in Parts |-> NoBaseline]],
                  bootstrap([version |-> FirstVersion, declared |-> "none", exposes |-> exposes,
                             baseline |-> [p \in Parts |-> NoBaseline]])}
  BY DEF Init
<1> DEFINE new == [version |-> FirstVersion, declared |-> "none", exposes |-> exposes,
                   baseline |-> [p \in Parts |-> NoBaseline]]
<1>2. new \in Tree
  BY DEF FirstVersion, Version, Level, Tree, Baseline
<1>3. \A p \in Parts : ~ new.baseline[p].committed
  BY DEF NoBaseline
<1>4. NoOrphan(new)
  BY <1>3 DEF NoOrphan, Parts
<1>5. NoOrphan(main)
  <2> HIDE DEF new
  <2> QED
    BY <1>1, <1>2, <1>4, WritingNoOrphan DEF new
<1> QED
  BY <1>5 DEF Init, VersionsInv

LEMMA VersionsStep ==
  ASSUME ~ EntryPointsLeave, TypeOK, ReleaseInv, VersionsInv, [Next]_vars
  PROVE  VersionsInv'
<1>0. main \in Tree /\ Consistent(main)
  BY DEF ReleaseInv, Sound, Consistent
<1>1. CASE MergePR
  <2>1. PICK exposes \in Exposing, level \in Level :
          \E tree \in Committing([main EXCEPT !.exposes = exposes, !.declared = level]) :
            /\ main' = tree
            /\ waived' = (waived \/ LeftToPerson(tree))
    BY <1>1 DEF MergePR
  <2> DEFINE change == [main EXCEPT !.exposes = exposes, !.declared = level]
  <2> PICK tree \in Committing(change) :
             main' = tree /\ waived' = (waived \/ LeftToPerson(tree))
    BY <2>1
  <2>2. /\ Consistent(change)
        /\ change.version = main.version /\ change.baseline = main.baseline
        /\ change.exposes = exposes
    BY <1>0, ChangeIsConsistent
  <2>3. \A t \in Apis : exposes[t] = Absent => main.exposes[t] = Absent
    BY DEF Exposing
  <2> HIDE DEF change
  <2>4. change \in Tree /\ NoOrphan(change)
    BY <2>2, <2>3 DEF VersionsInv, NoOrphan, Consistent
  <2>5. /\ NoOrphan(tree) /\ tree.version = main.version
        /\ \A t \in Apis : \/ tree.baseline[t] = main.baseline[t]
                           \/ tree.baseline[t].version = main.version
    BY <2>2, <2>4, WritingNoOrphan, CommittingIsConsistent DEF Committing
  <2>6. ASSUME ~ waived'
        PROVE  AtItsVersion(tree)
    BY <2>5, <2>6 DEF VersionsInv, AtItsVersion
  <2> QED
    BY <1>1, <2>5, <2>6 DEF MergePR, VersionsInv, NoOrphan, AtItsVersion
<1>2. CASE VersionRun
  <2>1. \A tree \in releasePr' : tree.exposes = main.exposes /\ tree.baseline = main.baseline
    BY <1>0, <1>2 DEF VersionRun, Tree
  <2> QED
    BY <1>2, <2>1 DEF VersionRun, VersionsInv, NoOrphan, AtItsVersion
<1>3. CASE SyncBaselines
  <2>1. PICK tree \in releasePr : releasePr' = {updateBaseline(tree)}
    BY <1>3 DEF SyncBaselines
  <2>2. NoOrphan(updateBaseline(tree))
    BY WritingNoOrphan DEF TypeOK, VersionsInv
  <2> QED
    BY <1>3, <2>1, <2>2 DEF SyncBaselines, VersionsInv, NoOrphan, AtItsVersion
<1>4. CASE MergeRelease
  <2>1. PICK tree \in releasePr : main' = tree /\ waived' = (waived \/ ~InSync(tree))
    BY <1>4 DEF MergeRelease
  <2>2. NoOrphan(tree) /\ (InSync(tree) => AtItsVersion(tree))
    BY SyncedIsAtItsVersion DEF TypeOK, VersionsInv
  <2> QED
    BY <1>4, <2>1, <2>2 DEF MergeRelease, VersionsInv, NoOrphan, AtItsVersion
<1>5. CASE Publish
  <2>1. InSync(main) => AtItsVersion(main)
    BY <1>0, SyncedIsAtItsVersion DEF VersionsInv
  <2> QED
    BY <1>5, <2>1 DEF Publish, VersionsInv, NoOrphan, AtItsVersion
<1>6. CASE UNCHANGED vars
  BY <1>6 DEF vars, VersionsInv, NoOrphan, AtItsVersion
<1> QED
  BY <1>1, <1>2, <1>3, <1>4, <1>5, <1>6 DEF Next

\* While no entry point leaves the package, and the baselines are those of the
\* last release with every change since classified, all baselines are of one
\* version, so the version of any of them may stand for all.
THEOREM BaselinesAgreeCorrect ==
  ASSUME ~ EntryPointsLeave
  PROVE  Spec => []BaselinesAgree
<1>1. Init => TypeOK /\ ReleaseInv /\ VersionsInv
  BY InitEstablishes, VersionsInit
<1>2. TypeOK /\ ReleaseInv /\ VersionsInv /\ [Next]_vars
        => TypeOK' /\ ReleaseInv' /\ VersionsInv'
  BY StepPreserves, VersionsStep
<1>3. Spec => [](TypeOK /\ ReleaseInv /\ VersionsInv)
  BY <1>1, <1>2, PTL DEF Spec
<1>4. VersionsInv => BaselinesAgree
  BY DEF VersionsInv, AtItsVersion, BaselinesAgree, Agree, Compared
<1> QED
  BY <1>3, <1>4, PTL

(***************************************************************************)
(* What npm has.                                                           *)
(***************************************************************************)

\* The version is far enough from the published one for what the part exposed
\* there to have become this shape.
Reaches(version, p, shape) ==
  \E rating \in Ratings : /\ <<published.exposes[p], shape>> \in Keeps[rating]
                          /\ farEnough(published.version, version, rating)

\* A release pull request bumps main by at least what main declares and drops
\* no baseline, and the
\* baselines of main, all of its version, are as far from what npm has as that
\* version is.
KeptInv ==
  /\ \A tree \in releasePr :
       /\ tree.exposes = main.exposes
       /\ \A p \in Parts : main.baseline[p].committed => tree.baseline[p].committed
       /\ \E level \in Level : /\ rankAtLeast(level, main.declared)
                               /\ tree.version = bumpForLevel(main.version, level)
  /\ ~ waived =>
       /\ apiRequired(main) # "unknown"
       /\ \A p \in Parts : published.exposes[p] # Absent =>
            /\ p \in Apis => main.exposes[p] # Absent
            /\ main.baseline[p].committed
            /\ main.baseline[p].version = main.version
            /\ Reaches(main.version, p, main.baseline[p].shape)

LEMMA NoFurther ==
  ASSUME NEW v \in Version, NEW l \in Level, atLeast(v, bumpForLevel(v, l))
  PROVE  l = "none"
BY DEF Version, Level, atLeast, bumpForLevel

LEMMA MaxIsLargest ==
  ASSUME NEW levels, NEW l \in Level, l \in levels
  PROVE  rankAtLeast(maxLevel(levels), l)
BY DEF maxLevel, Level, LevelRank, rankAtLeast

LEMMA RankOfNone ==
  ASSUME NEW l \in Level
  PROVE  rankAtLeast(l, "none")
BY DEF Level, LevelRank, rankAtLeast

LEMMA RatingType ==
  ASSUME NEW rating \in Ratings, NEW pre \in BOOLEAN
  PROVE  requiredLevelFor(rating, pre) \in Level
BY DEF Ratings, requiredLevelFor, Level

\* A step that keeps what two ratings promise keeps what the weaker promises,
\* and the weaker needs the level of either.
LEMMA RatingsChain ==
  ASSUME NEW a \in Shapes, NEW b \in Shapes, NEW c \in Shapes,
         NEW one \in Ratings, NEW two \in Ratings,
         <<a, b>> \in Keeps[one], <<b, c>> \in Keeps[two]
  PROVE  \/ <<a, c>> \in Keeps[one] /\ \A pre \in BOOLEAN :
              rankAtLeast(requiredLevelFor(one, pre), requiredLevelFor(two, pre))
         \/ <<a, c>> \in Keeps[two] /\ \A pre \in BOOLEAN :
              rankAtLeast(requiredLevelFor(two, pre), requiredLevelFor(one, pre))
<1> DEFINE Weaker(r, s) == /\ Keeps[s] \subseteq Keeps[r]
                           /\ \A pre \in BOOLEAN :
                                rankAtLeast(requiredLevelFor(r, pre), requiredLevelFor(s, pre))
<1>1. Weaker(one, two) \/ Weaker(two, one)
  <2>1. /\ Keeps["unchanged"] \subseteq Keeps["compatible"]
        /\ Keeps["compatible"] \subseteq Keeps["widening"]
        /\ \A r \in Ratings : Keeps[r] \subseteq Keeps["breaking"]
    BY KeepsAssumption DEF KeepsAssumption
  <2>2. \A r \in Ratings : /\ Weaker(r, r)
                           /\ Weaker("breaking", r)
                           /\ Weaker(r, "unchanged")
    BY <2>1 DEF Ratings, requiredLevelFor, rankAtLeast, LevelRank
  <2>3. Weaker("widening", "compatible")
    BY <2>1 DEF requiredLevelFor, rankAtLeast, LevelRank
  <2> HIDE DEF Weaker
  <2> QED
    BY <2>2, <2>3 DEF Ratings
<1>2. \A r \in Ratings : <<a, b>> \in Keeps[r] /\ <<b, c>> \in Keeps[r] => <<a, c>> \in Keeps[r]
  BY KeepsAssumption DEF KeepsAssumption
<1> QED
  BY <1>1, <1>2

\* What changed since a baseline of the package's own version has been rated,
\* and the changesets declare what the rating needs.
LEMMA ChangeIsDeclared ==
  ASSUME NEW tree, Sound(tree), AtItsVersion(tree), apiRequired(tree) # "unknown",
         NEW p \in Parts, p \in Apis => tree.exposes[p] # Absent,
         tree.baseline[p].committed, tree.baseline[p].version = tree.version
  PROVE  \E rating \in Ratings :
           /\ <<tree.baseline[p].shape, tree.exposes[p]>> \in Keeps[rating]
           /\ rankAtLeast(tree.declared, requiredLevelFor(rating, preOne(tree.version)))
<1> DEFINE step == <<tree.baseline[p].shape, tree.exposes[p]>>
           pre == preOne(tree.version)
<1>1. /\ Consistent(tree) /\ apiContract(tree) /\ surfaceContract(tree)
      /\ tree \in Tree /\ pre \in BOOLEAN
  BY DEF Sound, contract, Consistent, preOne
<1>2. tree.version \in Version /\ tree.declared \in Level
  BY <1>1 DEF Tree
<1>3. tree.baseline[p].shape \in Shapes /\ tree.exposes[p] \in Shapes
  <2>1. tree.baseline[p] \in Baseline /\ tree.exposes[p] \in Shapes
    BY <1>1 DEF Tree
  <2>2. ~ NoBaseline.committed
    BY DEF NoBaseline
  <2>3. tree.baseline[p] \in [shape : Shapes, version : Version, committed : {TRUE}]
    BY <2>1, <2>2 DEF Baseline
  <2> QED
    BY <2>1, <2>3
<1>4. Impact[step] \in ContractImpact /\ step \in Shapes \X Shapes
  BY <1>3, GateAssumption DEF GateAssumption
<1>5. Impact[step] \in Ratings => step \in Keeps[Impact[step]]
  BY <1>3, KeepsAssumption DEF KeepsAssumption
<1>6. \A l \in Level : satisfied(tree, l, tree.version) => rankAtLeast(tree.declared, l)
  BY <1>2, NoFurther, RankOfNone DEF satisfied
<1>7. CASE p = Surface
  <2>1. Impact[step] \in Ratings
    BY <1>1, <1>4, <1>7, ReleaseAssumption
    DEF Consistent, SurfaceKnown, ReleaseAssumption, ContractImpact, Ratings
  <2>2. levelOf(tree, Surface) \in Level
    BY <1>1, SurfaceLevelType
  <2>3. rankAtLeast(tree.declared, levelOf(tree, Surface))
    BY <1>1, <1>6, <1>7, <2>2 DEF surfaceContract
  <2> QED
    BY <1>5, <1>7, <2>1, <2>3 DEF levelOf, impactOf
<1>8. CASE p \in Apis
  <2> DEFINE r == apiRequired(tree)
             known == {t \in Compared(tree) : impactOf(tree, t) # "unknown"}
             worst == maxLevel({"none"} \cup {levelOf(tree, t) : t \in known})
             top == IF pre THEN "minor" ELSE "major"
  <2>1. p \in Compared(tree)
    BY <1>8 DEF Compared
  <2>2. r \in Level /\ r = worst /\ (known = Compared(tree) \/ worst = top)
    BY ApiRequiredType DEF apiRequired
  <2>3. rankAtLeast(tree.declared, r)
    <3>1. CASE r = "none"
      BY <1>2, <3>1, RankOfNone
    <3>2. CASE r # "none"
      <4>1. PICK t \in Compared(tree) : baselineVersion(tree) = tree.baseline[t].version
        BY <1>1, <2>1, BaselineVersionIsCommitted
      <4>2. baselineVersion(tree) = tree.version
        BY <4>1 DEF AtItsVersion, Compared
      <4>3. satisfied(tree, r, tree.version)
        BY <1>1, <3>2, <4>2 DEF apiContract
      <4> QED
        BY <1>6, <2>2, <4>3
    <3> QED
      BY <3>1, <3>2
  <2> HIDE DEF r, worst
  <2>4. CASE Impact[step] = "unknown"
    <3>1. p \notin known
      BY <2>4 DEF impactOf
    <3>2. r = requiredLevelFor("breaking", pre)
      BY <2>1, <2>2, <3>1 DEF requiredLevelFor
    <3>3. step \in Keeps["breaking"]
      BY <1>4, KeepsAssumption DEF KeepsAssumption
    <3> QED
      BY <2>3, <3>2, <3>3 DEF Ratings
  <2>5. CASE Impact[step] # "unknown"
    <3>1. Impact[step] # "stale"
      BY <1>1, <2>1 DEF apiContract, impactOf
    <3>2. Impact[step] \in Ratings
      BY <1>4, <2>5, <3>1 DEF ContractImpact, Ratings
    <3>3. levelOf(tree, p) = requiredLevelFor(Impact[step], pre)
      BY DEF levelOf, impactOf
    <3>4. levelOf(tree, p) \in Level
      BY <1>1, <3>2, <3>3, RatingType
    <3>5. p \in known
      BY <2>1, <2>5 DEF impactOf
    <3>6. rankAtLeast(r, levelOf(tree, p))
      BY <2>2, <3>4, <3>5, MaxIsLargest DEF worst
    <3>7. rankAtLeast(tree.declared, levelOf(tree, p))
      BY <1>2, <2>2, <2>3, <3>4, <3>6, RankTransitive
    <3> QED
      BY <1>5, <3>2, <3>3, <3>7
  <2> QED
    BY <2>4, <2>5
<1> QED
  BY <1>7, <1>8 DEF Parts

\* What main exposes is as far from what npm has as any version is that the
\* changesets of main lead to, on both sides of 1.0.0.
LEMMA ReleaseReaches ==
  ASSUME TypeOK, ReleaseInv, VersionsInv, KeptInv, ~ waived,
         NEW p \in Parts, published.exposes[p] # Absent,
         NEW level \in Level, rankAtLeast(level, main.declared)
  PROVE  Reaches(bumpForLevel(main.version, level), p, main.exposes[p])
<1> DEFINE v == main.version
           next == bumpForLevel(v, level)
           shape == main.baseline[p].shape
<1>1. /\ Sound(main) /\ Consistent(main) /\ main \in Tree /\ AtItsVersion(main)
      /\ v \in Version /\ main.declared \in Level
      /\ published.version \in Version /\ published.exposes[p] \in Shapes
  BY DEF TypeOK, ReleaseInv, VersionsInv, Sound, Consistent, Tree
<1>2. /\ apiRequired(main) # "unknown" /\ Reaches(v, p, shape)
      /\ main.baseline[p].committed /\ main.baseline[p].version = v
      /\ p \in Apis => main.exposes[p] # Absent
  BY DEF KeptInv
<1>3. shape \in Shapes /\ main.exposes[p] \in Shapes
  <2>1. main.baseline[p] \in Baseline /\ main.exposes[p] \in Shapes
    BY <1>1 DEF Tree
  <2>2. ~ NoBaseline.committed
    BY DEF NoBaseline
  <2>3. main.baseline[p] \in [shape : Shapes, version : Version, committed : {TRUE}]
    BY <1>2, <2>1, <2>2 DEF Baseline
  <2> QED
    BY <2>1, <2>3
<1>4. PICK one \in Ratings : /\ <<published.exposes[p], shape>> \in Keeps[one]
                             /\ farEnough(published.version, v, one)
  BY <1>2 DEF Reaches
<1>5. PICK two \in Ratings : /\ <<shape, main.exposes[p]>> \in Keeps[two]
                             /\ rankAtLeast(main.declared, requiredLevelFor(two, preOne(v)))
  BY <1>1, <1>2, ChangeIsDeclared
<1>6. next \in Version /\ preOne(v) \in BOOLEAN /\ preOne(next) \in BOOLEAN
  BY <1>1, BumpType DEF preOne
<1>7. atLeast(v, published.version)
  <2> DEFINE r == requiredLevelFor(one, preOne(v))
  <2>1. r \in Level /\ atLeast(v, bumpForLevel(published.version, r))
    BY <1>4, <1>6, RatingType DEF farEnough
  <2> HIDE DEF r
  <2>2. /\ bumpForLevel(published.version, r) \in Version
        /\ atLeast(bumpForLevel(published.version, r), published.version)
    BY <1>1, <2>1, BumpIsLater, BumpType
  <2> QED
    BY <1>1, <2>1, <2>2, AtLeastTransitive
<1>8. \E rating \in Ratings :
        /\ <<published.exposes[p], main.exposes[p]>> \in Keeps[rating]
        /\ \/ rankAtLeast(main.declared, requiredLevelFor(rating, preOne(v)))
           \/ atLeast(v, bumpForLevel(published.version, requiredLevelFor(rating, preOne(v))))
  BY <1>1, <1>3, <1>4, <1>5, RatingsChain DEF farEnough
<1>9. PICK rating \in Ratings :
        /\ <<published.exposes[p], main.exposes[p]>> \in Keeps[rating]
        /\ \/ rankAtLeast(main.declared, requiredLevelFor(rating, preOne(v)))
           \/ atLeast(v, bumpForLevel(published.version, requiredLevelFor(rating, preOne(v))))
  BY <1>8
<1> DEFINE r == requiredLevelFor(rating, preOne(next))
<1>10. r \in Level
  BY <1>6, RatingType
<1>11. (preOne(v) <=> preOne(next)) =>
         rankAtLeast(main.declared, r) \/ atLeast(v, bumpForLevel(published.version, r))
  <2>1. (preOne(v) <=> preOne(next)) => preOne(v) = preOne(next)
    BY <1>6
  <2> QED
    BY <1>9, <2>1
<1> HIDE DEF r
<1>12. atLeast(next, bumpForLevel(published.version, r))
  BY <1>1, <1>7, <1>10, <1>11, BumpReaches
<1> QED
  BY <1>9, <1>12 DEF Reaches, farEnough, r

LEMMA SyncedNeedsNothing ==
  ASSUME NEW tree, tree \in Tree, InSync(tree)
  PROVE  /\ \A p \in Updatable(tree) : tree.baseline[p] = asBaseline(tree, p)
         /\ apiRequired(tree) = "none"
<1>1. \A p \in Updatable(tree) : tree.baseline[p] = asBaseline(tree, p)
  BY DEF InSync, updateBaseline, Updatable, Tree
<1>2. \A t \in Compared(tree) : impactOf(tree, t) = "unchanged"
  <2> SUFFICES ASSUME NEW t \in Compared(tree)
               PROVE  impactOf(tree, t) = "unchanged"
    OBVIOUS
  <2>1. t \in Updatable(tree) /\ tree.exposes[t] \in Shapes
    BY DEF Compared, Updatable, Parts, Tree
  <2>2. tree.baseline[t] = asBaseline(tree, t)
    BY <1>1, <2>1
  <2>3. tree.baseline[t].shape = tree.exposes[t]
    BY <2>2 DEF asBaseline
  <2> QED
    BY <2>1, <2>3, GateAssumption DEF impactOf, GateAssumption
<1>3. {t \in Compared(tree) : impactOf(tree, t) # "unknown"} = Compared(tree)
  BY <1>2
<1>4. {levelOf(tree, t) : t \in Compared(tree)} \subseteq {"none"}
  BY <1>2 DEF levelOf, requiredLevelFor
<1> QED
  BY <1>1, <1>3, <1>4 DEF apiRequired, maxLevel

LEMMA KeptInit == Init => KeptInv
BY DEF Init, KeptInv

LEMMA KeptStep ==
  ASSUME ~ EntryPointsLeave, TypeOK, ReleaseInv, VersionsInv, KeptInv, [Next]_vars
  PROVE  KeptInv'
<1>0. main \in Tree /\ Consistent(main) /\ main.version \in Version /\ main.declared \in Level
  BY DEF ReleaseInv, Sound, Consistent, Tree
<1>1. CASE MergePR
  <2>1. PICK exposes \in Exposing, level \in Level :
          \E tree \in Committing([main EXCEPT !.exposes = exposes, !.declared = level]) :
            /\ main' = tree
            /\ waived' = (waived \/ LeftToPerson(tree))
    BY <1>1 DEF MergePR
  <2> DEFINE change == [main EXCEPT !.exposes = exposes, !.declared = level]
  <2> PICK tree \in Committing(change) :
             main' = tree /\ waived' = (waived \/ LeftToPerson(tree))
    BY <2>1
  <2>2. /\ Consistent(change)
        /\ change.version = main.version /\ change.baseline = main.baseline
        /\ change.exposes = exposes
    BY <1>0, ChangeIsConsistent
  <2>3. \A t \in Apis : exposes[t] = Absent => main.exposes[t] = Absent
    BY DEF Exposing
  <2> HIDE DEF change
  <2>4. tree.version = main.version /\ tree.exposes = exposes
    BY <2>2, CommittingIsConsistent
  <2> SUFFICES ASSUME ~ waived',
                      NEW p \in Parts, published.exposes[p] # Absent
               PROVE  /\ apiRequired(tree) # "unknown"
                      /\ p \in Apis => tree.exposes[p] # Absent
                      /\ tree.baseline[p].committed
                      /\ tree.baseline[p].version = tree.version
                      /\ Reaches(tree.version, p, tree.baseline[p].shape)
    BY <1>1 DEF MergePR, KeptInv, Reaches, LeftToPerson
  <2>5. ~ waived /\ ~ LeftToPerson(tree)
    OBVIOUS
  <2>6. main.baseline[p].committed /\ (p \in Apis => main.exposes[p] # Absent)
    BY <2>5 DEF KeptInv
  <2>7. tree.baseline[p] = main.baseline[p] /\ apiRequired(tree) # "unknown"
    BY <2>5, <2>6 DEF LeftToPerson
  <2> QED
    BY <2>3, <2>4, <2>5, <2>6, <2>7 DEF KeptInv
<1>2. CASE VersionRun
  <2>1. PICK level \in {l \in Level \ {"none"} : rankAtLeast(l, main.declared)} :
               releasePr' = {[main EXCEPT !.version = bumpForLevel(main.version, level),
                                          !.declared = "none"]}
    BY <1>2 DEF VersionRun
  <2>2. \A tree \in releasePr' : /\ tree.exposes = main.exposes /\ tree.baseline = main.baseline
                                 /\ tree.version = bumpForLevel(main.version, level)
    BY <1>0, <2>1 DEF Tree
  <2> QED
    BY <1>2, <2>2 DEF VersionRun, KeptInv, Reaches
<1>3. CASE SyncBaselines
  <2>1. PICK tree \in releasePr : releasePr' = {updateBaseline(tree)}
    BY <1>3 DEF SyncBaselines
  <2>2. /\ updateBaseline(tree).version = tree.version
        /\ updateBaseline(tree).exposes = tree.exposes
        /\ \A p \in Parts : tree.baseline[p].committed => updateBaseline(tree).baseline[p].committed
    BY DEF updateBaseline, asBaseline, Tree, TypeOK
  <2> QED
    BY <1>3, <2>1, <2>2 DEF SyncBaselines, KeptInv, Reaches
<1>4. CASE MergeRelease
  <2>1. PICK tree \in releasePr : main' = tree /\ waived' = (waived \/ ~ InSync(tree))
    BY <1>4 DEF MergeRelease
  <2> SUFFICES ASSUME ~ waived',
                      NEW p \in Parts, published.exposes[p] # Absent
               PROVE  /\ apiRequired(tree) # "unknown"
                      /\ p \in Apis => tree.exposes[p] # Absent
                      /\ tree.baseline[p].committed
                      /\ tree.baseline[p].version = tree.version
                      /\ Reaches(tree.version, p, tree.baseline[p].shape)
    BY <1>4, <2>1, SyncedNeedsNothing DEF MergeRelease, KeptInv, Reaches, TypeOK
  <2>2. ~ waived /\ InSync(tree) /\ tree \in Tree
    BY <2>1 DEF TypeOK
  <2>3. /\ main.baseline[p].committed /\ (p \in Apis => main.exposes[p] # Absent)
        /\ tree.exposes = main.exposes /\ tree.baseline[p].committed
    BY <2>2 DEF KeptInv
  <2>4. p \in Updatable(tree)
    BY <2>3 DEF Updatable, Parts
  <2>5. tree.baseline[p] = asBaseline(tree, p) /\ apiRequired(tree) = "none"
    BY <2>2, <2>4, SyncedNeedsNothing
  <2>6. tree.baseline[p].shape = main.exposes[p] /\ tree.baseline[p].version = tree.version
    BY <2>3, <2>5 DEF asBaseline
  <2>7. PICK level \in Level : /\ rankAtLeast(level, main.declared)
                               /\ tree.version = bumpForLevel(main.version, level)
    BY DEF KeptInv
  <2>8. Reaches(tree.version, p, main.exposes[p])
    BY <2>2, <2>7, ReleaseReaches
  <2> QED
    BY <2>3, <2>5, <2>6, <2>8
<1>5. CASE Publish
  <2>1. /\ published'.version = main.version /\ published'.exposes = main.exposes
        /\ waived' = ~ InSync(main) /\ UNCHANGED <<main, releasePr>>
    BY <1>5 DEF Publish
  <2>2. ASSUME ~ waived'
        PROVE  apiRequired(main) # "unknown"
    BY <1>0, <2>1, <2>2, SyncedNeedsNothing
  <2>3. ASSUME ~ waived', NEW p \in Parts, main.exposes[p] # Absent
        PROVE  /\ main.baseline[p].committed
               /\ main.baseline[p].version = main.version
               /\ Reaches(main.version, p, main.baseline[p].shape)'
    <3>1. main.baseline[p] = asBaseline(main, p)
      BY <1>0, <2>1, <2>3, SyncedNeedsNothing DEF Updatable
    <3>2. /\ main.baseline[p].committed /\ main.baseline[p].version = main.version
          /\ main.baseline[p].shape = main.exposes[p]
      BY <3>1 DEF asBaseline
    <3>3. <<main.exposes[p], main.exposes[p]>> \in Keeps["unchanged"]
      <4>1. main.exposes[p] \in Shapes
        BY <1>0 DEF Tree
      <4>2. Impact[<<main.exposes[p], main.exposes[p]>>] = "unchanged"
        BY <4>1, GateAssumption DEF GateAssumption
      <4> QED
        BY <4>1, <4>2, KeepsAssumption DEF KeepsAssumption, Ratings
    <3>4. farEnough(main.version, main.version, "unchanged")
      BY <1>0 DEF farEnough, requiredLevelFor, bumpForLevel, atLeast, Version
    <3> QED
      BY <2>1, <3>2, <3>3, <3>4 DEF Reaches, Ratings
  <2> QED
    BY <2>1, <2>2, <2>3 DEF KeptInv
<1>6. CASE UNCHANGED vars
  BY <1>6 DEF vars, KeptInv, Reaches
<1> QED
  BY <1>1, <1>2, <1>3, <1>4, <1>5, <1>6 DEF Next

\* While no entry point leaves the package, every version npm gets is as far
\* from the one before as what changed between them needs, whatever was merged,
\* rebuilt, synced or left unpublished on the way: for every list of entry
\* points, every way of rating a change and every meaning of the ratings.
THEOREM SemverKeptCorrect ==
  ASSUME ~ EntryPointsLeave
  PROVE  Spec => SemverKept
<1> DEFINE Inv == TypeOK /\ ReleaseInv /\ VersionsInv /\ KeptInv
           Kept == published' # published /\ published # NoRelease /\ ~ waived =>
             \A p \in Parts :
               published.exposes[p] # Absent /\ published'.exposes[p] # Absent =>
                 \E rating \in Ratings :
                   /\ <<published.exposes[p], published'.exposes[p]>> \in Keeps[rating]
                   /\ farEnough(published.version, published'.version, rating)
<1>1. Init => Inv
  BY InitEstablishes, VersionsInit, KeptInit
<1>2. Inv /\ [Next]_vars => Inv'
  BY StepPreserves, VersionsStep, KeptStep
<1>3. ASSUME Inv, [Next]_vars
      PROVE  Kept
  <2> SUFFICES ASSUME published' # published, ~ waived,
                      NEW p \in Parts, published.exposes[p] # Absent
               PROVE  \E rating \in Ratings :
                        /\ <<published.exposes[p], published'.exposes[p]>> \in Keeps[rating]
                        /\ farEnough(published.version, published'.version, rating)
    OBVIOUS
  <2>1. Publish
    BY <1>3 DEF Next, MergePR, VersionRun, SyncBaselines, MergeRelease, vars
  <2>2. /\ published'.version = main.version /\ published'.exposes = main.exposes
        /\ main.declared = "none"
    BY <2>1 DEF Publish
  <2>3. "none" \in Level /\ rankAtLeast("none", main.declared)
    BY <2>2, RankOfNone DEF Level
  <2>4. bumpForLevel(main.version, "none") = main.version
    BY DEF bumpForLevel
  <2>5. Reaches(main.version, p, main.exposes[p])
    BY <1>3, <2>3, <2>4, ReleaseReaches
  <2> QED
    BY <2>2, <2>5 DEF Reaches
<1>5. Inv /\ [Next]_vars => [Kept]_vars
  BY <1>3
<1> HIDE DEF Inv, Kept
<1>6. Spec => [][Kept]_vars
  BY <1>1, <1>2, <1>5, PTL DEF Spec
<1> QED
  BY <1>6 DEF Kept, SemverKept

=============================================================================
