--------------------------- MODULE ChangedRunProofs --------------------------
(***************************************************************************)
(* Proofs about `--changed`, for every set of checks, every table of which *)
(* kind of file affects which of them, and every set of paths and texts.   *)
(***************************************************************************)
EXTENDS ChangedRun, TLAPS

\* git answers: each of the listings succeeds.
GitWorks == GitAnswers \subseteq {Listing}

\* Files that may say the same, so that one may be taken for the other moved, are
\* of the same kinds.
TextTellsKind ==
  \A f, g \in Files : \A text \in (Texts[f] \cap Texts[g]) \ {Missing} : KindsOf[f] = KindsOf[g]

-----------------------------------------------------------------------------
(* Types.                                                                  *)

LEMMA TreesAre ==
  ASSUME NEW tree
  PROVE  tree \in Tree <=> /\ tree = [f \in Files |-> tree[f]]
                           /\ \A f \in Files : tree[f] \in Texts[f]
<1>1. ASSUME tree = [f \in Files |-> tree[f]], \A f \in Files : tree[f] \in Texts[f]
      PROVE  tree \in [Files -> UNION {Texts[f] : f \in Files}]
  BY <1>1
<1> QED BY <1>1 DEF Tree

LEMMA TypeInit == Init => TypeOK
BY DEF Init, TypeOK

LEMMA TypeStep == TypeOK /\ [Next]_vars => TypeOK'
<1> SUFFICES ASSUME TypeOK, [Next]_vars PROVE TypeOK'
  OBVIOUS
<1> USE DEF TypeOK
<1>1. ASSUME NEW f \in Files, Edit(f) PROVE TypeOK'
  <2>1. PICK text \in Texts[f] : files' = [files EXCEPT ![f] = text]
    BY <1>1 DEF Edit
  <2>2. files' \in Tree
    BY <2>1, TreesAre
  <2> QED BY <1>1, <2>2 DEF Edit, NoRun
<1>2. ASSUME NEW f \in Files, Add(f) PROVE TypeOK'
  BY <1>2 DEF Add, NoRun
<1>3. ASSUME NEW f \in Files, MergeDefault(f) PROVE TypeOK'
  <2>1. PICK text \in Texts[f] :
          /\ base' = [base EXCEPT ![f] = text]
          /\ head' = [head EXCEPT ![f] = IF head[f] = base[f] THEN text ELSE head[f]]
          /\ files' = [files EXCEPT ![f] = IF head[f] = base[f] THEN text ELSE head[f]]
    BY <1>3 DEF MergeDefault
  <2>2. base' \in Tree /\ head' \in Tree /\ files' \in Tree
    BY <2>1, TreesAre
  <2> QED BY <1>3, <2>2 DEF MergeDefault, NoRun
<1>4. ASSUME NEW fs \in SUBSET Files, CommitFiles(fs) PROVE TypeOK'
  <2>1. head' \in Tree
    BY <1>4, TreesAre DEF CommitFiles
  <2> QED BY <1>4, <2>1 DEF CommitFiles, NoRun
<1>5. CASE Push
  BY <1>5 DEF Push, NoRun
<1>6. CASE MergeBranch
  BY <1>6 DEF MergeBranch, NoRun
<1>7. CASE SelectChanged
  BY <1>7, ChangedAssumption DEF SelectChanged, gitVars
<1>8. CASE UNCHANGED vars
  BY <1>8 DEF vars, gitVars
<1> QED BY <1>1, <1>2, <1>3, <1>4, <1>5, <1>6, <1>7, <1>8 DEF Next

\* The trees stay trees and the selection within what was asked for.
THEOREM ChangedTypeCorrect == Spec => []TypeOK
BY TypeInit, TypeStep, PTL DEF Spec

-----------------------------------------------------------------------------
(* What git names.                                                         *)

\* Whatever kind of file is named, its checks are selected.
LEMMA SelectionCovers ==
  ASSUME NEW kinds \in SUBSET FileKind
  PROVE  /\ Always \subseteq selectChanged(kinds)
         /\ \A kind \in kinds : Affects(kind) \subseteq selectChanged(kinds)
<1>1. \A kind \in FileKind : Affects(kind) \subseteq Checks
  BY SelectionAssumption DEF Affects, FileKind
<1>2. CASE "other" \in kinds
  BY <1>1, <1>2, SelectionAssumption DEF selectChanged
<1>3. CASE "other" \notin kinds
  BY <1>3 DEF selectChanged
<1> QED BY <1>2, <1>3

\* For a file that differs between two trees, git names it or, when it takes the
\* file to be moved, another of its kinds.
LEMMA DiffNamesTheKind ==
  ASSUME TextTellsKind,
         NEW old, NEW new, NEW f \in Differing(old, new), NEW named \in DiffNames(old, new),
         \A g \in Files : {old[g], new[g]} \subseteq Texts[g] \cup {Missing}
  PROVE  \E g \in named : KindsOf[g] = KindsOf[f]
<1> DEFINE removed == {g \in Differing(old, new) : new[g] = Missing}
           appeared == {g \in Differing(old, new) : old[g] = Missing}
<1>0. PICK gone \in SUBSET removed :
        /\ named = Differing(old, new) \ gone
        /\ \E to \in Injection(gone, appeared) : \A g \in gone : new[to[g]] = old[g]
  BY DEF DiffNames
<1>1. PICK to \in Injection(gone, appeared) :
        /\ named = Differing(old, new) \ gone
        /\ \A g \in gone : new[to[g]] = old[g]
  BY <1>0
<1>2. CASE f \notin gone
  BY <1>1, <1>2
<1>3. CASE f \in gone
  <2>1. to \in [gone -> appeared]
    BY <1>1 DEF Injection
  <2>2. to[f] \in appeared /\ new[to[f]] = old[f]
    BY <1>1, <1>3, <2>1
  <2>3. to[f] \in Differing(old, new) /\ to[f] \in Files /\ f \in Files
    BY <2>2 DEF Differing
  <2>4. old[f] # Missing /\ new[f] = Missing
    BY <1>1, <1>3 DEF Differing
  <2>5. to[f] \notin gone
    BY <1>1, <2>2, <2>4
  <2>6. old[f] \in (Texts[f] \cap Texts[to[f]]) \ {Missing}
    BY <2>2, <2>3, <2>4
  <2>7. KindsOf[to[f]] = KindsOf[f]
    BY <2>3, <2>6 DEF TextTellsKind
  <2> QED BY <1>1, <2>3, <2>5, <2>7
<1> QED BY <1>2, <1>3

\* A file of the working tree that is not what git compares with differs in one
\* of the listings, wherever the change is by now.
LEMMA DifferingIsListed ==
  Differing(since, files) \subseteq
    Differing(since, head) \cup Differing(head, Known) \cup Differing(Known, files)
BY DEF Differing

\* So its kinds are among those of the files git names.
LEMMA ChangesAreNamed ==
  ASSUME TypeOK, TextTellsKind, NEW f \in Differing(since, files), NEW listings \in Listings
  PROVE  KindsOf[f] \subseteq KindsAmong(changedFiles(listings, Listing))
<1> DEFINE named == changedFiles(listings, Listing)
<1>1. PICK b \in DiffNames(since, head), u \in DiffNames(head, Known) :
        listings = [branch |-> b, uncommitted |-> u, untracked |-> Differing(Known, files)]
  BY DEF Listings
<1>2. named = b \cup u \cup Differing(Known, files)
  BY <1>1 DEF changedFiles, Listing
<1>3. \A g \in Files : {since[g], head[g], Known[g]} \subseteq Texts[g] \cup {Missing}
  BY TreesAre DEF TypeOK, since, Known
<1>4. \E g \in named : KindsOf[g] = KindsOf[f]
  <2>1. CASE f \in Differing(since, head)
    BY <1>2, <1>3, <2>1, DiffNamesTheKind
  <2>2. CASE f \in Differing(head, Known)
    BY <1>2, <1>3, <2>2, DiffNamesTheKind
  <2>3. CASE f \in Differing(Known, files)
    BY <1>2, <2>3
  <2> QED BY <2>1, <2>2, <2>3, DifferingIsListed
<1> QED BY <1>4 DEF KindsAmong

-----------------------------------------------------------------------------
(* The property.                                                           *)

\* A run covers what differed when it started, and whatever changes later forgets
\* the run.
LEMMA CoverStep ==
  GitWorks /\ TextTellsKind /\ TypeOK /\ ChangedCoversTree /\ [Next]_vars => ChangedCoversTree'
<1> SUFFICES ASSUME GitWorks, TextTellsKind, TypeOK, ChangedCoversTree, [Next]_vars
             PROVE  ChangedCoversTree'
  OBVIOUS
<1>1. CASE SelectChanged
  <2>1. asked' \subseteq Checks /\ UNCHANGED gitVars
    BY <1>1, ChangedAssumption DEF SelectChanged
  <2>2. Differing(since, files)' = Differing(since, files)
    BY <2>1 DEF gitVars, since, Differing
  <2>3. CASE selected' = asked'
    BY <2>3 DEF ChangedCoversTree, Covers
  <2>4. ASSUME NEW answered \in GitAnswers, NEW listings \in Listings,
               selected' = asked' \cap selectChanged(KindsAmong(changedFiles(listings, answered)))
        PROVE  ChangedCoversTree'
    <3> DEFINE kinds == KindsAmong(changedFiles(listings, Listing))
    <3>1. selected' = asked' \cap selectChanged(kinds)
      BY <2>4 DEF GitWorks
    <3>2. kinds \subseteq FileKind
      <4>1. \A names \in DiffNames(since, head) \cup DiffNames(head, Known) : names \subseteq Files
        BY DEF DiffNames, Differing
      <4>2. \A l \in Listing : listings[l] \subseteq Files
        BY <4>1 DEF Listings, Listing, Differing
      <4> QED BY <4>2, ChangedAssumption DEF KindsAmong, changedFiles
    <3>3. \A f \in Differing(since, files) : KindsOf[f] \subseteq kinds
      BY ChangesAreNamed
    <3> HIDE DEF kinds
    <3>4. /\ Always \cap asked' \subseteq selected'
          /\ \A kind \in kinds : Affects(kind) \cap asked' \subseteq selected'
      BY <3>1, <3>2, SelectionCovers
    <3> QED BY <2>2, <3>3, <3>4 DEF ChangedCoversTree, Covers
  <2> QED BY <1>1, <2>3, <2>4 DEF SelectChanged
<1>2. CASE UNCHANGED vars
  BY <1>2 DEF vars, gitVars, ChangedCoversTree, Covers, Differing, since
<1>3. CASE Next /\ ~SelectChanged
  <2>1. asked' = {}
    BY <1>3 DEF Next, Edit, Add, MergeDefault, CommitFiles, Push, MergeBranch, NoRun
  <2> QED BY <2>1 DEF ChangedCoversTree
<1> QED BY <1>1, <1>2, <1>3

\* While git answers and a text tells what kind of file it is in, no check that a
\* file can affect is dropped, however the change came about and wherever git
\* lists it.
THEOREM ChangedCoversTreeCorrect ==
  ASSUME GitWorks, TextTellsKind
  PROVE  Spec => []ChangedCoversTree
<1>1. Init => ChangedCoversTree
  BY DEF Init, ChangedCoversTree
<1>2. TypeOK /\ ChangedCoversTree /\ [Next]_vars => ChangedCoversTree'
  BY CoverStep
<1> QED BY <1>1, <1>2, ChangedTypeCorrect, PTL DEF Spec

=============================================================================
