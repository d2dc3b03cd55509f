----------------------------- MODULE ChangedRun -----------------------------
(***************************************************************************)
(* `--changed` in a clone that people work in (scripts/changed.mjs): files *)
(* are edited, added, committed, moved and pushed, branches are merged,    *)
(* and now and then a run narrows itself to what git names as changed.     *)
(*                                                                         *)
(* A tree gives every path its text, or Missing.                           *)
(***************************************************************************)
EXTENDS CheckSelection, Integers, Functions

CONSTANTS
  Files,         \* the paths,
  KindsOf,       \* the kinds of each,
  Texts,         \* and what each may say, or be Missing
  GitAnswers,    \* which of git's listings may succeed together
  Requests       \* the checks a run may be asked for

Missing == 0
Listing == {"branch", "uncommitted", "untracked"}

ASSUME ChangedAssumption ==
  /\ KindsOf \in [Files -> SUBSET FileKind]
  /\ Texts \in [Files -> SUBSET Nat]
  /\ GitAnswers \subseteq SUBSET Listing
  /\ Requests \subseteq SUBSET Checks

VARIABLES
  base,       \* the tree where the branch left the default branch
  upstream,   \* what the branch's own upstream has, if it has one
  pushed,     \* whether it has an upstream
  head,       \* the tree of the last commit
  added,      \* the new paths that the index knows
  files,      \* the working tree
  asked,      \* the checks the last run was asked for
  selected    \* the checks the last run selected

gitVars == <<base, upstream, pushed, head, added, files>>
vars == <<gitVars, asked, selected>>

Tree == {tree \in [Files -> UNION {Texts[f] : f \in Files}] : \A f \in Files : tree[f] \in Texts[f]}

TypeOK ==
  /\ {base, upstream, head, files} \subseteq Tree
  /\ pushed \in BOOLEAN
  /\ added \subseteq Files
  /\ asked \subseteq Checks /\ selected \subseteq asked

Init ==
  /\ base \in Tree /\ head = base /\ files = base
  /\ upstream = base /\ pushed = FALSE /\ added = {}
  /\ asked = {} /\ selected = {}

-----------------------------------------------------------------------------
(* The person, and everyone who merges into the default branch.            *)

NoRun == asked' = {} /\ selected' = {}

\* A file is written, changed or deleted.  One that is deleted here and written
\* with the same text there was moved.
Edit(f) ==
  /\ \E text \in Texts[f] \ {files[f]} : files' = [files EXCEPT ![f] = text]
  /\ NoRun
  /\ UNCHANGED <<base, upstream, pushed, head, added>>

Add(f) ==
  /\ head[f] = Missing /\ files[f] # Missing /\ f \notin added
  /\ added' = added \cup {f}
  /\ NoRun
  /\ UNCHANGED <<base, upstream, pushed, head, files>>

CommitFiles(fs) ==
  /\ head' = [f \in Files |-> IF f \in fs THEN files[f] ELSE head[f]]
  /\ head' # head
  /\ added' = added \ fs
  /\ NoRun
  /\ UNCHANGED <<base, upstream, pushed, files>>

\* `git push -u`; commits are never rewritten, so what was pushed is an ancestor.
Push ==
  /\ pushed' = TRUE /\ upstream' = head
  /\ NoRun
  /\ UNCHANGED <<base, head, added, files>>

\* The branch is merged into the default one, and its upstream may be deleted.
MergeBranch ==
  /\ base' = head
  /\ \/ UNCHANGED <<upstream, pushed>>
     \/ upstream' = head /\ pushed' = FALSE
  /\ NoRun
  /\ UNCHANGED <<head, added, files>>

\* The default branch, on which others changed a file, is merged into the branch.
MergeDefault(f) ==
  /\ files[f] = head[f]
  /\ \E text \in Texts[f] \ {base[f]} :
       LET merged == IF head[f] = base[f] THEN text ELSE head[f]
       IN /\ base' = [base EXCEPT ![f] = text]
          /\ head' = [head EXCEPT ![f] = merged]
          /\ files' = [files EXCEPT ![f] = merged]
  /\ added' = added \ {f}
  /\ NoRun
  /\ UNCHANGED <<upstream, pushed>>

-----------------------------------------------------------------------------
(* What git names.                                                         *)

Differing(old, new) == {f \in Files : old[f] # new[f]}

\* What `git diff --name-only` may print of two trees: of a file it takes to be
\* moved, only the new name.
DiffNames(old, new) ==
  LET removed == {f \in Differing(old, new) : new[f] = Missing}
      appeared == {f \in Differing(old, new) : old[f] = Missing}
      Moved == {gone \in SUBSET removed :
                  \E to \in Injection(gone, appeared) : \A f \in gone : new[to[f]] = old[f]}
  IN {Differing(old, new) \ gone : gone \in Moved}

\* What git compares the commits with: the branch's own upstream before the
\* default branch.
since == IF pushed THEN upstream ELSE base

\* The working tree as far as git knows its paths.
Known == [f \in Files |-> IF head[f] # Missing \/ f \in added THEN files[f] ELSE Missing]

Listings ==
  {[branch |-> b, uncommitted |-> u, untracked |-> Differing(Known, files)] :
     b \in DiffNames(since, head), u \in DiffNames(head, Known)}

\* Fault: only the commits since the base are looked at.
changedFiles_CommitsOnly(listings, answered) ==
  IF "branch" \in answered THEN listings["branch"] ELSE {}

\* A listing that fails, or one for which no base is known, reads as an empty one.
changedFiles(listings, answered) == UNION {listings[l] : l \in answered}

KindsAmong(fs) == UNION {KindsOf[f] : f \in fs}

\* Fault: --changed selects afresh instead of narrowing what was asked for.
SelectChanged_Anew ==
  /\ asked' \in Requests
  /\ \E answered \in GitAnswers, listings \in Listings :
       selected' = selectChanged(KindsAmong(changedFiles(listings, answered)))
  /\ UNCHANGED gitVars

\* A run with --changed: what git names narrows what was asked for.  When git
\* says this is no work tree, changedFiles is undefined and nothing narrows.
SelectChanged ==
  /\ asked' \in Requests
  /\ \/ \E answered \in GitAnswers, listings \in Listings :
          selected' = asked' \cap selectChanged(KindsAmong(changedFiles(listings, answered)))
     \/ selected' = asked'
  /\ UNCHANGED gitVars

Next ==
  \/ \E f \in Files : Edit(f) \/ Add(f) \/ MergeDefault(f)
  \/ \E fs \in SUBSET Files : CommitFiles(fs)
  \/ Push \/ MergeBranch \/ SelectChanged

Spec == Init /\ [][Next]_vars

-----------------------------------------------------------------------------
(* Properties.                                                             *)

\* The last run kept every check about the repository itself, and every one the
\* files in fs can affect, of those it was asked for.
Covers(fs) ==
  /\ Always \cap asked \subseteq selected
  /\ \A f \in fs : \A kind \in KindsOf[f] : Affects(kind) \cap asked \subseteq selected

\* --changed "errs toward running more": whichever file in the working tree is not
\* what it is in the tree git compares with, be it committed, edited, added, new,
\* deleted or moved, a run keeps the checks that file can affect.
\* (changedFiles and selectChanged.)
ChangedCoversTree == asked # {} => Covers(Differing(since, files))

=============================================================================
