---------------------------- MODULE MCChangedRun ----------------------------
(* Instances of ChangedRun for TLC: a check of every kind `--changed` knows, *)
(* two documents or workflows that may be moved, and a source file.          *)
EXTENDS ChangedRun

SomeChecks == {"AdoptionMode", "Format", "DocsLinks", "PackedConsumer", "SecuritySocket"}
SomeRequests == {SomeChecks, {"DocsLinks", "SecuritySocket"}}

SomeAlways == {"AdoptionMode"}
SomeDocumentation == {"Format", "DocsLinks"}
SomeWorkflows == {"Format", "PackedConsumer"}

SomeFiles == {"docs/a", ".github/b", ".github/c", "src/d"}
SomeKindsOf ==
  [f \in SomeFiles |-> CASE f = "docs/a" -> {"documentation"}
                         [] f = "src/d" -> {"other"}
                         [] OTHER -> {"workflow"}]

\* What is moved stays of its kind.
ApartTexts ==
  [f \in SomeFiles |-> CASE f = "docs/a" -> {Missing, 1}
                         [] f = "src/d" -> {2, 3}
                         [] OTHER -> {Missing, 4}]

\* A clone whose base branch git knows, and one where any listing may fail (no
\* base branch, no merge base with a shallow one).
EveryListing == {Listing}
AnyListing == SUBSET Listing

=============================================================================
