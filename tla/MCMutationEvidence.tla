------------------------- MODULE MCMutationEvidence -------------------------
(* Instances of MutationEvidence for TLC: two sources, two texts.          *)
EXTENDS MutationEvidence

TwoFiles == {"a", "b"}
TwoTexts == {1, 2}

\* No exception, a complete one, an incomplete one, one that matches nothing.
SomeRegistries ==
  {{}, {[of |-> "a", complete |-> TRUE]},
       {[of |-> "a", complete |-> FALSE]},
       {[of |-> Gone, complete |-> TRUE]}}
NoRegistry == {{}}

\* CI, a developer's machine, a slice on either, and a job that judges a report,
\* with and without the selector of a slice it inherits.
SomeEnvs ==
  {[shard |-> 0, adopted |-> FALSE, reuse |-> FALSE],
   [shard |-> 0, adopted |-> FALSE, reuse |-> TRUE],
   [shard |-> 1, adopted |-> FALSE, reuse |-> TRUE],
   [shard |-> 0, adopted |-> TRUE, reuse |-> FALSE],
   [shard |-> 1, adopted |-> TRUE, reuse |-> FALSE]}
AdoptingEnvs == {e \in SomeEnvs : ~e.reuse}

OnlyConfig == {"config"}
EveryFailure == {"stryker", "shard", "config"}

=============================================================================
