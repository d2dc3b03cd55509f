--------------------------- MODULE CheckSelection ---------------------------
(***************************************************************************)
(* Which checks a run selects and in which phase each runs: the parts of   *)
(* scripts/changed.mjs and scripts/contract-phases.mjs that compute and    *)
(* touch nothing.  A changed file is known by its kinds: documentation, a  *)
(* workflow, both, or anything else.                                       *)
(***************************************************************************)
CONSTANTS
  Checks,         \* the ids of the checks the contract declares
  SocketCheck,    \* DEFERRED_CHECK: "SecuritySocket"
  Always,         \* the checks about the repository's own state
  Documentation,  \* the checks a documentation change can affect
  Workflows       \* the checks a change under .github/ can affect

ASSUME SelectionAssumption ==
  /\ SocketCheck \in Checks
  /\ Always \subseteq Checks
  /\ Documentation \subseteq Checks
  /\ Workflows \subseteq Checks

FileKind == {"documentation", "workflow", "other"}

\* The checks a changed file of a kind can affect.
Affects(kind) ==
  CASE kind = "documentation" -> Documentation
    [] kind = "workflow"      -> Workflows
    [] OTHER                  -> Checks

\* Every check as soon as one file is neither documentation nor a workflow.
selectChanged(kinds) ==
  IF "other" \in kinds THEN Checks
  ELSE Always \cup UNION {Affects(k) : k \in kinds}

\* The phases of a run: Socket in the second, unless it is the only check.
planPhases(ids) ==
  IF SocketCheck \in ids /\ ids # {SocketCheck}
  THEN [first |-> ids \ {SocketCheck}, deferred |-> {SocketCheck}]
  ELSE [first |-> ids, deferred |-> {}]

=============================================================================
