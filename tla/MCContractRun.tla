--------------------------- MODULE MCContractRun ---------------------------
(***************************************************************************)
(* Instances of ContractRun for TLC: which of the contract's checks the    *)
(* model has, and what each of them may leave on disk.                     *)
(***************************************************************************)
EXTENDS ContractRun

\* The gate: one ordinary check next to AdoptionMode and SecuritySocket, each
\* with every outcome there is.
GateChecks == {"Tests", "AdoptionMode", "SecuritySocket"}
EveryOutcome == [c \in Checks |-> Class]
InvalidOnly == {Invalid}
NoWrites == [c \in Checks |-> {}]

\* The working tree: the checks that leave something behind.  What a run
\* leaves depends on which of them fail and on no more.
WorkspaceChecks == {"Tests", "Mutation", "AdoptionMode", "SecuritySocket"}
PassOrFail == [c \in Checks |-> {"pass", "fail"}]
MCWrites == [c \in Checks |-> CASE c = "Tests"    -> {"coverage", "tools"}
                                [] c = "Mutation" -> {"evidence", "stryker"}
                                [] OTHER          -> {}]
NoFile == {}

MCAlways == {"AdoptionMode"}
MCDocumentation == {}
MCWorkflows == {}
NoDependency == [c \in Checks |-> {}]

BareWorkspace == {Bare}
AnyWorkspace == Disk

=============================================================================
