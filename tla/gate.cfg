SPECIFICATION Spec
CONSTANTS
  Checks <- GateChecks
  AdoptionCheck = "AdoptionMode"
  SocketCheck = "SecuritySocket"
  Days = 0
  MaxDay = 1
  HandWritten <- InvalidOnly
  Always <- MCAlways
  Documentation <- MCDocumentation
  Workflows <- MCWorkflows
  DependsOn <- NoDependency
  Outcomes <- EveryOutcome
  Writes <- NoWrites
  Workspaces <- BareWorkspace
INVARIANTS
  TypeOK
  VerdictIsExact
  PassMeansAllRan
  AdoptionEnds
PROPERTIES
  GateSpec
  SocketComesLast
  RunEnds
